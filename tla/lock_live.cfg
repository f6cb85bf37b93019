SPECIFICATION FairSpec
CONSTANTS
  server1 = server1
  server2 = server2
  script = script
  sync1 = sync1
  scan1 = scan1
  scan2 = scan2
  vectorize = vectorize
  NoOp = NoOp
  Procs <- TwoServers
  Ops <- TheirOps
  ProcOf <- OpsOfServers
  SpawnerOf <- NoScripts
  Env = {"torn", "crash", "exit", "reuse", "rm", "unlock"}
PROPERTY DeadLockGoes
CHECK_DEADLOCK FALSE
