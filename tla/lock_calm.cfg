SPECIFICATION Spec
CONSTANTS
  server1 = server1
  server2 = server2
  script = script
  sync1 = sync1
  scan1 = scan1
  scan2 = scan2
  vectorize = vectorize
  NoOp = NoOp
  Procs <- MCProcs
  Ops <- MCOps
  ProcOf <- MCProcOf
  SpawnerOf <- MCSpawnerOf
  Env = {"unlock", "disk"}
INVARIANT TypeOK
INVARIANT MutualExclusion
INVARIANT HolderIsVisible
PROPERTY ImplementsWriteLock
