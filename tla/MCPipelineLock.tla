---------------------------- MODULE MCPipelineLock ----------------------------
(***************************************************************************)
(* An instance of PipelineLock: two servers on one database, two write     *)
(* requests in the first, one in the second, and a vectorization script    *)
(* spawned by the first request.                                           *)
(***************************************************************************)
EXTENDS PipelineLock

CONSTANTS server1, server2, script, sync1, scan1, scan2, vectorize

MCProcs == {server1, server2, script}

MCOps == {sync1, scan1, scan2, vectorize}

MCProcOf ==
  [o \in MCOps |-> CASE o \in {sync1, scan1} -> server1
                    [] o = scan2 -> server2
                    [] o = vectorize -> script]

MCSpawnerOf == [p \in MCProcs |-> IF p = script THEN sync1 ELSE NoOp]

\* The servers alone.
TwoServers == {server1, server2}
TheirOps == {sync1, scan2}
OpsOfServers == [o \in TheirOps |-> MCProcOf[o]]
NoScripts == [p \in TwoServers |-> NoOp]
=============================================================================
