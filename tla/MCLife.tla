--------------------------------- MODULE MCLife ---------------------------------
(***************************************************************************)
(* An instance of SidecarLifecycle: the child, the one that follows it,    *)
(* and a third process that may hold the port.                             *)
(***************************************************************************)
EXTENDS SidecarLifecycle

CONSTANTS n1, n2, n3

MCNodes == {n1, n2, n3}
=============================================================================
