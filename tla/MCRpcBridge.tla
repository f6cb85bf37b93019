------------------------------ MODULE MCRpcBridge ------------------------------
(***************************************************************************)
(* An instance of RpcBridge: a long call, a second one, and a job.cancel   *)
(* that names the first.                                                   *)
(***************************************************************************)
EXTENDS RpcBridge

CONSTANTS query, cancel

MCCalls == {query, cancel}

MCTarget == [c \in MCCalls |-> IF c = cancel THEN query ELSE NoCall]
=============================================================================
