--------------------------------- MODULE MCDesk ---------------------------------
(***************************************************************************)
(* An instance of Desk: a model with its vectors, and one that is neither  *)
(* installed nor vectorized.                                               *)
(***************************************************************************)
EXTENDS Desk

CONSTANTS old, new

MCModels == {old, new}
MCReady == {old}
=============================================================================
