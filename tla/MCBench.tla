-------------------------------- MODULE MCBench --------------------------------
(***************************************************************************)
(* An instance of FullRun: a pipeline step and two benchmarks, as for two  *)
(* models that were chosen, each of three cases in two modes. Of the axes  *)
(* "search" is multiplied and "chatModel" is not; the form may leave them  *)
(* alone, set them so that the matrix is too large, or name a value nobody *)
(* knows.                                                                  *)
(***************************************************************************)
EXTENDS FullRun

CONSTANTS c1, c2, c3, fts, vector, hybrid, other, chat

MCCases == <<c1, c2, c3>>
MCAxisNames == {"search", "chatModel"}
MCMultiplied == {"search"}
MCKnown == [a \in MCAxisNames |-> IF a = "search" THEN {fts, vector, hybrid} ELSE {chat}]
MCConfigAxes == [a \in MCAxisNames |-> IF a = "search" THEN <<fts, hybrid>> ELSE <<chat>>]
Form(s) == [a \in {"search"} |-> s]
MCOverrides == {<<>>, Form(<<fts, vector, hybrid>>), Form(<<other>>)}
MCPlan == <<"pipeline", "tests", "tests">>
=============================================================================
