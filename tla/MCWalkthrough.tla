----------------------------- MODULE MCWalkthrough -----------------------------
(***************************************************************************)
(* An instance of WalkthroughWindow.                                       *)
(***************************************************************************)
EXTENDS WalkthroughWindow

CONSTANTS p1, crop, cropAgain, save

MCAlike == {<<crop, cropAgain>>, <<cropAgain, crop>>}
MCGuide == <<crop, save>>
=============================================================================
