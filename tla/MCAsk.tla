--------------------------------- MODULE MCAsk ---------------------------------
(***************************************************************************)
(* An instance of RagEngine: two chunks of one guide that begin alike, one *)
(* of a second guide, and the description and the metadata of a program.   *)
(***************************************************************************)
EXTENDS RagEngine, TLC

CONSTANTS begin, same, guide, words, meta, mail, notes, intents, noDoc, small, large

MCChunks == {begin, same, guide, words, meta}
MCAppOf == [c \in MCChunks |-> IF c \in {begin, same} THEN "Mail" ELSE "Notes"]
MCDocOf == [c \in MCChunks |-> CASE c \in {begin, same} -> mail [] c = guide -> notes
                               [] c = words -> intents [] c = meta -> noDoc]
MCKeyOf == [c \in MCChunks |-> IF c = same THEN begin ELSE c]
MCDocs == {mail, notes}
MCModels == {small, large}

ASSUME FusionReturnsChunks == FusionPicksChunks

\* Nothing tells the models apart.
Symmetric == Permutations(MCModels)
=============================================================================
