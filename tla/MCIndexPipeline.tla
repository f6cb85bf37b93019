---------------------------- MODULE MCIndexPipeline ----------------------------
(***************************************************************************)
(* An instance of IndexPipeline: two applications with a page of either    *)
(* kind, two embedding models.                                             *)
(***************************************************************************)
EXTENDS IndexPipeline, TLC

CONSTANTS a1, a2, small, large, file, web

MCApps == {a1, a2}
MCApp == {a1}
MCNameOf == [a \in Apps |-> a]
MCModels == {small, large}
MCLists == {<<>>, <<small, large>>}
(***************************************************************************)
(* The applications the stores hold anything of. Bound lets the second one *)
(* in with the first model only, and in any full sync in which nothing has *)
(* failed: elsewhere two applications and two models at once add no        *)
(* interaction, and two orders of magnitude of states.                     *)
(***************************************************************************)
InPlay == known \cup {a \in Apps : links[a] # {}}
            \cup {r[1] : r \in fts \cup UNION {vec[m] : m \in MCModels}}
Bound ==
  \/ InPlay \subseteq {a1}
  \/ tables \cup {config.file, config.model} \subseteq {small}
  \/ job.clean
MCPagesOf == [a \in Apps |-> IF a = a1 THEN {web, file} ELSE {file}]
MCFiles == [a \in Apps |-> {file}]
=============================================================================
