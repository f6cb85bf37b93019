------------------------------- MODULE RagEngine -------------------------------
(***************************************************************************)
(* One question to processQuery (engine.js), every await apart: the mode   *)
(* is resolved, the question embedded, two searches are fused, documents   *)
(* are loaded, shown to the chat model under numbers, and what it answers  *)
(* is read back.  Meanwhile a benchmark, config.reload or config.update-   *)
(* Models changes the configuration the process shares, and a pipeline     *)
(* the stores.                                                             *)
(***************************************************************************)
EXTENDS Integers, Sequences, SequencesExt, FiniteSets, FiniteSetsExt

CONSTANTS
  Chunks, AppOf, DocOf, KeyOf,  \* of a chunk: its program, its document, the key of the fusion
  Docs, Intents, NoDoc,         \* documents; docId -1 and docId 0
  Models, NoModel,
  TopK, MaxDocs,                \* settings: rag.topK, rag.maxContextDocuments
  WithIntents,                  \* setting: rag.includeAppIntents
  MaxChanges                    \* bound: changes from outside

Apps == {AppOf[c] : c \in Chunks}
Markers == {"NOT_FOUND", "INVALID_QUERY"}

\* No program is called as an outcome is.
ASSUME RagAssumption ==
  /\ AppOf \in [Chunks -> STRING] /\ DOMAIN KeyOf = Chunks
  /\ DocOf \in [Chunks -> Docs \cup {Intents, NoDoc}] /\ {Intents, NoDoc} \cap Docs = {} /\ Intents # NoDoc
  /\ NoModel \notin Models /\ Models # {}
  /\ Apps \cap ({"none", "ERROR"} \cup Markers) = {}
  /\ TopK \in 1 .. 4 /\ MaxDocs \in 1 .. 5 /\ MaxChanges \in Nat /\ WithIntents \in BOOLEAN

VARIABLES
  config,   \* config.rag and the embedding model, in memory
  stored,   \* documents whose text is in the database
  tables,   \* models that have a table of vectors
  conn,     \* to: the model of _currentLanceDbPath; table: of `table'
  changes,
  query,    \* the call: where it stands and what it holds by then
  searched  \* history: both rankings until the first document is loaded, and the
            \* models of the vector and of the table it was searched in

vars == <<config, stored, tables, conn, changes, query, searched>>

FallbackDocs == 5

New == [at |-> "new", asked |-> "auto", mode |-> "auto", vector |-> NoModel, found |-> <<>>,
        next |-> 1, seen |-> {}, picked |-> <<>>, shown |-> <<>>, form |-> "none",
        raw |-> [says |-> "nothing", n |-> 0], app |-> "none", others |-> {}]

\* The prompt is reordered unless a benchmark says otherwise.  The handle may be
\* of any table: what was opened, kept by init, or built since by a child.
Init ==
  /\ config \in [model : Models, json : BOOLEAN, reorder : {TRUE}]
  /\ stored = Docs /\ tables \in SUBSET Models /\ changes = 0
  /\ conn \in [to : Models, table : tables \cup {NoModel}]
  /\ query = New /\ searched = [byVector |-> <<>>, byText |-> <<>>, with |-> NoModel, in |-> NoModel]

At(phase) == query.at = phase

-----------------------------------------------------------------------------
(* Reciprocal rank fusion                                                  *)

\* 1 / (60 + rank), in units that keep the first four ranks exact.
Scale == 60 * 61 * 62 * 63
Weight(i) == Scale \div (59 + i)

\* scores: a Map, whose entries stay where they were first set.
Has(scores, c) == \E i \in DOMAIN scores : KeyOf[scores[i].item] = KeyOf[c]
Place(scores, c) == CHOOSE i \in DOMAIN scores : KeyOf[scores[i].item] = KeyOf[c]

PutVector(scores, c, i) ==
  LET entry == [item |-> c, score |-> Weight(i)]
  IN IF Has(scores, c) THEN [scores EXCEPT ![Place(scores, c)] = entry] ELSE Append(scores, entry)

\* Mutant: what both searches have found counts as found by text.
PutTextOver(scores, c, i) == PutVector(scores, c, i)

PutText(scores, c, i) ==
  IF Has(scores, c) THEN [scores EXCEPT ![Place(scores, c)].score = @ + Weight(i)]
  ELSE Append(scores, [item |-> c, score |-> Weight(i)])

Ranks(s) == [i \in DOMAIN s |-> i]

Top(s) == SubSeq(s, 1, Min({TopK, Len(s)}))

Fuse(byVector, byText) ==
  LET ofVectors == FoldLeft(LAMBDA acc, i : PutVector(acc, byVector[i], i), <<>>, Ranks(byVector))
      scores == FoldLeft(LAMBDA acc, i : PutText(acc, byText[i], i), ofVectors, Ranks(byText))
      order == SetToSortSeq(DOMAIN scores,
                 LAMBDA i, j : \/ scores[i].score > scores[j].score
                               \/ scores[i].score = scores[j].score /\ i < j)
      ranking == [i \in DOMAIN order |-> scores[order[i]].item]
  IN Top(ranking)

Rankings == UNION {{s \in [1 .. n -> Chunks] : IsInjective(s)} : n \in 0 .. TopK}

\* The fusion returns chunks, each once, whatever the two searches have found.
FusionPicksChunks == \A v, t \in Rankings : Fuse(v, t) \in Rankings

-----------------------------------------------------------------------------
(* Searching                                                               *)

\* ensureLanceDbConnected: what is open stays open as long as the path is the same.
Linked ==
  IF conn.to = config.model THEN conn
  ELSE [to |-> config.model, table |-> IF config.model \in tables THEN config.model ELSE NoModel]

\* auto is resolved before anything is searched, by whether a table is open.
Begins(asked) ==
  /\ At("new")
  /\ conn' = IF asked = "auto" THEN Linked ELSE conn
  /\ LET mode == IF asked # "auto" THEN asked ELSE IF Linked.table # NoModel THEN "hybrid" ELSE "fts"
     IN query' = [query EXCEPT !.asked = asked, !.mode = mode,
                               !.at = IF mode = "fts" THEN "text" ELSE "embed"]
  /\ UNCHANGED <<config, stored, tables, changes, searched>>

Embeds ==
  /\ At("embed")
  /\ query' = [query EXCEPT !.vector = config.model, !.at = "vectors"]
  /\ UNCHANGED <<config, stored, tables, conn, changes, searched>>

\* What was found is what the answer is made of.
Found(ranking) == [query EXCEPT !.found = ranking, !.at = IF ranking = <<>> THEN "nothing" ELSE "load"]

\* The connection follows the model configured now, and without a table there
\* are no results; one that is gone from the disk fails, as does a vector of
\* another length.  A pure vector search keeps what is near enough.
SearchesVectors(ranking, near) ==
  /\ At("vectors") /\ Linked.table \in tables \cup {NoModel}
  /\ Linked.table = NoModel => ranking = <<>>
  /\ near \in 0 .. Len(ranking) /\ (query.mode = "hybrid" => near = Len(ranking))
  /\ conn' = Linked
  /\ searched' = [searched EXCEPT !.byVector = ranking, !.with = query.vector, !.in = Linked.table]
  /\ query' = IF query.mode = "hybrid" THEN [query EXCEPT !.at = "text"]
              ELSE Found(SubSeq(ranking, 1, near))
  /\ UNCHANGED <<config, stored, tables, changes>>

SearchesText(ranking) ==
  /\ At("text")
  /\ searched' = [searched EXCEPT !.byText = ranking]
  /\ query' = Found(IF query.mode = "hybrid" THEN Fuse(searched.byVector, ranking) ELSE ranking)
  /\ UNCHANGED <<config, stored, tables, conn, changes>>

-----------------------------------------------------------------------------
(* The documents                                                           *)

\* Mutant: of an odd number the one in the middle is lost.
ReorderedPairs(s) ==
  LET half == Len(s) \div 2 IN [p \in 1 .. 2 * half |-> IF p <= half THEN s[2 * p] ELSE s[2 * (2 * half - p) + 1]]

\* The best first and last, the worst in the middle.
Reordered(s) ==
  [p \in DOMAIN s |-> IF p <= Len(s) \div 2 THEN s[2 * p] ELSE s[2 * (Len(s) - p) + 1]]

Doc(c) == [app |-> AppOf[c], doc |-> DocOf[c]]

\* Nothing could be loaded: the chunks themselves are shown.
Fallback(chunks) ==
  [i \in 1 .. Min({FallbackDocs, Len(chunks)}) |-> Doc(chunks[i])]

\* The prompt, and with it the form of the answer, follow in the same turn.
Shows(q, docs) ==
  [q EXCEPT !.shown = IF config.reorder THEN Reordered(docs) ELSE docs, !.picked = docs,
            !.form = IF config.json THEN "json" ELSE "text", !.at = "generate"]

Enough(docs) == Len(docs) >= MaxDocs

\* All descriptions of programs share docId -1.
Fresh(c) == DocOf[c] # NoDoc /\ DocOf[c] \notin query.seen

\* The description comes from the chunk, any other document from the database.
Loads(d) == d \in stored \/ (d = Intents /\ WithIntents)

\* One document, if it is still there.
Load ==
  /\ At("load")
  /\ LET c == query.found[query.next]
         docs == IF Fresh(c) /\ Loads(DocOf[c])
                   THEN Append(query.picked, Doc(c)) ELSE query.picked
         q == [query EXCEPT !.next = @ + 1, !.picked = docs,
                            !.seen = IF Fresh(c) THEN @ \cup {DocOf[c]} ELSE @]
     IN query' = IF ~Enough(docs) /\ query.next < Len(query.found) THEN q
                 ELSE Shows(q, IF docs = <<>> THEN Fallback(query.found) ELSE docs)
  /\ searched' = [searched EXCEPT !.byVector = <<>>, !.byText = <<>>]
  /\ UNCHANGED <<config, stored, tables, conn, changes>>

-----------------------------------------------------------------------------
(* The answer                                                              *)

\* A number the model may give: within the list, or none that is there.
Generates(raw) ==
  /\ At("generate") /\ raw.n <= Len(query.shown) + 1
  /\ query' = [query EXCEPT !.raw = raw, !.at = "read"]
  /\ UNCHANGED <<config, stored, tables, conn, changes, searched>>

Raws == [says : {"match"}, n : 0 .. FallbackDocs + 1] \cup [says : {"invalid", "none", "garbled"}, n : {0}]

\* Mutant: the number is looked up in the order of the ranking.
SourceRanked(n) == query.picked[n].app

Source(n) == query.shown[n].app

Named == query.raw.says = "match" /\ query.raw.n \in DOMAIN query.shown

\* The setting is read again: an answer in the form it does not name has
\* neither a number nor a field, and its repair may fail.
Readings ==
  CASE config.json /\ query.form = "text" -> {"NOT_FOUND", "ERROR"}
    [] ~config.json /\ query.form = "json" ->
         {IF query.raw.says = "invalid" THEN "INVALID_QUERY" ELSE "NOT_FOUND"}
    [] OTHER ->
         IF Named THEN {Source(query.raw.n)}
         ELSE IF query.raw.says = "invalid" THEN {"INVALID_QUERY"}
         ELSE IF query.raw.says = "garbled" /\ config.json THEN {"NOT_FOUND", "ERROR"}
         ELSE {"NOT_FOUND"}

ContextApps == {query.shown[i].app : i \in DOMAIN query.shown}

Reads ==
  /\ At("read")
  /\ \E app \in Readings :
       query' = [query EXCEPT !.app = app, !.at = "done",
                              !.others = IF app \in Markers THEN {} ELSE ContextApps \ {app}]
  /\ UNCHANGED <<config, stored, tables, conn, changes, searched>>

FindsNothing ==
  /\ At("nothing")
  /\ query' = [query EXCEPT !.app = "NOT_FOUND", !.at = "done"]
  /\ UNCHANGED <<config, stored, tables, conn, changes, searched>>

\* Ollama or a store fails: so does the call.
Throws ==
  /\ query.at \in {"embed", "vectors", "text", "load", "generate"}
  /\ query' = [query EXCEPT !.at = "failed"]
  /\ UNCHANGED <<config, stored, tables, conn, changes, searched>>

\* What the window makes of it (parseAnswer.js): a failure is shown as a match.
Kind == CASE query.app \in {"none", "NOT_FOUND"} -> "empty"
          [] query.app = "INVALID_QUERY" -> "invalid"
          [] OTHER -> "match"

-----------------------------------------------------------------------------
(* The surroundings                                                        *)

Pending == query.at \notin {"new", "done", "failed"} /\ changes < MaxChanges /\ changes' = changes + 1

\* The embedding model, the tables and which is open are looked at up to the search.
Open == query.at \in {"embed", "vectors"}

ConfigChanges ==
  /\ Pending
  /\ config' \in [model : Models, json : BOOLEAN, reorder : BOOLEAN] /\ config' # config
  /\ config'.model = config.model \/ Open
  /\ UNCHANGED <<stored, tables, conn, query, searched>>

\* A table is built or cleared, by this process or another; a document is
\* stored anew, under another id.
StoresChange ==
  /\ Pending
  /\ \/ \E m \in Models :
          /\ Open /\ tables' = SymDiff(tables, {m})
          /\ \/ UNCHANGED conn
             \/ m = config.model /\ conn' = [to |-> m, table |-> IF m \in tables THEN NoModel ELSE m]
          /\ UNCHANGED stored
     \/ \E d \in stored : stored' = stored \ {d} /\ UNCHANGED <<tables, conn>>
  /\ UNCHANGED <<config, query, searched>>

\* db.init of a benchmark opens the table of the model, and keeps the one that
\* is open when there is none.
Reconnects ==
  /\ Pending /\ Open
  /\ conn' = [to |-> config.model, table |-> IF config.model \in tables THEN config.model ELSE conn.table]
  /\ UNCHANGED <<config, stored, tables, query, searched>>

Next ==
  \/ \E mode \in {"vector", "fts", "hybrid", "auto"} : Begins(mode)
  \/ Embeds
  \/ \E r \in Rankings, near \in 0 .. TopK : SearchesVectors(r, near)
  \/ \E r \in Rankings : SearchesText(r)
  \/ Load \/ (\E raw \in Raws : Generates(raw)) \/ Reads \/ FindsNothing \/ Throws
  \/ ConfigChanges \/ StoresChange \/ Reconnects

Spec == Init /\ [][Next]_vars

-----------------------------------------------------------------------------
TypeOK ==
  /\ config \in [model : Models, json : BOOLEAN, reorder : BOOLEAN]
  /\ stored \subseteq Docs /\ tables \subseteq Models /\ changes \in 0 .. MaxChanges
  /\ conn \in [to : Models, table : Models \cup {NoModel}]
  /\ query.at \in {"new", "embed", "vectors", "text", "load", "nothing", "generate", "read", "done", "failed"}
  /\ query.mode \in {"vector", "fts", "hybrid", "auto"} /\ (query.mode = "auto" => At("new"))
  /\ query.vector \in Models \cup {NoModel}
  /\ query.found \in Rankings /\ query.next \in 1 .. Len(query.found) + 1
  /\ Len(query.picked) <= (IF query.next = 1 THEN 0 ELSE Max({MaxDocs, FallbackDocs}))
  /\ Len(query.shown) \in {0, Len(query.picked)}
  /\ query.form \in {"none", "json", "text"} /\ query.raw \in Raws \cup {New.raw}
  /\ query.app \in Apps \cup Markers \cup {"none", "ERROR"} /\ query.others \subseteq Apps

\* What the key of a chunk is worth: its last place among the vectors, and all
\* its places among the texts.
Score(byVector, byText, c) ==
  LET places(s) == {i \in DOMAIN s : KeyOf[s[i]] = KeyOf[c]}
  IN  (IF places(byVector) = {} THEN 0 ELSE Weight(Max(places(byVector))))
      + MapThenSumSet(Weight, places(byText))

\* A ranking is that of the scores, with each key once and nothing better left
\* out.
RanksBest(byVector, byText, ranking) ==
  LET found == Range(byVector) \cup Range(byText)
      score(c) == Score(byVector, byText, c)
  IN  /\ Len(ranking) = Min({TopK, Cardinality({KeyOf[c] : c \in found})})
      /\ \A i \in DOMAIN ranking, c \in found :
           \/ score(c) <= score(ranking[i])
           \/ \E j \in 1 .. i - 1 : KeyOf[ranking[j]] = KeyOf[c]

FusedFirst ==
  query.mode = "hybrid" /\ query.at \in {"load", "nothing"} /\ query.next = 1 =>
    RanksBest(searched.byVector, searched.byText, query.found)

\* The documents are the best that can be loaded, each once.
LoadedFirst ==
  changes = 0 /\ query.shown # <<>> =>
    /\ \A c \in Range(query.found) :
         Loads(DocOf[c]) /\ Len(query.picked) < MaxDocs => DocOf[c] \in {d.doc : d \in Range(query.picked)}
    /\ \A i, j \in DOMAIN query.picked :
         i < j /\ Loads(query.picked[i].doc) => query.picked[i].doc # query.picked[j].doc /\ j <= MaxDocs

\* How far a place in the prompt is from the nearer end of it.
Edge(p) == Min({p - 1, Len(query.shown) - p})
PlaceOf(d) == CHOOSE p \in DOMAIN query.shown : query.shown[p] = d

ShownFirst ==
  query.shown # query.picked /\ query.shown # <<>> /\ IsInjective(query.picked) =>
    \A i, j \in DOMAIN query.picked :
      i < j => Edge(PlaceOf(query.picked[i])) <= Edge(PlaceOf(query.picked[j]))

(* The best comes first, three times: the fused ranking is that of the     *)
(* scores; the documents of an undisturbed question are the best that can  *)
(* be loaded, each once; and in a reordered prompt no document is farther  *)
(* from its ends than a worse one (engine.js:80-113, 156-206, 227-245).    *)
BestFirst == FusedFirst /\ LoadedFirst /\ ShownFirst

(* A program is recommended only as the source the model has named, by the *)
(* number it was shown under, and never beside itself, and no program is   *)
(* offered when none was found.  Unless something changed during the call, *)
(* a named source is recommended, and `hybrid' in the statistics of an     *)
(* automatic search means that vectors were searched, those of the model   *)
(* that embedded the question (engine.js:58, 292-375; docs/contracts/      *)
(* rpc.md:95-102), except when the open table is not of the model the      *)
(* connection is for: db.init keeps the old table when the new model has   *)
(* none (db.service.js:484-498, 665-680), as a benchmark of such a model   *)
(* makes it do (test-rag.js:72, 106), and then the wrong vectors are       *)
(* searched under the name of a vector search.                             *)
AnswerIsHonest ==
  At("done") =>
    /\ query.app \in Apps => Named /\ query.shown[query.raw.n].app = query.app
    /\ query.app \notin query.others /\ query.others \subseteq ContextApps
    /\ Kind # "match" => query.others = {}
    /\ changes = 0 =>
         /\ Named => query.app = query.shown[query.raw.n].app
         /\ query.asked = "auto" /\ query.mode = "hybrid" => searched.in # NoModel
         /\ searched.in \notin {NoModel, searched.with} => conn.table # conn.to
=============================================================================
