---------------------------- MODULE RagEngineProofs ----------------------------
(***************************************************************************)
(* AnswerIsHonest, TypeOK and BestFirst for any chunks, programs,          *)
(* rankings, limits, models and changes from outside.  What the fold of    *)
(* the fusion returns is an assumption of the theorems: FusionPicksChunks, *)
(* which TLC evaluates for every pair of rankings of its instance (MCAsk), *)
(* and, for BestFirst, FusionIsBest.                                       *)
(***************************************************************************)
EXTENDS RagEngine, TLAPS

Fields == {"at", "asked", "mode", "vector", "found", "next", "seen", "picked", "shown",
           "form", "raw", "app", "others"}
Sides == {"byVector", "byText", "with", "in"}
Sources == [app : Apps, doc : Docs \cup {Intents, NoDoc}]

\* The call and the history are records.
Shape ==
  /\ query = [f \in Fields |-> query[f]]
  /\ searched = [f \in Sides |-> searched[f]]

\* What the call holds are chunks, and sources of programs that there are.
Holds ==
  /\ config.model \in Models /\ config.json \in BOOLEAN /\ changes \in Nat
  /\ searched.byVector \in Rankings
  /\ query.found \in Seq(Chunks) /\ query.picked \in Seq(Sources) /\ query.shown \in Seq(Sources)
  /\ query.at \in {"new", "embed", "vectors", "text"} => query.next = 1
  /\ At("load") => query.next \in 1 .. Len(query.found)
  /\ query.at \in {"new", "embed", "vectors", "text", "load", "nothing"} => query.shown = <<>>
  /\ ~At("done") => query.others = {}

\* Nothing has changed since the call began: what was decided then still holds.
Undisturbed ==
  changes = 0 =>
    /\ query.at \in {"generate", "read"} => query.form = IF config.json THEN "json" ELSE "text"
    /\ At("vectors") => query.vector = config.model
    /\ query.asked = "auto" /\ query.mode = "hybrid" =>
         /\ query.at \in {"embed", "vectors"} => Linked.table # NoModel
         /\ query.at \notin {"embed", "vectors", "failed"} => searched.in # NoModel
    /\ query.at \in {"new", "embed", "vectors"} => searched.in = NoModel
    /\ searched.in \notin {NoModel, searched.with} => conn.table # conn.to

AnswerInv == Shape /\ Holds /\ Undisturbed /\ AnswerIsHonest

-----------------------------------------------------------------------------
(* Operators                                                               *)

LEMMA RankingsAreSequences == Rankings \subseteq Seq(Chunks)
<1> SUFFICES ASSUME NEW r \in Rankings
             PROVE  r \in Seq(Chunks)
  OBVIOUS
<1>1. PICK n \in 0 .. TopK : r \in [1 .. n -> Chunks]
  BY DEF Rankings
<1> QED BY <1>1, RagAssumption

LEMMA NoRanking == <<>> \in Rankings
<1>1. <<>> \in [1 .. 0 -> Chunks] /\ IsInjective(<<>>)
  BY DEF IsInjective
<1> QED BY <1>1, RagAssumption DEF Rankings

LEMMA SourceOfChunk ==
  ASSUME NEW c \in Chunks
  PROVE  Doc(c) \in Sources
<1> QED BY RagAssumption DEF Doc, Sources, Apps

LEMMA ReorderedSources ==
  ASSUME NEW s \in Seq(Sources)
  PROVE  Reordered(s) \in Seq(Sources)
<1>1. Len(s) \in Nat /\ DOMAIN s = 1 .. Len(s) /\ \A i \in 1 .. Len(s) : s[i] \in Sources
  OBVIOUS
<1>2. ASSUME NEW p \in 1 .. Len(s)
      PROVE  Reordered(s)[p] \in Sources
  <2>1. CASE p <= Len(s) \div 2
    <3>1. 2 * p \in 1 .. Len(s)
      BY <1>1, <2>1
    <3> QED BY <1>1, <2>1, <3>1 DEF Reordered
  <2>2. CASE ~(p <= Len(s) \div 2)
    <3>1. 2 * (Len(s) - p) + 1 \in 1 .. Len(s)
      BY <1>1, <2>2
    <3> QED BY <1>1, <2>2, <3>1 DEF Reordered
  <2> QED BY <2>1, <2>2
<1>3. Reordered(s) = [p \in 1 .. Len(s) |-> Reordered(s)[p]]
  BY <1>1 DEF Reordered
<1>4. Reordered(s) \in [1 .. Len(s) -> Sources]
  BY <1>2, <1>3
<1> QED BY <1>1, <1>4

LEMMA FallbackSources ==
  ASSUME NEW s \in Seq(Chunks)
  PROVE  Fallback(s) \in Seq(Sources)
<1>1. Len(s) \in Nat /\ \A i \in 1 .. Len(s) : s[i] \in Chunks
  OBVIOUS
<1>2. PICK m \in {FallbackDocs, Len(s)} : \A y \in {FallbackDocs, Len(s)} : m <= y
  BY <1>1 DEF FallbackDocs
<1>3. Min({FallbackDocs, Len(s)}) \in 0 .. Len(s)
  BY <1>1, <1>2 DEF Min, FallbackDocs
<1>4. \A i \in 1 .. Min({FallbackDocs, Len(s)}) : Doc(s[i]) \in Sources
  BY <1>1, <1>3, SourceOfChunk
<1>5. PICK k \in 0 .. Len(s) : Fallback(s) \in [1 .. k -> Sources]
  BY <1>3, <1>4 DEF Fallback
<1>6. k \in Nat
  BY <1>1
<1> QED BY <1>5, <1>6

\* Whatever the answer of the model is read as, a program is the one it named.
LEMMA ReadingsAreNamed ==
  ASSUME NEW app \in Readings
  PROVE  app \in Markers \cup {"ERROR"} \/ (Named /\ app = Source(query.raw.n))
<1> QED BY DEF Readings, Markers

-----------------------------------------------------------------------------
(* The steps                                                               *)

LEMMA AnswerInit == Init => AnswerInv
<1> SUFFICES ASSUME Init PROVE AnswerInv
  OBVIOUS
<1>1. Shape
  BY DEF Init, Shape, New, Fields, Sides
<1>2. /\ query.at = "new" /\ query.asked = "auto" /\ query.mode = "auto" /\ query.next = 1
      /\ query.found = <<>> /\ query.picked = <<>> /\ query.shown = <<>>
      /\ query.others = {} /\ searched.byVector = <<>> /\ searched.in = NoModel /\ changes = 0
      /\ config.model \in Models /\ config.json \in BOOLEAN
  BY DEF Init, New
<1>3. Holds
  BY <1>2, NoRanking DEF Holds, At
<1>4. Undisturbed /\ AnswerIsHonest
  BY <1>2 DEF Undisturbed, AnswerIsHonest, At
<1> QED BY <1>1, <1>3, <1>4 DEF AnswerInv

\* The chunks an action has found become the call's.
LEMMA FoundKeeps ==
  ASSUME AnswerInv, NEW r \in Seq(Chunks), query' = Found(r), query.next = 1
  PROVE  /\ query' = [f \in Fields |-> query'[f]]
         /\ query'.at \in {"nothing", "load"} /\ query'.found = r /\ (query'.at = "load" => r # <<>>)
         /\ \A f \in Fields \ {"at", "found"} : query'[f] = query[f]
<1> QED BY DEF AnswerInv, Shape, Found, Fields

\* A connection that was followed is that of the model, and stays.
LEMMA LinkedIs ==
  /\ Linked.to = config.model
  /\ UNCHANGED <<config, tables>> /\ conn' \in {conn, Linked} => Linked' = Linked
<1>1. Linked.to = config.model
  BY DEF Linked
<1>2. ASSUME UNCHANGED <<config, tables>>, conn' \in {conn, Linked}
      PROVE  Linked' = Linked
  BY <1>1, <1>2 DEF Linked
<1> QED BY <1>1, <1>2

LEMMA SearchStep ==
  ASSUME AnswerInv, \A v, t \in Rankings : Fuse(v, t) \in Seq(Chunks),
         \/ \E mode \in {"vector", "fts", "hybrid", "auto"} : Begins(mode)
         \/ Embeds
         \/ \E r \in Rankings, near \in 0 .. TopK : SearchesVectors(r, near)
         \/ \E r \in Rankings : SearchesText(r)
  PROVE  AnswerInv'
<1> USE DEF AnswerInv
<1>1. ASSUME NEW asked \in {"vector", "fts", "hybrid", "auto"}, Begins(asked)
      PROVE  AnswerInv'
  <2> DEFINE mode == IF asked # "auto" THEN asked ELSE IF Linked.table # NoModel THEN "hybrid" ELSE "fts"
  <2>1. /\ At("new") /\ UNCHANGED <<config, stored, tables, changes, searched>> /\ conn' \in {conn, Linked}
        /\ query' = [query EXCEPT !.asked = asked, !.mode = mode,
                                  !.at = IF mode = "fts" THEN "text" ELSE "embed"]
    BY <1>1 DEF Begins
  <2>2. /\ query' = [f \in Fields |-> query'[f]]
        /\ query'.asked = asked /\ query'.mode = mode /\ query'.at = (IF mode = "fts" THEN "text" ELSE "embed")
        /\ \A f \in Fields \ {"asked", "mode", "at"} : query'[f] = query[f]
    BY <2>1 DEF Shape, Fields
  <2> HIDE DEF mode
  <2>3. mode = "hybrid" /\ asked = "auto" => Linked.table # NoModel
    BY DEF mode
  <2>4. Shape' /\ Holds'
    BY <2>1, <2>2 DEF Shape, Holds, At, Fields
  <2>5. Undisturbed' /\ AnswerIsHonest'
    <3>1. Linked' = Linked
      BY <2>1, LinkedIs
    <3> QED BY <2>1, <2>2, <2>3, <3>1 DEF Undisturbed, AnswerIsHonest, At
  <2> QED BY <2>4, <2>5
<1>2. CASE Embeds
  <2>1. /\ At("embed") /\ UNCHANGED <<config, stored, tables, conn, changes, searched>>
        /\ query' = [f \in Fields |-> query'[f]]
        /\ query'.vector = config.model /\ query'.at = "vectors"
        /\ \A f \in Fields \ {"vector", "at"} : query'[f] = query[f]
    BY <1>2 DEF Embeds, Shape, Fields
  <2>2. Shape' /\ Holds'
    BY <2>1 DEF Shape, Holds, At, Fields
  <2>3. Undisturbed' /\ AnswerIsHonest'
    <3>1. Linked' = Linked
      BY <2>1, LinkedIs
    <3> QED BY <2>1, <3>1 DEF Undisturbed, AnswerIsHonest, At, Fields
  <2> QED BY <2>2, <2>3
<1>3. ASSUME NEW r \in Rankings, NEW near \in 0 .. TopK, SearchesVectors(r, near)
      PROVE  AnswerInv'
  <2>1. /\ At("vectors") /\ near \in 0 .. Len(r) /\ UNCHANGED <<config, stored, tables, changes>> /\ conn' = Linked
        /\ searched' = [searched EXCEPT !.byVector = r, !.with = query.vector, !.in = Linked.table]
        /\ query' = IF query.mode = "hybrid" THEN [query EXCEPT !.at = "text"]
                    ELSE Found(SubSeq(r, 1, near))
    BY <1>3 DEF SearchesVectors
  <2>2. r \in Seq(Chunks) /\ SubSeq(r, 1, near) \in Seq(Chunks)
    BY <2>1, RankingsAreSequences
  <2>3. /\ searched' = [f \in Sides |-> searched'[f]]
        /\ searched'.byVector = r /\ searched'.with = query.vector
        /\ searched'.in = Linked.table /\ conn'.to = config.model
    BY <2>1, LinkedIs DEF Shape, Sides
  <2>4. query.next = 1 /\ config.model # NoModel
    BY <2>1, RagAssumption DEF Holds, At
  <2>5. CASE query.mode = "hybrid"
    <3>1. /\ query' = [f \in Fields |-> query'[f]] /\ query'.at = "text"
          /\ \A f \in Fields \ {"at"} : query'[f] = query[f]
      BY <2>1, <2>5 DEF Shape, Fields
    <3>2. Shape' /\ Holds'
      BY <2>1, <2>3, <3>1 DEF Shape, Holds, At, Fields
    <3>3. Undisturbed' /\ AnswerIsHonest'
      BY <2>1, <2>3, <2>4, <3>1 DEF Undisturbed, AnswerIsHonest, At, Fields
    <3> QED BY <3>2, <3>3
  <2>6. CASE query.mode # "hybrid"
    <3>1. /\ query' = [f \in Fields |-> query'[f]]
          /\ query'.at \in {"nothing", "load"} /\ query'.found = SubSeq(r, 1, near)
          /\ (query'.at = "load" => query'.found # <<>>)
          /\ \A f \in Fields \ {"at", "found"} : query'[f] = query[f]
      BY <2>1, <2>2, <2>4, <2>6, FoundKeeps
    <3>2. Shape'
      BY <2>3, <3>1 DEF Shape
    <3>3. query'.at = "load" => 1 \in 1 .. Len(query'.found)
      BY <2>2, <3>1
    <3>4. Holds'
      BY <2>1, <2>2, <2>3, <2>4, <3>1, <3>3 DEF Holds, At, Fields
    <3>5. Undisturbed' /\ AnswerIsHonest'
      BY <2>1, <2>3, <2>4, <2>6, <3>1 DEF Undisturbed, AnswerIsHonest, At, Fields
    <3> QED BY <3>2, <3>4, <3>5
  <2> QED BY <2>5, <2>6
<1>4. ASSUME NEW r \in Rankings, SearchesText(r)
      PROVE  AnswerInv'
  <2> DEFINE found == IF query.mode = "hybrid" THEN Fuse(searched.byVector, r) ELSE r
  <2>1. /\ At("text") /\ UNCHANGED <<config, stored, tables, conn, changes>>
        /\ searched' = [searched EXCEPT !.byText = r] /\ query' = Found(found)
    BY <1>4 DEF SearchesText
  <2>2. found \in Seq(Chunks)
    BY RankingsAreSequences DEF Holds
  <2> HIDE DEF found
  <2>3. /\ searched' = [f \in Sides |-> searched'[f]]
        /\ \A f \in Sides \ {"byText"} : searched'[f] = searched[f]
    BY <2>1 DEF Shape, Sides
  <2>4. query.next = 1
    BY <2>1 DEF Holds, At
  <2>5. /\ query' = [f \in Fields |-> query'[f]]
        /\ query'.at \in {"nothing", "load"} /\ query'.found = found
        /\ (query'.at = "load" => query'.found # <<>>)
        /\ \A f \in Fields \ {"at", "found"} : query'[f] = query[f]
    BY <2>1, <2>2, <2>4, FoundKeeps
  <2>6. Shape'
    BY <2>3, <2>5 DEF Shape
  <2>7. query'.at = "load" => 1 \in 1 .. Len(query'.found)
    BY <2>2, <2>5
  <2>8. Holds'
    BY <2>1, <2>2, <2>3, <2>4, <2>5, <2>7 DEF Holds, At, Fields, Sides
  <2>9. Undisturbed' /\ AnswerIsHonest'
    BY <2>1, <2>3, <2>5 DEF Undisturbed, AnswerIsHonest, At, Fields, Sides
  <2> QED BY <2>6, <2>8, <2>9
<1> QED BY <1>1, <1>2, <1>3, <1>4

LEMMA LoadStep ==
  ASSUME AnswerInv, Load
  PROVE  AnswerInv'
<1> USE DEF AnswerInv
<1> DEFINE c == query.found[query.next]
           docs == IF Fresh(c) /\ Loads(DocOf[c])
                     THEN Append(query.picked, Doc(c)) ELSE query.picked
           q == [query EXCEPT !.next = @ + 1, !.picked = docs,
                              !.seen = IF Fresh(c) THEN @ \cup {DocOf[c]} ELSE @]
           last == IF docs = <<>> THEN Fallback(query.found) ELSE docs
<1>1. /\ At("load") /\ UNCHANGED <<config, stored, tables, conn, changes>>
      /\ searched' = [searched EXCEPT !.byVector = <<>>, !.byText = <<>>]
      /\ \/ query.next < Len(query.found) /\ query' = q
         \/ query' = Shows(q, last)
  BY DEF Load
<1>2. query.next \in 1 .. Len(query.found) /\ c \in Chunks
  BY <1>1 DEF Holds
<1>3. docs \in Seq(Sources)
  BY <1>2, SourceOfChunk DEF Holds
<1>4. last \in Seq(Sources)
  BY <1>3, FallbackSources DEF Holds
<1>5. /\ q = [f \in Fields |-> q[f]] /\ q.next = query.next + 1 /\ q.picked = docs
      /\ \A f \in Fields \ {"next", "picked", "seen"} : q[f] = query[f]
  BY DEF Shape, Fields
<1>6. /\ searched' = [f \in Sides |-> searched'[f]] /\ searched'.byVector = <<>>
      /\ searched'.with = searched.with /\ searched'.in = searched.in
  BY <1>1 DEF Shape, Sides
<1> HIDE DEF docs, q, last
<1>7. CASE query.next < Len(query.found) /\ query' = q
  <2>1. Shape'
    BY <1>5, <1>6, <1>7 DEF Shape
  <2>2. query'.next \in 1 .. Len(query'.found) /\ query'.at = "load"
    <3>1. query'.at = query.at /\ query'.found = query.found /\ query'.next = query.next + 1
      BY <1>5, <1>7 DEF Fields
    <3>2. Len(query.found) \in Nat
      BY DEF Holds
    <3> QED BY <1>1, <1>2, <1>7, <3>1, <3>2 DEF At
  <2>3. Holds'
    BY <1>1, <1>3, <1>5, <1>6, <1>7, <2>2, NoRanking DEF Holds, At, Fields
  <2>4. Undisturbed' /\ AnswerIsHonest'
    BY <1>1, <1>5, <1>6, <1>7 DEF Undisturbed, AnswerIsHonest, At, Fields
  <2> QED BY <2>1, <2>3, <2>4
<1>8. CASE query' = Shows(q, last)
  <2>1. /\ query' = [f \in Fields |-> query'[f]] /\ query'.at = "generate"
        /\ query'.picked = last /\ query'.shown \in {last, Reordered(last)}
        /\ query'.form = (IF config.json THEN "json" ELSE "text")
        /\ query'.mode = query.mode /\ query'.asked = query.asked /\ query'.found = query.found
        /\ query'.others = query.others
    BY <1>5, <1>8 DEF Shows, Fields
  <2>2. query'.shown \in Seq(Sources)
    BY <1>4, <2>1, ReorderedSources
  <2>3. Shape' /\ Holds'
    BY <1>1, <1>4, <1>6, <2>1, <2>2, NoRanking DEF Shape, Holds, At
  <2>4. Undisturbed' /\ AnswerIsHonest'
    BY <1>1, <1>6, <2>1 DEF Undisturbed, AnswerIsHonest, At
  <2> QED BY <2>3, <2>4
<1> QED BY <1>1, <1>7, <1>8

LEMMA AnswerStep ==
  ASSUME AnswerInv, (\E raw \in Raws : Generates(raw)) \/ Reads \/ FindsNothing \/ Throws
  PROVE  AnswerInv'
<1> USE DEF AnswerInv
<1>1. ASSUME NEW raw \in Raws, Generates(raw)
      PROVE  AnswerInv'
  <2>1. /\ At("generate") /\ UNCHANGED <<config, stored, tables, conn, changes, searched>>
        /\ query' = [f \in Fields |-> query'[f]] /\ query'.at = "read"
        /\ \A f \in Fields \ {"raw", "at"} : query'[f] = query[f]
    BY <1>1 DEF Generates, Shape, Fields
  <2>2. Shape' /\ Holds'
    BY <2>1 DEF Shape, Holds, At, Fields
  <2>3. Undisturbed' /\ AnswerIsHonest'
    BY <2>1 DEF Undisturbed, AnswerIsHonest, At, Fields
  <2> QED BY <2>2, <2>3
<1>2. CASE Reads
  <2>1. PICK app \in Readings :
          /\ At("read") /\ UNCHANGED <<config, stored, tables, conn, changes, searched>>
          /\ query' = [query EXCEPT !.app = app, !.at = "done",
                                    !.others = IF app \in Markers THEN {} ELSE ContextApps \ {app}]
    BY <1>2 DEF Reads
  <2>2. /\ query' = [f \in Fields |-> query'[f]] /\ query'.at = "done" /\ query'.app = app
        /\ query'.others = (IF app \in Markers THEN {} ELSE ContextApps \ {app})
        /\ \A f \in Fields \ {"app", "at", "others"} : query'[f] = query[f]
    BY <2>1 DEF Shape, Fields
  <2>3. Shape' /\ Holds'
    BY <2>1, <2>2 DEF Shape, Holds, At, Fields
  <2>4. Undisturbed'
    BY <2>1, <2>2 DEF Undisturbed, At, Fields
  <2>5. /\ query'.shown = query.shown /\ query'.raw = query.raw /\ query'.asked = query.asked
        /\ query'.mode = query.mode /\ Named' = Named /\ ContextApps' = ContextApps
    BY <2>2 DEF Fields, Named, ContextApps
  <2>6. app \in Markers \cup {"ERROR"} \/ (Named /\ app = Source(query.raw.n) /\ app \in Apps)
    <3>1. \A i \in DOMAIN query.shown : query.shown[i] \in Sources
      BY DEF Holds
    <3>2. Named => Source(query.raw.n) \in Apps
      BY <3>1 DEF Named, Source, Sources
    <3> QED BY <3>2, ReadingsAreNamed
  <2>7. app \in Apps => Named /\ query.shown[query.raw.n].app = app
    BY <2>6, RagAssumption DEF Source
  <2>8. Kind' # "match" => app \in Markers
    BY <2>2, <2>6, RagAssumption DEF Kind, Markers
  <2>9. changes = 0 /\ Named => app = query.shown[query.raw.n].app
    BY <2>1 DEF Undisturbed, At, Readings, Source, Holds
  <2>10. AnswerIsHonest'
    <3>1. changes' = 0 => /\ query'.asked = "auto" /\ query'.mode = "hybrid" => searched'.in # NoModel
                          /\ searched'.in \notin {NoModel, searched'.with} => conn'.table # conn'.to
      BY <2>1, <2>5 DEF Undisturbed, At
    <3>2. query'.app \notin query'.others /\ query'.others \subseteq ContextApps
      BY <2>2
    <3> QED BY <2>1, <2>2, <2>5, <2>7, <2>8, <2>9, <3>1, <3>2 DEF AnswerIsHonest
  <2> QED BY <2>3, <2>4, <2>10
<1>3. CASE FindsNothing
  <2>1. /\ At("nothing") /\ UNCHANGED <<config, stored, tables, conn, changes, searched>>
        /\ query' = [f \in Fields |-> query'[f]] /\ query'.at = "done" /\ query'.app = "NOT_FOUND"
        /\ \A f \in Fields \ {"app", "at"} : query'[f] = query[f]
    BY <1>3 DEF FindsNothing, Shape, Fields
  <2>2. Shape' /\ Holds'
    BY <2>1 DEF Shape, Holds, At, Fields
  <2>3. Undisturbed' /\ AnswerIsHonest'
    <3>1. query'.shown = <<>> /\ query'.others = {}
      BY <2>1 DEF Holds, At, Fields
    <3>2. ~Named' /\ query'.app \notin Apps
      BY <2>1, <3>1, RagAssumption DEF Named, Markers
    <3> QED BY <2>1, <3>1, <3>2 DEF Undisturbed, AnswerIsHonest, At, Fields
  <2> QED BY <2>2, <2>3
<1>4. CASE Throws
  <2>1. /\ ~At("done") /\ UNCHANGED <<config, stored, tables, conn, changes, searched>>
        /\ query' = [f \in Fields |-> query'[f]] /\ query'.at = "failed"
        /\ \A f \in Fields \ {"at"} : query'[f] = query[f]
    BY <1>4 DEF Throws, Shape, Fields, At
  <2>2. Shape' /\ Holds'
    BY <2>1 DEF Shape, Holds, At, Fields
  <2>3. Undisturbed' /\ AnswerIsHonest'
    BY <2>1 DEF Undisturbed, AnswerIsHonest, At, Fields
  <2> QED BY <2>2, <2>3
<1> QED BY <1>1, <1>2, <1>3, <1>4

LEMMA OutsideStep ==
  ASSUME AnswerInv, ConfigChanges \/ StoresChange \/ Reconnects
  PROVE  AnswerInv'
<1> USE DEF AnswerInv
<1>1. /\ query.at # "done" /\ changes' # 0 /\ changes' \in Nat /\ UNCHANGED <<query, searched>>
      /\ config'.model \in Models /\ config'.json \in BOOLEAN
  BY DEF ConfigChanges, StoresChange, Reconnects, Pending, Holds
<1>2. Shape' /\ Holds'
  BY <1>1 DEF Shape, Holds, At
<1>3. Undisturbed' /\ AnswerIsHonest'
  BY <1>1 DEF Undisturbed, AnswerIsHonest, At
<1> QED BY <1>2, <1>3

LEMMA AnswerKept ==
  ASSUME FusionPicksChunks
  PROVE  AnswerInv /\ [Next]_vars => AnswerInv'
<1> SUFFICES ASSUME AnswerInv, [Next]_vars
             PROVE  AnswerInv'
  OBVIOUS
<1>1. CASE UNCHANGED vars
  BY <1>1
  DEF vars, AnswerInv, Shape, Holds, Undisturbed, Linked, AnswerIsHonest, At, Named, ContextApps, Kind
<1>2. CASE Next
  <2>1. \A v, t \in Rankings : Fuse(v, t) \in Seq(Chunks)
    BY RankingsAreSequences DEF FusionPicksChunks
  <2> QED BY <1>2, <2>1, SearchStep, LoadStep, AnswerStep, OutsideStep DEF Next
<1> QED BY <1>1, <1>2

-----------------------------------------------------------------------------
\* A program is recommended only as the source the model has named among those
\* it was shown, never beside itself, and in an undisturbed call what the mode
\* says was done with vectors of their own model, unless the open table is one
\* that init kept for a model without a table: whatever is searched, found and
\* answered, and whatever changes between two awaits.
THEOREM HonestAnswers ==
  ASSUME FusionPicksChunks
  PROVE  Spec => []AnswerIsHonest
<1>1. AnswerInv => AnswerIsHonest
  BY DEF AnswerInv
<1> QED BY <1>1, AnswerInit, AnswerKept, PTL DEF Spec

-----------------------------------------------------------------------------
(* Types, and the order of what is found, loaded and shown                 *)

Early == {"new", "embed", "vectors", "text"}
Loaded == {query.picked[i].doc : i \in DOMAIN query.picked}

\* What is picked grows with the documents tried, and stops at the limit.
Picking ==
  /\ query.at \in Early \cup {"nothing"} => query.next = 1 /\ query.picked = <<>>
  /\ At("load") => query.next <= Len(query.found)
  /\ At("load") => Len(query.picked) < MaxDocs /\ Len(query.picked) < query.next

QuestionTypes ==
  /\ TypeOK /\ Picking
  /\ searched.byVector \in Rankings /\ searched.byText \in Rankings

\* Documents apart, and within the limit.
Apart(picked) ==
  \A i, j \in DOMAIN picked :
    i < j /\ Loads(picked[i].doc) => picked[i].doc # picked[j].doc /\ j <= MaxDocs

\* While nothing changes, every document tried is seen, and loaded if it can be.
Loading ==
  changes = 0 =>
    /\ stored = Docs
    /\ query.at \in Early => query.seen = {}
    /\ At("load") =>
         /\ Loaded = {d \in query.seen : Loads(d)} /\ NoDoc \notin query.seen /\ Apart(query.picked)
         /\ \A k \in 1 .. query.next - 1 : DocOf[query.found[k]] \in query.seen \cup {NoDoc}

Ordering ==
  /\ query.mode = "hybrid" /\ query.at \in {"load", "nothing"} /\ query.next = 1 =>
       query.found = Fuse(searched.byVector, searched.byText)
  /\ query.shown \in {<<>>, query.picked, Reordered(query.picked)}

OrderInv == QuestionTypes /\ Loading /\ Ordering /\ LoadedFirst

-----------------------------------------------------------------------------
(* Rankings, and places in the prompt                                      *)

LEMMA RankingIs ==
  ASSUME NEW r \in Rankings
  PROVE  /\ r \in Seq(Chunks) /\ Len(r) \in 0 .. TopK /\ DOMAIN r = 1 .. Len(r)
         /\ r \in [1 .. Len(r) -> Chunks] /\ IsInjective(r)
<1>1. PICK n \in 0 .. TopK : r \in [1 .. n -> Chunks] /\ IsInjective(r)
  BY DEF Rankings
<1>2. n \in Nat
  BY RagAssumption
<1> QED BY <1>1, <1>2, RankingsAreSequences

LEMMA SubRanking ==
  ASSUME NEW r \in Rankings, NEW n \in 0 .. Len(r)
  PROVE  SubSeq(r, 1, n) \in Rankings
<1>1. /\ Len(r) \in 0 .. TopK /\ r \in [1 .. Len(r) -> Chunks] /\ IsInjective(r)
      /\ r \in Seq(Chunks) /\ TopK \in Nat
  BY RankingIs, RagAssumption
<1> DEFINE s == SubSeq(r, 1, n)
<1>2. n \in 0 .. TopK /\ s = [i \in 1 .. n |-> r[i]]
  BY <1>1
<1> HIDE DEF s
<1>3. s \in [1 .. n -> Chunks]
  BY <1>1, <1>2
<1>4. IsInjective(s)
  <2>1. \A i, j \in 1 .. n : i \in 1 .. Len(r) /\ j \in 1 .. Len(r)
    BY <1>1
  <2>2. DOMAIN s = 1 .. n /\ \A i \in 1 .. n : s[i] = r[i]
    BY <1>2
  <2> QED BY <1>1, <2>1, <2>2 DEF IsInjective
<1>5. s \in {f \in [1 .. n -> Chunks] : IsInjective(f)}
  BY <1>3, <1>4
<1>6. s \in Rankings
  BY <1>2, <1>5 DEF Rankings
<1> QED BY <1>6 DEF s

LEMMA MinPair ==
  ASSUME NEW a \in Int, NEW b \in Int
  PROVE  Min({a, b}) = IF a <= b THEN a ELSE b
<1> DEFINE m == IF a <= b THEN a ELSE b
<1>1. m \in {a, b} /\ \A y \in {a, b} : m <= y
  OBVIOUS
<1>2. \A x \in {a, b} : (\A y \in {a, b} : x <= y) => x = m
  OBVIOUS
<1> QED BY <1>1, <1>2 DEF Min

LEMMA Halves ==
  ASSUME NEW k \in Nat
  PROVE  /\ (2 * k) % 2 = 0 /\ (2 * k) \div 2 = k
         /\ (2 * k + 1) % 2 = 1 /\ (2 * k + 1) \div 2 = k
<1> QED OBVIOUS

LEMMA Limit == Max({MaxDocs, FallbackDocs}) = 5
<1>1. MaxDocs \in 1 .. 5 /\ FallbackDocs = 5
  BY RagAssumption DEF FallbackDocs
<1>2. 5 \in {MaxDocs, FallbackDocs} /\ \A y \in {MaxDocs, FallbackDocs} : 5 >= y
  BY <1>1
<1>3. \A x \in {MaxDocs, FallbackDocs} : (\A y \in {MaxDocs, FallbackDocs} : x >= y) => x = 5
  BY <1>1
<1> QED BY <1>2, <1>3 DEF Max

LEMMA ReorderedIs ==
  ASSUME NEW s \in Seq(Sources)
  PROVE  /\ Len(Reordered(s)) = Len(s) /\ DOMAIN Reordered(s) = 1 .. Len(s)
         /\ Len(s) \in Nat /\ DOMAIN s = 1 .. Len(s)
<1>1. Len(s) \in Nat /\ DOMAIN s = 1 .. Len(s)
  OBVIOUS
<1>2. DOMAIN Reordered(s) = 1 .. Len(s)
  BY <1>1 DEF Reordered
<1> QED BY <1>1, <1>2, ReorderedSources

\* Of two documents in a reordered prompt the better one is no farther from
\* the ends.
LEMMA EdgesFirst ==
  ASSUME NEW s \in Seq(Sources), IsInjective(s), query.shown = Reordered(s)
  PROVE  \A i, j \in DOMAIN s : i < j => Edge(PlaceOf(s[i])) <= Edge(PlaceOf(s[j]))
<1> DEFINE L == Len(s)
           place(i) == IF i % 2 = 0 THEN i \div 2 ELSE L - (i \div 2)
           source(p) == IF p <= L \div 2 THEN 2 * p ELSE 2 * (L - p) + 1
<1>1. /\ L \in Nat /\ DOMAIN s = 1 .. L /\ DOMAIN query.shown = 1 .. L /\ Len(query.shown) = L
  BY ReorderedIs
<1>2. \A p \in 1 .. L : query.shown[p] = s[source(p)] /\ source(p) \in 1 .. L
  BY <1>1 DEF Reordered
<1>3. ASSUME NEW i \in 1 .. L
      PROVE  place(i) \in 1 .. L /\ source(place(i)) = i
  <2>1. CASE i % 2 = 0
    <3>1. PICK k \in Int : i = 2 * k
      BY <1>1, <2>1
    <3>2. place(i) = k /\ k <= L \div 2 /\ k >= 1 /\ k <= L
      BY <1>1, <2>1, <3>1
    <3>3. source(k) = i
      BY <3>1, <3>2
    <3> HIDE DEF place, source
    <3> QED BY <1>1, <3>1, <3>2, <3>3
  <2>2. CASE i % 2 # 0
    <3>1. PICK k \in Int : i = 2 * k + 1
      BY <1>1, <2>2
    <3>2. place(i) = L - k /\ k >= 0 /\ k < L /\ ~(L - k <= L \div 2)
      BY <1>1, <2>2, <3>1
    <3>3. source(L - k) = i
      <4>1. source(L - k) = 2 * (L - (L - k)) + 1
        BY <3>2
      <4> QED BY <1>1, <3>1, <4>1
    <3> HIDE DEF place, source
    <3> QED BY <1>1, <3>1, <3>2, <3>3
  <2> QED BY <2>1, <2>2
<1>4. ASSUME NEW p \in 1 .. L
      PROVE  p = place(source(p))
  <2>1. CASE p <= L \div 2
    <3>1. source(p) = 2 * p /\ p \in Nat
      BY <1>1, <2>1
    <3> HIDE DEF source
    <3>2. source(p) % 2 = 0 /\ source(p) \div 2 = p
      BY <3>1, Halves
    <3> QED BY <3>2
  <2>2. CASE ~(p <= L \div 2)
    <3>1. source(p) = 2 * (L - p) + 1 /\ L - p \in Nat
      BY <1>1, <2>2
    <3>2. source(p) % 2 = 1 /\ source(p) \div 2 = L - p
      <4> HIDE DEF source
      <4> QED BY <3>1, Halves
    <3> HIDE DEF source
    <3> QED BY <1>1, <3>2
  <2> QED BY <2>1, <2>2
<1>5. ASSUME NEW i \in 1 .. L
      PROVE  PlaceOf(s[i]) = place(i)
  <2> HIDE DEF place, source
  <2>1. query.shown[place(i)] = s[i] /\ place(i) \in 1 .. L
    BY <1>2, <1>3
  <2>2. \A p \in 1 .. L : query.shown[p] = s[i] => p = place(i)
    BY <1>1, <1>2, <1>4 DEF IsInjective
  <2> QED BY <1>1, <2>1, <2>2 DEF PlaceOf
<1>6. ASSUME NEW i \in 1 .. L
      PROVE  Edge(place(i)) = (i - 1) \div 2
  <2>1. place(i) - 1 \in Int /\ L - place(i) \in Int
    BY <1>1, <1>3
  <2>2. Edge(place(i)) = IF place(i) - 1 <= L - place(i) THEN place(i) - 1 ELSE L - place(i)
    BY <1>1, <2>1, MinPair DEF Edge
  <2> QED BY <1>1, <2>2
<1>7. \A i, j \in 1 .. L : i < j => (i - 1) \div 2 <= (j - 1) \div 2
  BY <1>1
<1> HIDE DEF place
<1> QED BY <1>1, <1>5, <1>6, <1>7

-----------------------------------------------------------------------------
(* The steps                                                               *)

LEMMA OrderInit == Init => OrderInv
<1> SUFFICES ASSUME Init PROVE OrderInv
  OBVIOUS
<1>1. /\ query.at = "new" /\ query.mode = "auto" /\ query.next = 1 /\ query.vector = NoModel
      /\ query.found = <<>> /\ query.picked = <<>> /\ query.shown = <<>> /\ query.seen = {}
      /\ query.form = "none" /\ query.raw = New.raw /\ query.app = "none" /\ query.others = {}
      /\ searched.byVector = <<>> /\ searched.byText = <<>>
      /\ conn \in [to : Models, table : Models \cup {NoModel}]
      /\ stored = Docs /\ tables \subseteq Models /\ changes = 0 /\ MaxChanges \in Nat
      /\ config \in [model : Models, json : BOOLEAN, reorder : BOOLEAN]
  BY RagAssumption DEF Init, New
<1>2. TypeOK
  BY <1>1, NoRanking DEF TypeOK, At
<1> QED
  BY <1>1, <1>2, NoRanking
  DEF OrderInv, QuestionTypes, Picking, Early, Loading, Ordering, LoadedFirst, At

\* An action that leaves alone what was found, loaded and shown.
LEMMA Aside ==
  ASSUME OrderInv,
         UNCHANGED <<stored, changes, searched>>,
         UNCHANGED <<query.found, query.next, query.seen, query.picked, query.shown>>,
         TypeOK', Picking', query'.at \in Early => query.at \in Early,
         query'.at \in {"load", "nothing"} => query'.at = query.at /\ query'.mode = query.mode
  PROVE  OrderInv'
<1>1. QuestionTypes'
  BY DEF OrderInv, QuestionTypes
<1>2. Loading'
  BY DEF OrderInv, Loading, Loaded, Loads, Apart, At
<1>3. Ordering' /\ LoadedFirst'
  BY DEF OrderInv, Ordering, LoadedFirst, Loads, At
<1> QED BY <1>1, <1>2, <1>3 DEF OrderInv

LEMMA LinkedTypes == TypeOK => Linked \in [to : Models, table : Models \cup {NoModel}]
<1> QED BY DEF TypeOK, Linked

\* The chunks an action has found are to be loaded, the first of them first.
LEMMA FoundOrder ==
  ASSUME AnswerInv, OrderInv, query.at \in {"vectors", "text"}, NEW r \in Rankings, query' = Found(r),
         UNCHANGED <<config, stored, tables, changes>>, conn' \in {conn, Linked},
         searched'.byVector \in Rankings, searched'.byText \in Rankings,
         query.mode = "hybrid" => r = Fuse(searched'.byVector, searched'.byText)
  PROVE  OrderInv'
<1> USE DEF OrderInv
<1>1. r \in Seq(Chunks) /\ Len(r) \in Nat /\ (r # <<>> => Len(r) >= 1)
  BY RankingIs
<1>2. query.next = 1 /\ query.picked = <<>> /\ query.shown = <<>> /\ (changes = 0 => query.seen = {})
  BY DEF QuestionTypes, Picking, Early, Loading, AnswerInv, Holds
<1>3. /\ query'.at = (IF r = <<>> THEN "nothing" ELSE "load") /\ query'.found = r
      /\ \A f \in Fields \ {"at", "found"} : query'[f] = query[f]
  BY DEF AnswerInv, Shape, Found, Fields
<1>4. /\ query'.mode = query.mode /\ query'.vector = query.vector /\ query'.next = 1
      /\ query'.picked = <<>> /\ query'.shown = <<>> /\ query'.form = query.form /\ query'.seen = query.seen
      /\ query'.raw = query.raw /\ query'.app = query.app /\ query'.others = query.others
  BY <1>2, <1>3 DEF Fields
<1>5. TypeOK'
  BY <1>1, <1>3, <1>4, Limit, LinkedTypes DEF QuestionTypes, TypeOK, At
<1>6. Picking'
  BY <1>1, <1>3, <1>4, RagAssumption DEF Picking, Early, At
<1>7. Loading'
  <2>1. Loaded' = {} /\ Apart(<<>>)
    BY <1>4 DEF Loaded, Apart
  <2> QED BY <1>2, <1>3, <1>4, <2>1 DEF Loading, Early, At, Apart
<1>8. Ordering' /\ LoadedFirst'
  BY <1>3, <1>4 DEF Ordering, LoadedFirst
<1> QED BY <1>5, <1>6, <1>7, <1>8 DEF QuestionTypes

LEMMA SearchOrder ==
  ASSUME AnswerInv, OrderInv, FusionPicksChunks,
         \/ \E mode \in {"vector", "fts", "hybrid", "auto"} : Begins(mode)
         \/ Embeds
         \/ \E r \in Rankings, near \in 0 .. TopK : SearchesVectors(r, near)
         \/ \E r \in Rankings : SearchesText(r)
  PROVE  OrderInv'
<1> /\ Shape /\ Holds /\ QuestionTypes /\ TypeOK /\ Picking /\ Loading
  BY DEF AnswerInv, OrderInv, QuestionTypes
<1>1. ASSUME NEW asked \in {"vector", "fts", "hybrid", "auto"}, Begins(asked)
      PROVE  OrderInv'
  <2>1. PICK mode \in {"vector", "fts", "hybrid"} :
          /\ At("new") /\ UNCHANGED <<config, stored, tables, changes, searched>> /\ conn' \in {conn, Linked}
          /\ query' = [query EXCEPT !.asked = asked, !.mode = mode,
                                    !.at = IF mode = "fts" THEN "text" ELSE "embed"]
    BY <1>1 DEF Begins
  <2>2. /\ query'.mode = mode /\ query'.at \in {"text", "embed"}
        /\ \A f \in Fields \ {"asked", "mode", "at"} : query'[f] = query[f]
    BY <2>1 DEF Shape, Fields
  <2>3. TypeOK' /\ Picking'
    BY <2>1, <2>2, LinkedTypes DEF TypeOK, Picking, Early, At, Fields
  <2> QED BY <2>1, <2>2, <2>3, Aside DEF Fields, Early, At
<1>2. CASE Embeds
  <2>1. /\ At("embed") /\ UNCHANGED <<config, stored, tables, conn, changes, searched>>
        /\ query'.vector = config.model /\ query'.at = "vectors"
        /\ \A f \in Fields \ {"vector", "at"} : query'[f] = query[f]
    BY <1>2 DEF Embeds, Shape, Fields
  <2>2. TypeOK' /\ Picking'
    BY <2>1 DEF TypeOK, Picking, Early, At, Fields, Holds
  <2> QED BY <2>1, <2>2, Aside DEF Fields, Early, At
<1>3. ASSUME NEW r \in Rankings, NEW near \in 0 .. TopK, SearchesVectors(r, near)
      PROVE  OrderInv'
  <2>1. /\ At("vectors") /\ near \in 0 .. Len(r) /\ UNCHANGED <<config, stored, tables, changes>> /\ conn' = Linked
        /\ searched' = [searched EXCEPT !.byVector = r, !.with = query.vector, !.in = Linked.table]
        /\ query' = IF query.mode = "hybrid" THEN [query EXCEPT !.at = "text"]
                    ELSE Found(SubSeq(r, 1, near))
    BY <1>3 DEF SearchesVectors
  <2>2. searched'.byVector \in Rankings /\ searched'.byText \in Rankings
    BY <2>1 DEF Shape, Sides, QuestionTypes
  <2>3. CASE query.mode = "hybrid"
    <3>1. /\ query'.at = "text" /\ \A f \in Fields \ {"at"} : query'[f] = query[f]
      BY <2>1, <2>3 DEF Shape, Fields
    <3>2. TypeOK' /\ Picking'
      BY <2>1, <3>1, LinkedTypes DEF TypeOK, Picking, Early, At, Fields
    <3>3. QuestionTypes' /\ Loading' /\ Ordering' /\ LoadedFirst'
      <4>1. QuestionTypes'
        BY <2>2, <3>2 DEF QuestionTypes
      <4>2. Loading'
        BY <2>1, <3>1 DEF Loading, Early, At, Fields
      <4>3. query'.shown = <<>>
        BY <2>1, <3>1 DEF Holds, At, Fields
      <4> QED BY <3>1, <4>1, <4>2, <4>3 DEF Ordering, LoadedFirst
    <3> QED BY <3>3 DEF OrderInv
  <2>4. CASE query.mode # "hybrid"
    <3>1. SubSeq(r, 1, near) \in Rankings
      BY <2>1, SubRanking
    <3> QED BY <2>1, <2>2, <2>4, <3>1, FoundOrder DEF At
  <2> QED BY <2>3, <2>4
<1>4. ASSUME NEW r \in Rankings, SearchesText(r)
      PROVE  OrderInv'
  <2> DEFINE found == IF query.mode = "hybrid" THEN Fuse(searched.byVector, r) ELSE r
  <2>1. /\ At("text") /\ UNCHANGED <<config, stored, tables, conn, changes>>
        /\ searched' = [searched EXCEPT !.byText = r] /\ query' = Found(found)
    BY <1>4 DEF SearchesText
  <2>2. searched'.byVector = searched.byVector /\ searched'.byText = r
    BY <2>1 DEF Shape, Sides
  <2>3. found \in Rankings
    BY DEF QuestionTypes, FusionPicksChunks
  <2>4. query.mode = "hybrid" => found = Fuse(searched'.byVector, searched'.byText)
    BY <2>2
  <2> HIDE DEF found
  <2> QED BY <2>1, <2>2, <2>3, <2>4, FoundOrder DEF At, QuestionTypes
<1> QED BY <1>1, <1>2, <1>3, <1>4


LEMMA FallbackIs ==
  ASSUME NEW s \in Seq(Chunks)
  PROVE  /\ Len(Fallback(s)) \in 0 .. 5 /\ DOMAIN Fallback(s) = 1 .. Len(Fallback(s))
         /\ \A i \in DOMAIN Fallback(s) : i \in DOMAIN s /\ Fallback(s)[i].doc = DocOf[s[i]]
<1>1. Len(s) \in Nat /\ DOMAIN s = 1 .. Len(s) /\ FallbackDocs = 5
  BY DEF FallbackDocs
<1>2. Min({FallbackDocs, Len(s)}) = IF FallbackDocs <= Len(s) THEN FallbackDocs ELSE Len(s)
  BY <1>1, MinPair
<1>3. PICK n \in 0 .. 5 : n = Min({FallbackDocs, Len(s)}) /\ n <= Len(s)
  BY <1>1, <1>2
<1>4. Fallback(s) = [i \in 1 .. n |-> Doc(s[i])]
  BY <1>3 DEF Fallback
<1>5. Len(Fallback(s)) = n /\ DOMAIN Fallback(s) = 1 .. n
  BY <1>4
<1>6. \A i \in 1 .. n : i \in DOMAIN s /\ Fallback(s)[i].doc = DocOf[s[i]]
  BY <1>1, <1>3, <1>4 DEF Doc
<1> QED BY <1>3, <1>5, <1>6

LEMMA LoadOrder ==
  ASSUME AnswerInv, OrderInv, Load
  PROVE  OrderInv'
<1> /\ Shape /\ Holds /\ QuestionTypes /\ TypeOK /\ Picking /\ Loading
  BY DEF AnswerInv, OrderInv, QuestionTypes
<1> DEFINE c == query.found[query.next]
           docs == IF Fresh(c) /\ Loads(DocOf[c])
                     THEN Append(query.picked, Doc(c)) ELSE query.picked
           q == [query EXCEPT !.next = @ + 1, !.picked = docs,
                              !.seen = IF Fresh(c) THEN @ \cup {DocOf[c]} ELSE @]
           last == IF docs = <<>> THEN Fallback(query.found) ELSE docs
           seen == IF Fresh(c) THEN query.seen \cup {DocOf[c]} ELSE query.seen
<1>1. /\ At("load") /\ UNCHANGED <<config, stored, tables, conn, changes>>
      /\ searched' = [searched EXCEPT !.byVector = <<>>, !.byText = <<>>]
      /\ \/ ~Enough(docs) /\ query.next < Len(query.found) /\ query' = q
         \/ (Enough(docs) \/ query.next >= Len(query.found)) /\ query' = Shows(q, last)
  <2>1. query.next \in 1 .. Len(query.found)
    BY DEF Load, Holds
  <2> QED BY <2>1 DEF Load, Holds
<1>2. /\ query.next \in 1 .. Len(query.found) /\ Len(query.found) \in Nat /\ c \in Chunks
      /\ query.found \in Seq(Chunks) /\ query.found \in Rankings
      /\ DocOf[c] \in Docs \cup {Intents, NoDoc}
  BY <1>1, RagAssumption DEF Holds, TypeOK
<1>3. /\ Len(query.picked) \in Nat /\ DOMAIN query.picked = 1 .. Len(query.picked)
      /\ Len(query.picked) < MaxDocs /\ Len(query.picked) < query.next /\ MaxDocs \in 1 .. 5
  BY <1>1, RagAssumption DEF Holds, Picking
<1>4. /\ docs \in Seq(Sources) /\ Len(docs) \in 0 .. MaxDocs /\ Len(docs) <= query.next
      /\ DOMAIN docs = 1 .. Len(docs)
  BY <1>2, <1>3, SourceOfChunk DEF Holds
<1>5. changes = 0 =>
        /\ NoDoc \notin seen /\ {docs[i].doc : i \in DOMAIN docs} = {d \in seen : Loads(d)} /\ Apart(docs)
        /\ \A k \in 1 .. query.next : DocOf[query.found[k]] \in seen \cup {NoDoc}
  <2> SUFFICES ASSUME changes = 0
               PROVE  /\ NoDoc \notin seen /\ {docs[i].doc : i \in DOMAIN docs} = {d \in seen : Loads(d)}
                      /\ Apart(docs)
                      /\ \A k \in 1 .. query.next : DocOf[query.found[k]] \in seen \cup {NoDoc}
    OBVIOUS
  <2>1. /\ Loaded = {d \in query.seen : Loads(d)} /\ NoDoc \notin query.seen /\ Apart(query.picked)
        /\ \A k \in 1 .. query.next - 1 : DocOf[query.found[k]] \in query.seen \cup {NoDoc}
    BY <1>1 DEF Loading
  <2>2. DocOf[c] \in seen \cup {NoDoc}
    BY DEF Fresh
  <2>3. query.seen \subseteq seen /\ seen \subseteq query.seen \cup {DocOf[c]} /\ NoDoc \notin seen
    BY <2>1 DEF Fresh
  <2>4. CASE Fresh(c) /\ Loads(DocOf[c])
    <3>1. /\ docs = Append(query.picked, Doc(c)) /\ Len(docs) = Len(query.picked) + 1
          /\ DOMAIN docs = 1 .. Len(query.picked) + 1
          /\ docs[Len(query.picked) + 1].doc = DocOf[c]
          /\ \A i \in DOMAIN query.picked : docs[i] = query.picked[i]
      BY <1>3, <2>4 DEF Holds, Doc
    <3>2. seen = query.seen \cup {DocOf[c]} /\ DocOf[c] \notin query.seen
      BY <2>4 DEF Fresh
    <3> HIDE DEF docs, seen
    <3>3. {docs[i].doc : i \in DOMAIN docs} = Loaded \cup {DocOf[c]}
      BY <1>3, <3>1 DEF Loaded
    <3>4. {docs[i].doc : i \in DOMAIN docs} = {d \in seen : Loads(d)}
      BY <2>1, <2>4, <3>2, <3>3
    <3>5. Apart(docs)
      <4>1. \A i \in DOMAIN query.picked : query.picked[i].doc # DocOf[c]
        BY <2>1, <3>2 DEF Loaded
      <4> QED BY <1>3, <2>1, <3>1, <4>1 DEF Apart
    <3> QED BY <1>2, <2>1, <2>2, <2>3, <3>4, <3>5
  <2>5. CASE ~(Fresh(c) /\ Loads(DocOf[c]))
    <3>1. docs = query.picked
      BY <2>5
    <3>2. {d \in seen : Loads(d)} = {d \in query.seen : Loads(d)}
      <4>1. CASE Fresh(c)
        BY <2>3, <2>5, <4>1
      <4>2. CASE ~Fresh(c)
        BY <4>2
      <4> QED BY <4>1, <4>2
    <3> HIDE DEF docs, seen
    <3> QED BY <1>2, <2>1, <2>2, <2>3, <3>1, <3>2 DEF Loaded
  <2> QED BY <2>4, <2>5
<1>6. /\ q.next = query.next + 1 /\ q.picked = docs /\ q.seen = seen
      /\ \A f \in Fields \ {"next", "picked", "seen"} : q[f] = query[f]
      /\ q = [f \in Fields |-> q[f]]
  BY DEF Shape, Fields
<1>7. /\ searched'.byVector = <<>> /\ searched'.byText = <<>>
  BY <1>1 DEF Shape, Sides
<1>8. /\ last \in Seq(Sources) /\ Len(last) \in 0 .. 5 /\ DOMAIN last = 1 .. Len(last)
      /\ docs # <<>> => last = docs
      /\ docs = <<>> => last = Fallback(query.found)
  <2>1. /\ docs # <<>> => last = docs
        /\ docs = <<>> => last = Fallback(query.found)
    OBVIOUS
  <2> HIDE DEF docs, last
  <2>2. CASE docs # <<>>
    BY <1>3, <1>4, <2>1, <2>2
  <2>3. CASE docs = <<>>
    <3>1. /\ Fallback(query.found) \in Seq(Sources) /\ Len(Fallback(query.found)) \in 0 .. 5
          /\ DOMAIN Fallback(query.found) = 1 .. Len(Fallback(query.found))
      BY <1>2, FallbackSources, FallbackIs
    <3> QED BY <2>1, <2>3, <3>1
  <2> QED BY <2>1, <2>2, <2>3
<1> HIDE DEF docs, q, last, seen
<1>9. CASE ~Enough(docs) /\ query.next < Len(query.found) /\ query' = q
  <2>1. /\ query'.at = "load" /\ query'.found = query.found /\ query'.next = query.next + 1
        /\ query'.picked = docs /\ query'.seen = seen /\ query'.shown = <<>>
        /\ query'.mode = query.mode /\ query'.vector = query.vector /\ query'.form = query.form
        /\ query'.raw = query.raw /\ query'.app = query.app /\ query'.others = query.others
    BY <1>1, <1>6, <1>9 DEF Fields, At, Holds
  <2>2. TypeOK'
    BY <1>1, <1>2, <1>3, <1>4, <2>1, Limit DEF TypeOK, At
  <2>3. Picking'
    BY <1>2, <1>3, <1>4, <1>9, <2>1 DEF Picking, Early, At, Enough
  <2>4. QuestionTypes'
    BY <1>7, <2>2, <2>3, NoRanking DEF QuestionTypes
  <2>5. Loading'
    <3>1. Loaded' = {docs[i].doc : i \in DOMAIN docs}
      BY <2>1 DEF Loaded
    <3>2. Apart(docs) => Apart(query.picked)'
      BY <1>1, <2>1 DEF Apart, Loads
    <3>3. changes' = 0 =>
            \A k \in 1 .. query'.next - 1 : DocOf[query'.found[k]] \in query'.seen \cup {NoDoc}
      BY <1>1, <1>2, <1>5, <2>1
    <3>4. {d \in query.seen : Loads(d)}' = {d \in seen : Loads(d)}
      BY <1>1, <2>1 DEF Loads
    <3> QED BY <1>1, <1>5, <2>1, <3>1, <3>2, <3>3, <3>4 DEF Loading, Early, At
  <2>6. Ordering' /\ LoadedFirst'
    BY <1>2, <2>1 DEF Ordering, LoadedFirst
  <2> QED BY <2>4, <2>5, <2>6 DEF OrderInv
<1>10. CASE (Enough(docs) \/ query.next >= Len(query.found)) /\ query' = Shows(q, last)
  <2>1. /\ query'.at = "generate" /\ query'.found = query.found /\ query'.next = query.next + 1
        /\ query'.picked = last /\ query'.shown \in {last, Reordered(last)}
        /\ query'.form \in {"json", "text"}
        /\ query'.mode = query.mode /\ query'.vector = query.vector
        /\ query'.raw = query.raw /\ query'.app = query.app /\ query'.others = query.others
    BY <1>6, <1>10 DEF Shows, Fields
  <2>2. Len(query'.shown) = Len(last)
    BY <1>8, <2>1, ReorderedIs
  <2>3. TypeOK'
    <3>1. query'.next \in 1 .. Len(query'.found) + 1 /\ query'.next # 1
      BY <1>2, <2>1
    <3>2. /\ Len(query'.picked) <= (IF query'.next = 1 THEN 0 ELSE Max({MaxDocs, FallbackDocs}))
          /\ Len(query'.shown) \in {0, Len(query'.picked)}
      <4>1. Len(query'.picked) = Len(last) /\ Len(last) <= 5
        BY <1>8, <2>1
      <4> QED BY <2>2, <3>1, <4>1, Limit
    <3>3. query.mode # "auto"
      BY <1>1 DEF TypeOK, At
    <3> QED BY <1>1, <1>2, <2>1, <3>1, <3>2, <3>3 DEF TypeOK, At
  <2>4. QuestionTypes'
    BY <1>7, <2>1, <2>3, NoRanking DEF QuestionTypes, Picking, Early, At
  <2>5. Loading' /\ Ordering'
    BY <1>1, <1>2, <2>1 DEF Loading, Ordering, Early, At
  <2>6. LoadedFirst'
    <3> SUFFICES ASSUME changes = 0
                 PROVE  /\ \A b \in Range(query.found) :
                             Loads(DocOf[b]) /\ Len(last) < MaxDocs => DocOf[b] \in {d.doc : d \in Range(last)}
                        /\ Apart(last)
      BY <1>1, <2>1 DEF LoadedFirst, Apart, Loads
    <3>1. DOMAIN query.found = 1 .. Len(query.found)
      BY <1>2
    <3>2. CASE docs # <<>>
      <4>1. last = docs /\ Apart(last)
        BY <1>5, <1>8, <3>2
      <4>2. ASSUME NEW b \in Range(query.found), Loads(DocOf[b]), Len(last) < MaxDocs
            PROVE  DocOf[b] \in {d.doc : d \in Range(last)}
        <5>1. query.next = Len(query.found)
          BY <1>2, <1>3, <1>4, <1>10, <4>1, <4>2 DEF Enough
        <5>2. PICK k \in 1 .. Len(query.found) : b = query.found[k]
          BY <3>1 DEF Range
        <5>3. DocOf[b] \in {docs[i].doc : i \in DOMAIN docs}
          <6>1. DocOf[b] # NoDoc
            BY <1>1, <4>2, RagAssumption DEF Loading, Loads
          <6> QED BY <1>5, <4>2, <5>1, <5>2, <6>1
        <5> QED BY <4>1, <5>3 DEF Range
      <4> QED BY <4>1, <4>2
    <3>3. CASE docs = <<>>
      <4>1. ~Enough(docs) /\ query.next = Len(query.found) /\ last = Fallback(query.found)
        BY <1>2, <1>3, <1>4, <1>8, <1>10, <3>3 DEF Enough
      <4>2. \A d \in seen \cup {NoDoc} : ~Loads(d)
        <5>1. {d \in seen : Loads(d)} = {}
          BY <1>5, <3>3
        <5>2. ~Loads(NoDoc)
          BY <1>1, RagAssumption DEF Loading, Loads
        <5> QED BY <5>1, <5>2
      <4>3. \A k \in DOMAIN query.found : ~Loads(DocOf[query.found[k]])
        BY <1>5, <3>1, <4>1, <4>2
      <4>4. \A i \in DOMAIN last : ~Loads(last[i].doc)
        BY <1>2, <4>1, <4>3, FallbackIs
      <4> QED BY <4>3, <4>4 DEF Apart, Range
    <3> QED BY <3>2, <3>3
  <2> QED BY <2>4, <2>5, <2>6 DEF OrderInv
<1> QED BY <1>1, <1>9, <1>10

LEMMA AnswerOrder ==
  ASSUME AnswerInv, OrderInv, (\E raw \in Raws : Generates(raw)) \/ Reads \/ FindsNothing \/ Throws
  PROVE  OrderInv'
<1> /\ Shape /\ Holds /\ QuestionTypes /\ TypeOK /\ Picking
  BY DEF AnswerInv, OrderInv, QuestionTypes
<1>1. ASSUME NEW raw \in Raws, Generates(raw)
      PROVE  OrderInv'
  <2>1. /\ At("generate") /\ UNCHANGED <<config, stored, tables, conn, changes, searched>>
        /\ query'.at = "read" /\ query'.raw = raw
        /\ \A f \in Fields \ {"raw", "at"} : query'[f] = query[f]
    BY <1>1 DEF Generates, Shape, Fields
  <2>2. TypeOK' /\ Picking'
    BY <2>1 DEF TypeOK, Picking, Early, At, Fields
  <2> QED BY <2>1, <2>2, Aside DEF Fields, Early
<1>2. CASE Reads
  <2>1. PICK app \in Readings :
          /\ At("read") /\ UNCHANGED <<config, stored, tables, conn, changes, searched>>
          /\ query' = [query EXCEPT !.app = app, !.at = "done",
                                    !.others = IF app \in Markers THEN {} ELSE ContextApps \ {app}]
    BY <1>2 DEF Reads
  <2>2. /\ query'.at = "done" /\ query'.app = app
        /\ query'.others = (IF app \in Markers THEN {} ELSE ContextApps \ {app})
        /\ \A f \in Fields \ {"app", "at", "others"} : query'[f] = query[f]
    BY <2>1 DEF Shape, Fields
  <2>3. \A i \in DOMAIN query.shown : query.shown[i] \in Sources
    BY DEF Holds
  <2>4. app \in Markers \cup {"ERROR"} \cup Apps
    BY <2>3, ReadingsAreNamed DEF Named, Source, Sources
  <2>5. ContextApps \subseteq Apps
    BY <2>3 DEF ContextApps, Sources
  <2>6. TypeOK' /\ Picking'
    BY <2>1, <2>2, <2>4, <2>5 DEF TypeOK, Picking, Early, At, Fields
  <2> QED BY <2>1, <2>2, <2>6, Aside DEF Fields, Early
<1>3. CASE FindsNothing
  <2>1. /\ At("nothing") /\ UNCHANGED <<config, stored, tables, conn, changes, searched>>
        /\ query'.at = "done" /\ query'.app = "NOT_FOUND"
        /\ \A f \in Fields \ {"app", "at"} : query'[f] = query[f]
    BY <1>3 DEF FindsNothing, Shape, Fields
  <2>2. TypeOK' /\ Picking'
    BY <2>1 DEF TypeOK, Picking, Early, At, Fields, Markers
  <2> QED BY <2>1, <2>2, Aside DEF Fields, Early
<1>4. CASE Throws
  <2>1. /\ ~At("new") /\ UNCHANGED <<config, stored, tables, conn, changes, searched>>
        /\ query'.at = "failed"
        /\ \A f \in Fields \ {"at"} : query'[f] = query[f]
    BY <1>4 DEF Throws, Shape, Fields, At
  <2>2. TypeOK' /\ Picking'
    BY <2>1 DEF TypeOK, Picking, Early, At, Fields
  <2> QED BY <2>1, <2>2, Aside DEF Fields, Early
<1> QED BY <1>1, <1>2, <1>3, <1>4

LEMMA OutsideOrder ==
  ASSUME AnswerInv, OrderInv, ConfigChanges \/ StoresChange \/ Reconnects
  PROVE  OrderInv'
<1> /\ QuestionTypes /\ TypeOK /\ Picking
  BY DEF OrderInv, QuestionTypes
<1>1. /\ changes' # 0 /\ changes' \in 0 .. MaxChanges /\ UNCHANGED <<query, searched>>
      /\ config' \in [model : Models, json : BOOLEAN, reorder : BOOLEAN]
  BY RagAssumption DEF ConfigChanges, StoresChange, Reconnects, Pending, TypeOK
<1>2. stored' \subseteq Docs /\ tables' \subseteq Models
  <2>1. \A m \in Models : SymDiff(tables, {m}) \subseteq Models
    BY DEF SymDiff, TypeOK
  <2> QED BY <2>1 DEF ConfigChanges, StoresChange, Reconnects, TypeOK
<1>5. conn' \in [to : Models, table : Models \cup {NoModel}]
  <2>1. CASE ConfigChanges
    BY <2>1 DEF ConfigChanges, TypeOK
  <2>2. CASE StoresChange
    <3>1. \A m \in Models : [to |-> m, table |-> IF m \in tables THEN NoModel ELSE m]
                              \in [to : Models, table : Models \cup {NoModel}]
      OBVIOUS
    <3>2. conn \in [to : Models, table : Models \cup {NoModel}]
      BY DEF TypeOK
    <3>3. conn' = conn \/ \E m \in Models : conn' = [to |-> m, table |-> IF m \in tables THEN NoModel ELSE m]
      BY <2>2 DEF StoresChange
    <3> QED BY <3>1, <3>2, <3>3
  <2>3. CASE Reconnects
    <3>1. config.model \in Models /\ conn.table \in Models \cup {NoModel}
      BY DEF TypeOK
    <3> QED BY <2>3, <3>1 DEF Reconnects
  <2> QED BY <2>1, <2>2, <2>3
<1>3. TypeOK' /\ Picking'
  BY <1>1, <1>2, <1>5 DEF TypeOK, Picking, At
<1>4. Loading' /\ Ordering' /\ LoadedFirst'
  BY <1>1 DEF OrderInv, Loading, Ordering, LoadedFirst
<1> QED BY <1>1, <1>3, <1>4 DEF OrderInv, QuestionTypes

LEMMA OrderKept ==
  ASSUME FusionPicksChunks
  PROVE  AnswerInv /\ OrderInv /\ [Next]_vars => OrderInv'
<1> SUFFICES ASSUME AnswerInv, OrderInv, [Next]_vars
             PROVE  OrderInv'
  OBVIOUS
<1>1. CASE UNCHANGED vars
  BY <1>1 DEF vars, OrderInv, QuestionTypes, TypeOK, Picking, Loading, Loaded, Loads, Apart,
                  Ordering, LoadedFirst, Linked, At
<1>2. CASE Next
  BY <1>2, SearchOrder, LoadOrder, AnswerOrder, OutsideOrder DEF Next
<1> QED BY <1>1, <1>2

-----------------------------------------------------------------------------
LEMMA QuestionsStay ==
  ASSUME FusionPicksChunks
  PROVE  Spec => [](AnswerInv /\ OrderInv)
<1>1. Init => AnswerInv /\ OrderInv
  BY AnswerInit, OrderInit
<1>2. AnswerInv /\ OrderInv /\ [Next]_vars => AnswerInv' /\ OrderInv'
  BY OrderKept, AnswerKept
<1> QED BY <1>1, <1>2, PTL DEF Spec

\* Every question is of its type: no more is loaded than the limit or the
\* fallback, and all that is loaded is shown (engine.js:162-245).
THEOREM QuestionTypeCorrect ==
  ASSUME FusionPicksChunks
  PROVE  Spec => []TypeOK
<1>1. OrderInv => TypeOK
  BY DEF OrderInv, QuestionTypes
<1> QED BY <1>1, QuestionsStay, PTL

\* What the fold of the fusion computes; TLC compares it with the reference
\* definition for every pair of rankings of its instance.
FusionIsBest == \A v, t \in Rankings : RanksBest(v, t, Fuse(v, t))

\* For any limit, and whatever is found and fails to load: a question that
\* nothing disturbed shows the best documents that can be loaded, each once,
\* and a reordered prompt keeps the better nearer to its ends; if the fusion
\* ranks by the scores, so does the question (engine.js:80-113, 156-206, 227-245).
THEOREM BestIsFirst ==
  ASSUME FusionPicksChunks, FusionIsBest
  PROVE  Spec => []BestFirst
<1>1. ASSUME AnswerInv, OrderInv
      PROVE  BestFirst
  <2>1. FusedFirst
    BY <1>1 DEF OrderInv, QuestionTypes, Ordering, FusedFirst, FusionIsBest
  <2>2. LoadedFirst
    BY <1>1 DEF OrderInv
  <2>3. ShownFirst
    <3> SUFFICES ASSUME query.shown # query.picked, query.shown # <<>>, IsInjective(query.picked)
                 PROVE  \A i, j \in DOMAIN query.picked :
                          i < j => Edge(PlaceOf(query.picked[i])) <= Edge(PlaceOf(query.picked[j]))
      BY DEF ShownFirst
    <3>1. query.shown = Reordered(query.picked) /\ query.picked \in Seq(Sources)
      BY <1>1 DEF OrderInv, Ordering, AnswerInv, Holds
    <3> QED BY <3>1, EdgesFirst
  <2> QED BY <2>1, <2>2, <2>3 DEF BestFirst
<1> QED BY <1>1, QuestionsStay, PTL
=============================================================================
