-------------------------- MODULE IndexPipelineProofs --------------------------
(***************************************************************************)
(* What IndexPipeline promises, for every set of applications, pages,      *)
(* models and benchmark runs: the types, the restored configuration, the   *)
(* repairs, that a flag means that the vectors are there, and that a full  *)
(* sync without a failure leaves nothing out.                              *)
(*                                                                         *)
(* TypeInv gives the types and, with them, where a job can stand.          *)
(* ConfigInv says that a benchmark runs alone and what it will put back.   *)
(* WorkInv is about what an operation has in hand: the connection has the  *)
(* table of its model, what was embedded is by one model, and whatever is  *)
(* saved finds its room empty.  SettledInv is about the flags: each tells  *)
(* the truth or belongs to an application whose flag the operation under   *)
(* way has still to reset.  CleanInv is about a full sync: its plan is in  *)
(* order (SyncOrder), each stage has done its part or has it in hand       *)
(* (SyncDone), and what earlier operations left is no obstacle: links are  *)
(* complete where toc_fetched says so (LinksInv), and what is flagged is   *)
(* in chunks_fts (ListedInv).  Each is inductive with those before it,     *)
(* under assumptions that say what must not happen meanwhile.              *)
(***************************************************************************)
EXTENDS IndexPipeline, SequenceTheorems, TLAPS

-----------------------------------------------------------------------------
(* The types                                                               *)

\* What a vector table or chunks_fts can hold: a text under the name of its
\* application.
AllRows == {<<NameOf[t[1]], t[2]>> : t \in Texts}

\* The records a job ranges over.
JobRecords == [plan : Seq(Stages), phase : Phases, todo : SUBSET Apps, left : SUBSET Texts,
               got : SUBSET Texts, by : SUBSET Models, col : Models \cup {NoModel},
               cancelled : BOOLEAN, clean : BOOLEAN]

\* Stages a child process may run.
InChildren == {"model", "vectorize", "intents"}

\* The stages that have a phase.
StagesWith(phase) ==
  CASE phase = "next" -> {"scan", "fetch", "local", "keywords", "vectorize", "intents"}
    [] phase = "toc" -> {"fetch"}
    [] phase = "pages" -> {"fetch", "local"}
    [] phase \in {"embed", "save", "add", "unlist", "list"} -> {"vectorize", "intents"}
    [] phase = "flag" -> {"vectorize"}
    [] phase = "unintend" -> {"intents"}
    [] OTHER -> Kinds

\* The SQLite rows of apps and of documents.
StoreTypes ==
  /\ known \subseteq Apps /\ toc \subseteq known /\ keywords \subseteq known
  /\ links \in [Apps -> SUBSET Pages] /\ docs \in [Apps -> SUBSET Pages]
  /\ \A a \in Apps : docs[a] \subseteq links[a]

\* The vectorized columns, the LanceDB tables and chunks_fts.
IndexTypes ==
  /\ flag \in [Models -> SUBSET known] /\ tables \subseteq Models
  /\ vec \in [Models -> SUBSET AllRows] /\ fts \subseteq AllRows

\* The configuration, the connection of db.service and what the benchmarks
\* saved.
ConfigTypes ==
  /\ config \in [file : Models, model : Models, attached : BOOLEAN]
  /\ conn \in [to : Models, table : Models \cup {NoModel}]
  /\ saved \in [Runs -> Models \cup {NoModel}]

\* A plan: only children name their model, and a stage "model" always does.
PlanTypes(plan) ==
  \A i \in DOMAIN plan :
    /\ plan[i].model # NoModel => plan[i].do \in InChildren
    /\ plan[i].do = "model" => plan[i].model # NoModel

\* A job stands at a phase of a stage.
At(j, what, phase) == j.plan # <<>> /\ Head(j.plan).do = what /\ j.phase = phase

\* A job among these rows of apps and these links.
JobSound(j, rows, linked) ==
  /\ j \in JobRecords /\ PlanTypes(j.plan)
  /\ (j.phase \in {"idle", "answer"}) = (j.plan = <<>>)
  /\ j.plan # <<>> => Head(j.plan).do \in StagesWith(j.phase)
  /\ \A t \in j.left \cup j.got : t[1] \in rows
  /\ j.todo \subseteq rows \/ At(j, "scan", "next")
  /\ At(j, "fetch", "pages") => \A t \in j.left : t[2] \in linked[t[1]]
  /\ At(j, "local", "pages") => \A t \in j.left : t[2] \in Pages
  /\ \A phase \in Phases \ {"enter"} : At(j, "vectorize", phase) => j.col \in Models

\* The operation under way.
JobTypes == JobSound(job, known, links)

\* The type invariant, inductive: TypeOK and what keeps the job in its types.
TypeInv == StoreTypes /\ IndexTypes /\ ConfigTypes /\ JobTypes

\* The inductive invariant says what the runs check.
LEMMA TypeInvSays == TypeInv => TypeOK
<1> SUFFICES ASSUME TypeInv PROVE TypeOK
  OBVIOUS
<1>1. /\ known \subseteq Apps /\ toc \subseteq known /\ keywords \subseteq known
      /\ links \in [Apps -> SUBSET Pages] /\ docs \in [Apps -> SUBSET Pages]
      /\ \A a \in Apps : docs[a] \subseteq links[a]
  BY DEF TypeInv, StoreTypes
<1>2. /\ flag \in [Models -> SUBSET known] /\ tables \subseteq Models
      /\ vec \in [Models -> SUBSET {<<NameOf[t[1]], t[2]>> : t \in Texts}]
      /\ fts \subseteq {<<NameOf[t[1]], t[2]>> : t \in Texts}
  BY DEF TypeInv, IndexTypes, AllRows
<1>3. /\ config \in [file : Models, model : Models, attached : BOOLEAN]
      /\ conn \in [to : Models, table : Models \cup {NoModel}]
      /\ saved \in [Runs -> Models \cup {NoModel}]
  BY DEF TypeInv, ConfigTypes
<1>4. /\ job.plan \in Seq(Stages) /\ job.phase \in Phases
      /\ job.todo \subseteq Apps /\ job.left \subseteq Texts
      /\ job.got \subseteq Texts /\ job.by \subseteq Models
      /\ job.col \in Models \cup {NoModel}
      /\ {job.cancelled, job.clean} \subseteq BOOLEAN
  BY DEF TypeInv, JobTypes, JobSound, JobRecords
<1> QED BY <1>1, <1>2, <1>3, <1>4 DEF TypeOK

\* The job of an idle server.
LEMMA IdleTypes == Idle \in JobRecords /\ Idle.plan = <<>> /\ Idle.phase = "idle"
<1>1. <<>> \in Seq(Stages)
  OBVIOUS
<1> QED BY <1>1 DEF Idle, JobRecords, Phases

\* The program starts in its types.
LEMMA TypesBegin == Init => TypeInv
<1> SUFFICES ASSUME Init PROVE TypeInv
  OBVIOUS
<1>1. StoreTypes
  BY DEF Init, StoreTypes
<1>2. IndexTypes
  BY DEF Init, IndexTypes
<1>3. ConfigTypes
  BY IndexAssumption DEF Init, ConfigTypes
<1>4. JobTypes
  <2>1. job = Idle
    BY DEF Init
  <2>2. job.left = {} /\ job.got = {} /\ job.todo = {} /\ PlanTypes(job.plan)
    BY <2>1 DEF Idle, PlanTypes
  <2> QED BY <2>1, <2>2, IdleTypes DEF JobTypes, JobSound, At
<1> QED BY <1>1, <1>2, <1>3, <1>4 DEF TypeInv

-----------------------------------------------------------------------------
(* Plans                                                                   *)

\* Stages that are well formed.
GoodStage(s) ==
  s \in Stages /\ (s.model # NoModel => s.do \in InChildren) /\ (s.do = "model" => s.model # NoModel)

\* Every stage the code names is well formed.
LEMMA StagesAreGood ==
  /\ \A what \in Kinds \ {"model"} : GoodStage(Stage(what))
  /\ \A what \in InChildren, m \in Models : GoodStage(Child(what, m))
  /\ \A what \in Kinds \ {"model"}, items \in SUBSET Items : GoodStage(Purge(what, items))
<1>1. \A what \in Kinds \ {"model"} : GoodStage(Stage(what))
  BY DEF GoodStage, Stage, Stages
<1>2. ASSUME NEW what \in InChildren, NEW m \in Models
      PROVE  GoodStage(Child(what, m))
  BY IndexAssumption DEF GoodStage, Child, Stage, Stages, InChildren, Kinds
<1>3. ASSUME NEW what \in Kinds \ {"model"}, NEW items \in SUBSET Items
      PROVE  GoodStage(Purge(what, items))
  BY DEF GoodStage, Purge, Stage, Stages
<1> QED BY <1>1, <1>2, <1>3

\* A plan made of well-formed stages.
GoodPlan(plan) == plan \in Seq(Stages) /\ PlanTypes(plan)

\* A sequence of good stages is a good plan, and so are parts and compositions.
LEMMA GoodPlans ==
  /\ \A plan : plan \in Seq({s \in Stages : GoodStage(s)}) <=> GoodPlan(plan)
<1> DEFINE Good == {s \in Stages : GoodStage(s)}
<1>1. ASSUME NEW plan, plan \in Seq(Good)
      PROVE  GoodPlan(plan)
  <2>1. \A i \in DOMAIN plan : plan[i] \in Good
    BY <1>1
  <2>2. plan \in Seq(Stages)
    <3>1. Good \subseteq Stages
      OBVIOUS
    <3>2. Len(plan) \in Nat /\ DOMAIN plan = 1 .. Len(plan) /\ plan \in [1 .. Len(plan) -> Good]
      BY <1>1
    <3>3. plan \in [1 .. Len(plan) -> Stages]
      BY <3>1, <3>2
    <3> QED BY <3>2, <3>3, SeqDef
  <2> QED BY <2>1, <2>2 DEF GoodPlan, PlanTypes, GoodStage
<1>2. ASSUME NEW plan, GoodPlan(plan)
      PROVE  plan \in Seq(Good)
  <2>1. plan \in Seq(Stages) /\ Len(plan) \in Nat /\ DOMAIN plan = 1 .. Len(plan)
    BY <1>2 DEF GoodPlan
  <2>2. \A i \in 1 .. Len(plan) : plan[i] \in Good
    BY <1>2, <2>1 DEF GoodPlan, PlanTypes, GoodStage
  <2>3. plan \in [1 .. Len(plan) -> Good]
    BY <2>1, <2>2
  <2> QED BY <2>1, <2>3, SeqDef
<1> QED BY <1>1, <1>2

\* What is left of a good plan is good, and so is what goes before another.
LEMMA PlanParts ==
  ASSUME NEW p, GoodPlan(p)
  PROVE  /\ p # <<>> => GoodPlan(Tail(p)) /\ GoodStage(Head(p))
         /\ \A q : GoodPlan(q) => GoodPlan(q \o p)
<1> DEFINE Good == {s \in Stages : GoodStage(s)}
<1>1. p \in Seq(Good)
  BY GoodPlans
<1>2. p # <<>> => Tail(p) \in Seq(Good) /\ Head(p) \in Good
  BY <1>1
<1>3. ASSUME NEW q, GoodPlan(q)
      PROVE  GoodPlan(q \o p)
  <2>1. q \in Seq(Good)
    BY <1>3, GoodPlans
  <2>2. q \o p \in Seq(Good)
    BY <1>1, <2>1
  <2> QED BY <2>2, GoodPlans
<1> QED BY <1>2, <1>3, GoodPlans

\* The length of two sequences joined.
LEMMA Joined ==
  ASSUME NEW S, NEW p \in Seq(S), NEW q \in Seq(S)
  PROVE  /\ p \o q \in Seq(S) /\ Len(p \o q) = Len(p) + Len(q)
         /\ Len(p) \in Nat /\ Len(q) \in Nat
<1> QED BY ConcatProperties

\* What pipeline.sync plans is a good plan.
LEMMA SyncPlan ==
  ASSUME NEW models \in ModelLists
  PROVE  GoodPlan(FullSync(models)) /\ FullSync(models) # <<>>
<1> DEFINE Good == {s \in Stages : GoodStage(s)}
           first == <<Stage("scan"), Stage("fetch"), Stage("local"), Stage("keywords")>>
           middle == IF models = <<>> THEN <<Stage("vectorize")>>
                     ELSE [i \in DOMAIN models |-> Child("model", models[i])]
           last == <<Stage("intents")>>
<1>1. \A what \in {"scan", "fetch", "local", "keywords", "vectorize", "intents"} : Stage(what) \in Good
  BY StagesAreGood DEF Kinds, GoodStage
<1>2. first \in Seq(Good) /\ last \in Seq(Good) /\ Len(first) = 4
  BY <1>1
<1>3. middle \in Seq(Good)
  <2>1. CASE models = <<>>
    BY <1>1, <2>1
  <2>2. CASE models # <<>>
    <3>1. models \in Seq(Models) /\ Len(models) \in Nat /\ DOMAIN models = 1 .. Len(models)
      BY IndexAssumption
    <3>2. \A i \in 1 .. Len(models) : models[i] \in Models
      BY <3>1
    <3>3. \A i \in 1 .. Len(models) : Child("model", models[i]) \in Good
      BY <3>2, StagesAreGood DEF InChildren, GoodStage
    <3>4. middle = [i \in 1 .. Len(models) |-> Child("model", models[i])]
      BY <2>2, <3>1
    <3>5. middle \in [1 .. Len(models) -> Good]
      BY <3>3, <3>4
    <3> QED BY <3>1, <3>5, SeqDef
  <2> QED BY <2>1, <2>2
<1>4. FullSync(models) = first \o middle \o last
  BY DEF FullSync
<1> HIDE DEF first, middle, last, Good
<1>5. /\ first \o middle \in Seq(Good) /\ Len(first \o middle) = Len(first) + Len(middle)
      /\ Len(middle) \in Nat
  BY <1>2, <1>3, Joined
<1>6. /\ first \o middle \o last \in Seq(Good)
      /\ Len(first \o middle \o last) = Len(first \o middle) + Len(last) /\ Len(last) \in Nat
  BY <1>2, <1>5, Joined
<1>7. FullSync(models) # <<>> /\ FullSync(models) \in Seq(Good)
  <2>1. Len(first \o middle \o last) > 0
    BY <1>2, <1>5, <1>6
  <2> QED BY <1>4, <1>6, <2>1
<1> QED BY <1>7, GoodPlans DEF Good

\* What db.clear plans, for every target, is a good plan.
LEMMA ClearPlans ==
  ASSUME NEW target \in Targets
  PROVE  GoodPlan(ClearPlan(target)) /\ ClearPlan(target) # <<>>
<1> DEFINE Good == {s \in Stages : GoodStage(s)}
<1>1. \A what \in {"apps", "drop", "unflagCurrent", "forget"} : Stage(what) \in Good
  BY StagesAreGood DEF Kinds, GoodStage
<1>2. \A what \in {"fts", "unflag", "vectors", "docs", "links"}, items \in SUBSET Items :
        Purge(what, items) \in Good
  BY StagesAreGood DEF Kinds, GoodStage
<1>3. Items \in SUBSET Items /\ Pages \in SUBSET Items /\ WebPages \in SUBSET Items
      /\ LocalPages \in SUBSET Items /\ {Intent} \in SUBSET Items
  BY DEF Items, Pages
<1> HIDE DEF Good
<1>4. DropVectors \in Seq(Good) /\ Len(DropVectors) = 3
  BY <1>1, <1>2, <1>3 DEF DropVectors
<1>5. ASSUME NEW pages \in SUBSET Items
      PROVE  ClearType(pages) \in Seq(Good) /\ Len(ClearType(pages)) = 5
  BY <1>2 DEF ClearType
<1>6. ClearPlan(target) \in Seq(Good) /\ Len(ClearPlan(target)) > 0
  <2>1. CASE target = "all"
    <3>1. PICK p : p = <<Stage("apps"), Purge("links", Pages), Purge("docs", Pages)>>
      OBVIOUS
    <3>2. p \in Seq(Good) /\ Len(p) = 3
      BY <1>1, <1>2, <1>3, <3>1
    <3>3. p \o DropVectors \in Seq(Good) /\ Len(p \o DropVectors) = Len(p) + Len(DropVectors)
      BY <1>4, <3>2, Joined
    <3>4. Len(p \o DropVectors) > 0
      BY <1>4, <3>2, <3>3
    <3> QED BY <2>1, <3>1, <3>3, <3>4 DEF ClearPlan
  <2>2. CASE target = "web"
    BY <1>3, <1>5, <2>2 DEF ClearPlan
  <2>3. CASE target = "local"
    BY <1>3, <1>5, <2>3 DEF ClearPlan
  <2>4. CASE target = "apps"
    BY <1>1, <2>4 DEF ClearPlan
  <2>5. CASE target = "document_links" \/ target = "web_documents"
    BY <1>2, <1>3, <2>5 DEF ClearPlan
  <2>6. CASE target = "lancedb"
    BY <1>4, <2>6 DEF ClearPlan
  <2>7. CASE target = "intents"
    <3>1. <<Purge("vectors", {Intent}), Purge("fts", {Intent}), Stage("forget")>> \in Seq(Good)
          /\ Len(<<Purge("vectors", {Intent}), Purge("fts", {Intent}), Stage("forget")>>) = 3
      BY <1>1, <1>2, <1>3
    <3> QED BY <2>7, <3>1 DEF ClearPlan
  <2> QED BY <2>1, <2>2, <2>3, <2>4, <2>5, <2>6, <2>7, IndexAssumption
<1> QED BY <1>6, GoodPlans DEF Good

-----------------------------------------------------------------------------
(* What becomes of a job                                                   *)

\* A job before its next stage, or before its answer, holds nothing.
LEMMA BareSound ==
  ASSUME NEW j \in JobRecords, GoodPlan(j.plan), j.phase \in {"enter", "answer", "idle"},
         (j.phase \in {"idle", "answer"}) = (j.plan = <<>>),
         j.left = {}, j.got = {}, j.todo = {}, NEW rows, NEW linked
  PROVE  JobSound(j, rows, linked)
<1>1. j.plan # <<>> => Head(j.plan).do \in StagesWith(j.phase)
  <2>1. j.plan # <<>> => Head(j.plan) \in Stages /\ j.phase = "enter"
    BY PlanParts DEF GoodStage
  <2> QED BY <2>1 DEF StagesWith, Stages
<1> QED BY <1>1 DEF JobSound, At, GoodPlan

\* At the end of a stage the job comes to the next one, or to its answer, with
\* nothing in hand.
LEMMA ThenSound ==
  ASSUME NEW j \in JobRecords, GoodPlan(j.plan), j.plan # <<>>, NEW rows, NEW linked
  PROVE  /\ JobSound(Then(j), rows, linked)
         /\ Then(j).plan \in {<<>>, Tail(j.plan)} /\ (j.cancelled => Then(j).plan = <<>>)
         /\ Then(j).phase \in {"enter", "answer"}
         /\ Then(j).left = {} /\ Then(j).got = {} /\ Then(j).todo = {} /\ Then(j).by = {}
         /\ Then(j).clean = j.clean /\ Then(j).cancelled = j.cancelled
<1>1. PICK rest : rest = IF j.cancelled /\ j.plan # <<>> THEN <<>> ELSE Tail(j.plan)
  OBVIOUS
<1>2. PICK k : k = Then(j)
  OBVIOUS
<1>3. k = [Idle EXCEPT !.plan = rest, !.clean = j.clean, !.cancelled = j.cancelled,
                  !.phase = IF rest = <<>> THEN "answer" ELSE "enter"]
  BY <1>1, <1>2 DEF Then
<1>4. GoodPlan(rest)
  <2>1. GoodPlan(<<>>)
    BY DEF GoodPlan, PlanTypes
  <2> QED BY <1>1, <2>1, PlanParts
<1>5. rest \in Seq(Stages) /\ j.clean \in BOOLEAN /\ j.cancelled \in BOOLEAN
  BY <1>4 DEF GoodPlan, JobRecords
<1>6. /\ k = [plan |-> rest, phase |-> IF rest = <<>> THEN "answer" ELSE "enter", todo |-> {}, left |-> {},
              got |-> {}, by |-> {}, col |-> NoModel, cancelled |-> j.cancelled, clean |-> j.clean]
  BY <1>3 DEF Idle
<1>7. k \in JobRecords
  BY <1>5, <1>6 DEF JobRecords, Phases
<1>8. /\ k.plan = rest /\ k.phase \in {"enter", "answer"} /\ (k.phase = "answer") = (k.plan = <<>>)
      /\ k.left = {} /\ k.got = {} /\ k.todo = {} /\ k.by = {}
      /\ k.clean = j.clean /\ k.cancelled = j.cancelled
  BY <1>6
<1>9. JobSound(k, rows, linked)
  BY <1>4, <1>7, <1>8, BareSound
<1>10. rest \in {<<>>, Tail(j.plan)} /\ (j.cancelled => rest = <<>>)
  BY <1>1
<1> QED BY <1>2, <1>8, <1>9, <1>10

\* What TypeInv says of a job, for short.
LEMMA JobIs ==
  ASSUME TypeInv
  PROVE  /\ job \in JobRecords /\ GoodPlan(job.plan)
         /\ (job.phase \in {"idle", "answer"}) = (job.plan = <<>>)
         /\ job.plan # <<>> => GoodStage(Head(job.plan)) /\ Head(job.plan).do \in StagesWith(job.phase)
         /\ \A t \in job.left \cup job.got : t \in Texts /\ t[1] \in known /\ t[1] \in Apps /\ t[2] \in Items
         /\ job.todo \subseteq known \/ At(job, "scan", "next")
<1>1. JobSound(job, known, links)
  BY DEF TypeInv, JobTypes
<1>2. job \in JobRecords /\ GoodPlan(job.plan)
  BY <1>1 DEF JobSound, GoodPlan, JobRecords
<1>3. job.plan # <<>> => GoodStage(Head(job.plan)) /\ Head(job.plan).do \in StagesWith(job.phase)
  BY <1>1, <1>2, PlanParts DEF JobSound
<1>4. \A t \in job.left \cup job.got : t \in Texts /\ t[1] \in known /\ t[1] \in Apps /\ t[2] \in Items
  BY <1>1 DEF JobSound, JobRecords, Texts
<1> QED BY <1>1, <1>2, <1>3, <1>4 DEF JobSound

\* A cancelled job stays where it is.
LEMMA CancelledSound ==
  ASSUME TypeInv, job' = [job EXCEPT !.cancelled = TRUE, !.clean = FALSE], UNCHANGED <<known, links>>
  PROVE  JobTypes'
<1>1. JobSound(job, known, links)
  BY DEF TypeInv, JobTypes
<1>2. job' \in JobRecords
  BY <1>1 DEF JobSound, JobRecords
<1>3. /\ job'.plan = job.plan /\ job'.phase = job.phase /\ job'.left = job.left /\ job'.got = job.got
      /\ job'.todo = job.todo /\ job'.col = job.col
  BY <1>1 DEF JobSound, JobRecords
<1> QED BY <1>1, <1>2, <1>3 DEF JobTypes, JobSound, At

\* The next phase of the same stage.
Stays(what, phase) ==
  job' \in JobRecords /\ job'.plan = job.plan /\ job.plan # <<>> /\ Head(job.plan).do = what /\ job'.phase = phase

\* The next phase of a stage keeps the job in its types if what it holds is
\* known.
LEMMA StaysSound ==
  ASSUME TypeInv, NEW what, NEW phase \in Phases \ {"idle", "answer"}, Stays(what, phase),
         what \in StagesWith(phase),
         \A t \in job'.left \cup job'.got : t[1] \in known',
         job'.todo \subseteq known' \/ <<what, phase>> = <<"scan", "next">>,
         <<what, phase>> = <<"fetch", "pages">> => \A t \in job'.left : t[2] \in links'[t[1]],
         <<what, phase>> = <<"local", "pages">> => \A t \in job'.left : t[2] \in Pages,
         what = "vectorize" /\ phase # "enter" => job'.col \in Models
  PROVE  JobTypes'
<1>1. GoodPlan(job.plan)
  BY JobIs
<1> QED BY <1>1 DEF Stays, JobTypes, JobSound, At, GoodPlan

-----------------------------------------------------------------------------
(* Operations begin, change and end                                        *)

\* An operation begins.
LEMMA StartTypes ==
  ASSUME TypeInv, Sync \/ Single \/ Clear
  PROVE  JobTypes'
<1>1. ASSUME NEW plan, GoodPlan(plan), plan # <<>>, NEW clean \in BOOLEAN, Start(plan, clean)
      PROVE  JobTypes'
  <2>1. job' = [plan |-> plan, phase |-> "enter", todo |-> {}, left |-> {}, got |-> {}, by |-> {},
                col |-> NoModel, cancelled |-> FALSE, clean |-> clean]
    BY <1>1 DEF Start, Idle
  <2>2. job' \in JobRecords
    BY <1>1, <2>1 DEF JobRecords, Phases, GoodPlan
  <2>3. job'.plan = plan /\ job'.phase = "enter" /\ job'.left = {} /\ job'.got = {} /\ job'.todo = {}
    BY <2>1
  <2>4. JobSound(job', known', links')
    BY <1>1, <2>2, <2>3, BareSound
  <2> QED BY <2>4 DEF JobTypes
<1>2. ASSUME NEW what \in {"scan", "fetch", "local", "keywords", "vectorize", "intents"}
      PROVE  GoodPlan(<<Stage(what)>>) /\ <<Stage(what)>> # <<>>
  <2>1. GoodStage(Stage(what)) /\ Stage(what) \in Stages
    BY StagesAreGood DEF Kinds, GoodStage
  <2> QED BY <2>1 DEF GoodPlan, PlanTypes, GoodStage
<1>3. CASE Sync
  BY <1>1, <1>3, SyncPlan DEF Sync
<1>4. CASE Single
  BY <1>1, <1>2, <1>4 DEF Single
<1>5. CASE Clear
  BY <1>1, <1>5, ClearPlans DEF Clear
<1> QED BY <1>3, <1>4, <1>5

\* The stage ends.
LEMMA EndedTypes ==
  ASSUME TypeInv, job.plan # <<>>, job' = Then(job)
  PROVE  JobTypes'
<1>1. job \in JobRecords /\ GoodPlan(job.plan)
  BY JobIs
<1>2. JobSound(Then(job), known', links')
  BY <1>1, ThenSound
<1> QED BY <1>2 DEF JobTypes

\* No operation, or one that has only its answer to send.
LEMMA NoJobTypes ==
  ASSUME job' = Idle \/ job' = [Idle EXCEPT !.phase = "answer"]
  PROVE  JobTypes'
<1>1. job' = [plan |-> <<>>, phase |-> job'.phase, todo |-> {}, left |-> {}, got |-> {}, by |-> {},
              col |-> NoModel, cancelled |-> FALSE, clean |-> FALSE] /\ job'.phase \in {"idle", "answer"}
  BY DEF Idle
<1>2. job' \in JobRecords
  BY IdleTypes DEF JobRecords, Phases
<1>3. GoodPlan(<<>>)
  BY DEF GoodPlan, PlanTypes
<1>4. job'.plan = <<>> /\ job'.phase \in {"idle", "answer"} /\ job'.left = {} /\ job'.got = {} /\ job'.todo = {}
  BY <1>1
<1>5. JobSound(job', known', links')
  BY <1>2, <1>3, <1>4, BareSound
<1> QED BY <1>5 DEF JobTypes

\* runForEachModel puts the two children of a model in the place of its stage.
LEMMA ChooseTypes ==
  ASSUME TypeInv, ChooseProcess
  PROVE  JobTypes'
<1>1. /\ job \in JobRecords /\ GoodPlan(job.plan) /\ job.plan # <<>> /\ Head(job.plan).do = "model"
      /\ job.phase = "enter" /\ GoodStage(Head(job.plan)) /\ GoodPlan(Tail(job.plan))
  BY JobIs, PlanParts DEF ChooseProcess, Doing
<1>2. PICK m : m = Head(job.plan).model
  OBVIOUS
<1>3. m \in Models
  BY <1>1, <1>2 DEF GoodStage, Stages
<1>4. PICK first : first = IF m = config.model THEN <<Stage("vectorize")>>
                           ELSE <<Child("vectorize", m), Child("intents", m)>>
  OBVIOUS
<1>5. GoodPlan(first) /\ first # <<>> /\ first \in Seq(Stages)
  <2>1. GoodStage(Stage("vectorize")) /\ GoodStage(Child("vectorize", m)) /\ GoodStage(Child("intents", m))
    BY <1>3, StagesAreGood DEF Kinds, InChildren
  <2>2. CASE m = config.model
    BY <1>4, <2>1, <2>2 DEF GoodPlan, PlanTypes, GoodStage
  <2>3. CASE m # config.model
    <3>1. PICK x, y : x = Child("vectorize", m) /\ y = Child("intents", m)
      OBVIOUS
    <3>2. first = <<x, y>> /\ GoodStage(x) /\ GoodStage(y)
      BY <1>4, <2>1, <2>3, <3>1
    <3> QED BY <3>2 DEF GoodPlan, PlanTypes, GoodStage
  <2> QED BY <2>2, <2>3
<1>6. PICK plan : plan = first \o Tail(job.plan)
  OBVIOUS
<1>7. GoodPlan(plan) /\ plan # <<>> /\ plan \in Seq(Stages)
  <2>1. GoodPlan(plan)
    BY <1>1, <1>5, <1>6, PlanParts
  <2>2. Tail(job.plan) \in Seq(Stages)
    BY <1>1 DEF GoodPlan
  <2>3. Len(plan) = Len(first) + Len(Tail(job.plan)) /\ Len(first) \in Nat /\ Len(Tail(job.plan)) \in Nat
    BY <1>5, <1>6, <2>2, Joined
  <2>4. Len(first) > 0
    BY <1>5
  <2> QED BY <2>1, <2>3, <2>4 DEF GoodPlan
<1>8. job' = [job EXCEPT !.plan = plan]
  BY <1>1, <1>2, <1>4, <1>6 DEF ChooseProcess
<1>9. job' \in JobRecords /\ job'.plan = plan /\ job'.phase = "enter" /\ job'.left = job.left
      /\ job'.got = job.got /\ job'.todo = job.todo
  BY <1>1, <1>7, <1>8 DEF JobRecords
<1>10. UNCHANGED <<known, links>>
  BY DEF ChooseProcess, store
<1>11. Head(plan) \in Stages
  BY <1>7
<1>12. JobSound(job, known, links) /\ ~At(job, "scan", "next")
  BY <1>1 DEF TypeInv, JobTypes, At
<1> QED BY <1>7, <1>9, <1>10, <1>11, <1>12 DEF JobTypes, JobSound, At, GoodPlan, StagesWith, Stages

\* Beginning, choosing a process, cancelling and ending keep the types.
LEMMA JobMovesTypes ==
  ASSUME TypeInv, \/ EndStage \/ Answer \/ Cancel \/ KillChild \/ ChooseProcess
                  \/ Sync \/ Single \/ Clear
  PROVE  TypeInv'
<1>1. UNCHANGED <<store, index, config, conn, saved>>
  BY DEF EndStage, Answer, Cancel, KillChild, ChooseProcess, Sync, Single, Clear, Start
<1>2. JobTypes'
  <2>1. CASE EndStage
    <3>1. job.plan # <<>>
      BY <2>1, JobIs DEF EndStage
    <3> QED BY <2>1, <3>1, EndedTypes DEF EndStage
  <2>2. CASE Answer
    BY <2>2, NoJobTypes DEF Answer
  <2>3. CASE Cancel
    BY <1>1, <2>3, CancelledSound DEF Cancel, store
  <2>4. CASE KillChild
    BY <2>4, EndedTypes DEF KillChild, InChild
  <2> QED BY <2>1, <2>2, <2>3, <2>4, ChooseTypes, StartTypes
<1> QED BY <1>1, <1>2 DEF TypeInv, StoreTypes, IndexTypes, ConfigTypes, store, index

-----------------------------------------------------------------------------
(* Loops over the rows of apps                                             *)

\* A stage begins its loop over rows of apps.
LEMMA LoopTypes ==
  ASSUME TypeInv, NEW what \in {"scan", "fetch", "local", "keywords"}, NEW apps \in SUBSET Apps,
         apps \subseteq known' \/ what = "scan",
         Doing(what, "enter"), Loop(apps), known \subseteq known'
  PROVE  JobTypes'
<1>1. job \in JobRecords
  BY JobIs
<1>2. job' \in JobRecords /\ job'.plan = job.plan /\ job'.phase = "next" /\ job'.todo = apps
      /\ job'.left = job.left /\ job'.got = job.got
  BY <1>1 DEF Loop, JobRecords, Phases
<1>3. Stays(what, "next")
  BY <1>2 DEF Stays, Doing
<1> QED BY <1>2, <1>3, StaysSound, JobIs DEF StagesWith, Phases

\* The stages that loop begin in their types.
LEMMA EnterTypes ==
  ASSUME TypeInv, EnterScan \/ EnterFetch \/ EnterLocal \/ EnterKeywords
  PROVE  TypeInv'
<1>1. UNCHANGED <<store, index, config, conn, saved>>
  BY DEF EnterScan, EnterFetch, EnterLocal, EnterKeywords
<1>2. known' = known /\ known \subseteq Apps
  BY <1>1 DEF store, TypeInv, StoreTypes
<1>3. JobTypes'
  <2>1. CASE EnterScan
    BY <1>2, <2>1, LoopTypes DEF EnterScan
  <2>2. CASE EnterFetch
    BY <1>2, <2>2, LoopTypes DEF EnterFetch
  <2>3. CASE EnterLocal
    BY <1>2, <2>3, LoopTypes DEF EnterLocal
  <2>4. CASE EnterKeywords
    BY <1>2, <2>4, LoopTypes DEF EnterKeywords
  <2> QED BY <2>1, <2>2, <2>3, <2>4
<1> QED BY <1>1, <1>3 DEF TypeInv, StoreTypes, IndexTypes, ConfigTypes, store, index

\* An application is scanned, or asked its keywords.
LEMMA ScanTypes ==
  ASSUME TypeInv, NEW a \in Apps, ScanApp(a) \/ Keyword(a)
  PROVE  TypeInv'
<1>1. job \in JobRecords /\ \A t \in job.left \cup job.got : t[1] \in known
  BY JobIs
<1>2. CASE ScanApp(a)
  <2>1. job' \in JobRecords /\ job'.plan = job.plan /\ job'.phase = "next"
        /\ job'.left = job.left /\ job'.got = job.got
    BY <1>1, <1>2 DEF ScanApp, Doing, JobRecords
  <2>2. Stays("scan", "next") /\ known \subseteq known'
    BY <1>2, <2>1 DEF Stays, ScanApp, Doing
  <2>3. JobTypes'
    BY <1>1, <2>1, <2>2, StaysSound DEF StagesWith, Phases
  <2>4. StoreTypes'
    BY <1>2 DEF ScanApp, TypeInv, StoreTypes
  <2>5. IndexTypes'
    BY <1>2, <2>2 DEF ScanApp, TypeInv, IndexTypes, index
  <2> QED BY <1>2, <2>3, <2>4, <2>5 DEF ScanApp, TypeInv, ConfigTypes
<1>3. CASE Keyword(a)
  <2>1. PICK ok \in BOOLEAN :
          /\ keywords' = IF ok /\ docs[a] # {} THEN keywords \cup {a} ELSE keywords
          /\ job' = [job EXCEPT !.todo = @ \ {a}, !.clean = @ /\ ok]
    BY <1>3 DEF Keyword
  <2>2. Doing("keywords", "next") /\ a \in job.todo /\ UNCHANGED <<known, toc, links, docs, index, config, conn, saved>>
    BY <1>3 DEF Keyword
  <2>3. a \in known /\ job.todo \subseteq known
    BY <2>2, JobIs DEF Doing, At
  <2>4. PICK clean \in BOOLEAN : clean = (job.clean /\ ok)
    BY <1>1, <2>1 DEF JobRecords
  <2>5. job' = [job EXCEPT !.todo = job.todo \ {a}, !.clean = clean]
    BY <2>1, <2>4
  <2>6. job' \in JobRecords /\ job'.plan = job.plan /\ job'.phase = "next" /\ job'.todo \subseteq known
        /\ job'.left = job.left /\ job'.got = job.got
    BY <1>1, <2>2, <2>3, <2>5 DEF Doing, JobRecords
  <2>7. Stays("keywords", "next")
    BY <2>2, <2>6 DEF Stays, Doing
  <2>8. JobTypes'
    BY <1>1, <2>2, <2>6, <2>7, StaysSound DEF StagesWith, Phases
  <2>9. StoreTypes'
    BY <2>1, <2>2, <2>3 DEF TypeInv, StoreTypes
  <2> QED BY <2>2, <2>8, <2>9 DEF TypeInv, IndexTypes, ConfigTypes, index
<1> QED BY <1>2, <1>3

-----------------------------------------------------------------------------
(* Pages and files                                                         *)

\* What is pending of an application.
LEMMA PendingIs ==
  ASSUME TypeInv, NEW a \in Apps, a \in known, NEW linked \in SUBSET Pages
  PROVE  /\ Pending(a, linked) \in SUBSET Texts
         /\ \A t \in Pending(a, linked) : t[1] = a /\ t[1] \in known /\ t[2] \in linked /\ t[2] \notin docs[a]
<1> QED BY DEF Pending, Of, Texts, Items

\* A text gone from what is left, or added to what was got.
LEMMA TextsAre ==
  ASSUME TypeInv
  PROVE  /\ job.left \in SUBSET Texts /\ job.got \in SUBSET Texts
         /\ \A t \in job.left \cup job.got : t[1] \in known
<1> QED BY JobIs DEF JobRecords

\* An application is taken from the loop, with its pages or its files.
LEMMA TakeTypes ==
  ASSUME TypeInv, NEW a \in Apps, FetchApp(a) \/ AskToc(a) \/ LocalApp(a)
  PROVE  TypeInv'
<1>1. job \in JobRecords /\ \A t \in job.left \cup job.got : t[1] \in known
  BY JobIs
<1>2. a \in job.todo /\ UNCHANGED <<store, index, config, conn, saved>>
  BY DEF FetchApp, AskToc, LocalApp
<1>3. a \in known /\ job.todo \subseteq known
  BY <1>2, JobIs DEF FetchApp, AskToc, LocalApp, Doing, At
<1>4. UNCHANGED <<known, links>>
  BY <1>2 DEF store
<1>5. JobTypes'
  <2>1. CASE FetchApp(a)
    <3>1. links[a] \in SUBSET Pages
      BY DEF TypeInv, StoreTypes
    <3>2. PICK ts : ts = Pending(a, links[a])
      OBVIOUS
    <3>3. ts \in SUBSET Texts /\ \A t \in ts : t[1] = a /\ t[1] \in known /\ t[2] \in links[a]
      BY <1>3, <3>1, <3>2, PendingIs
    <3>4. job' = [job EXCEPT !.phase = "pages", !.todo = job.todo \ {a}, !.left = ts, !.got = ts]
          /\ Doing("fetch", "next")
      BY <2>1, <3>2 DEF FetchApp
    <3>5. job' \in JobRecords /\ job'.plan = job.plan /\ job'.phase = "pages" /\ job'.todo \subseteq known
          /\ job'.left = ts /\ job'.got = ts
      BY <1>1, <1>3, <3>3, <3>4 DEF JobRecords, Phases
    <3>6. Stays("fetch", "pages")
      BY <3>4, <3>5 DEF Stays, Doing
    <3>7. \A t \in job'.left : t[2] \in links'[t[1]]
      BY <1>4, <3>3, <3>5
    <3> QED BY <1>4, <3>3, <3>5, <3>6, <3>7, StaysSound DEF StagesWith, Phases
  <2>2. CASE AskToc(a)
    <3>1. PICK ts : ts = Of(a, {Meta})
      OBVIOUS
    <3>2. ts \in SUBSET Texts /\ \A t \in ts : t[1] \in known
      BY <1>3, <3>1 DEF Of, Texts, Items
    <3>3. job' = [job EXCEPT !.phase = "toc", !.left = ts] /\ Doing("fetch", "next")
      BY <2>2, <3>1 DEF AskToc
    <3>4. job' \in JobRecords /\ job'.plan = job.plan /\ job'.phase = "toc" /\ job'.todo \subseteq known
          /\ job'.left = ts /\ job'.got = job.got
      BY <1>1, <1>3, <3>2, <3>3 DEF JobRecords, Phases
    <3>5. Stays("fetch", "toc")
      BY <3>3, <3>4 DEF Stays, Doing
    <3> QED BY <1>1, <1>4, <3>2, <3>4, <3>5, StaysSound DEF StagesWith, Phases
  <2>3. CASE LocalApp(a)
    <3>1. HelpFiles(a) \in SUBSET Pages
      BY DEF HelpFiles, Pages
    <3>2. PICK ts : ts = Pending(a, HelpFiles(a))
      OBVIOUS
    <3>3. ts \in SUBSET Texts /\ \A t \in ts : t[1] \in known /\ t[2] \in Pages
      BY <1>3, <3>1, <3>2, PendingIs
    <3>4. job' = [job EXCEPT !.phase = "pages", !.todo = job.todo \ {a}, !.left = ts]
          /\ Doing("local", "next")
      BY <2>3, <3>2 DEF LocalApp
    <3>5. job' \in JobRecords /\ job'.plan = job.plan /\ job'.phase = "pages" /\ job'.todo \subseteq known
          /\ job'.left = ts /\ job'.got = job.got
      BY <1>1, <1>3, <3>3, <3>4 DEF JobRecords, Phases
    <3>6. Stays("local", "pages")
      BY <3>4, <3>5 DEF Stays, Doing
    <3> QED BY <1>1, <1>4, <3>3, <3>5, <3>6, StaysSound DEF StagesWith, Phases
  <2> QED BY <2>1, <2>2, <2>3
<1> QED BY <1>2, <1>5 DEF TypeInv, StoreTypes, IndexTypes, ConfigTypes, store, index

\* A table of contents arrives or fails.
LEMMA TocTypes ==
  ASSUME TypeInv, NEW a \in Apps, TocArrives(a)
  PROVE  TypeInv'
<1>1. job \in JobRecords /\ \A t \in job.left \cup job.got : t[1] \in known
  BY JobIs
<1>2. Doing("fetch", "toc") /\ job.left = Of(a, {Meta}) /\ UNCHANGED <<known, keywords, docs, index, config, conn, saved>>
  BY DEF TocArrives
<1>3. a \in known /\ job.todo \subseteq known
  <2>1. <<a, Meta>> \in job.left
    BY <1>2 DEF Of
  <2> QED BY <1>1, <1>2, <2>1, JobIs DEF Doing, At
<1>4. CASE job.cancelled
  <2>1. job' = Then(job) /\ UNCHANGED <<links, toc>> /\ job.plan # <<>>
    BY <1>2, <1>4 DEF TocArrives, Doing
  <2> QED BY <1>2, <2>1, EndedTypes DEF TypeInv, StoreTypes, IndexTypes, ConfigTypes, index
<1>5. CASE ~job.cancelled
  <2>1. PICK pages \in SUBSET Pages :
          /\ links' = [links EXCEPT ![a] = @ \cup pages]
          /\ job' = [job EXCEPT !.phase = "pages", !.todo = @ \ {a},
                                !.left = Pending(a, links'[a]), !.got = Pending(a, links'[a])]
    BY <1>5 DEF TocArrives, Guide, Pages
  <2>2. toc' = toc \cup {a}
    BY <1>5 DEF TocArrives
  <2>3. PICK linked : linked = links[a] \cup pages
    OBVIOUS
  <2>4. links' = [links EXCEPT ![a] = linked] /\ links'[a] = linked /\ linked \in SUBSET Pages
    BY <2>1, <2>3 DEF TypeInv, StoreTypes
  <2>5. PICK ts : ts = Pending(a, linked)
    OBVIOUS
  <2>6. ts \in SUBSET Texts /\ \A t \in ts : t[1] = a /\ t[1] \in known /\ t[2] \in linked
    BY <1>3, <2>4, <2>5, PendingIs
  <2>7. job' = [job EXCEPT !.phase = "pages", !.todo = job.todo \ {a}, !.left = ts, !.got = ts]
    BY <2>1, <2>4, <2>5
  <2>8. job' \in JobRecords /\ job'.plan = job.plan /\ job'.phase = "pages" /\ job'.todo \subseteq known
        /\ job'.left = ts /\ job'.got = ts
    BY <1>1, <1>3, <2>6, <2>7 DEF JobRecords, Phases
  <2>9. Stays("fetch", "pages")
    BY <1>2, <2>8 DEF Stays, Doing
  <2>10. JobTypes'
    <3>1. \A t \in job'.left : t[2] \in links'[t[1]]
      BY <2>4, <2>6, <2>8
    <3> QED BY <1>2, <2>6, <2>8, <2>9, <3>1, StaysSound DEF StagesWith, Phases
  <2>11. StoreTypes'
    <3>1. links' \in [Apps -> SUBSET Pages] /\ \A b \in Apps : links[b] \subseteq links'[b]
      BY <2>1, <2>4 DEF TypeInv, StoreTypes
    <3> QED BY <1>2, <1>3, <2>2, <3>1 DEF TypeInv, StoreTypes
  <2> QED BY <1>2, <2>10, <2>11 DEF TypeInv, IndexTypes, ConfigTypes, index
<1> QED BY <1>4, <1>5

\* A page or a file is stored where there is a link to it.
LEMMA StoredTypes ==
  ASSUME TypeInv, NEW t \in Texts, t[2] \in Pages, UNCHANGED <<known, toc, keywords>>,
         docs' = [docs EXCEPT ![t[1]] = @ \cup {t[2]}],
         \/ links' = links /\ t[2] \in links[t[1]]
         \/ links' = [links EXCEPT ![t[1]] = @ \cup {t[2]}]
  PROVE  StoreTypes'
<1>1. t[1] \in Apps
  BY DEF Texts
<1>2. docs' \in [Apps -> SUBSET Pages] /\ links' \in [Apps -> SUBSET Pages]
  BY <1>1 DEF TypeInv, StoreTypes
<1>3. ASSUME NEW a \in Apps
      PROVE  docs'[a] \subseteq links'[a]
  BY <1>1 DEF TypeInv, StoreTypes
<1> QED BY <1>2, <1>3 DEF TypeInv, StoreTypes

\* A page is fetched or a file is read, or neither.
LEMMA PageTypes ==
  ASSUME TypeInv, FetchPage \/ ReadFile
  PROVE  TypeInv'
<1>1. job \in JobRecords /\ \A t \in job.left \cup job.got : t \in Texts /\ t[1] \in known /\ t[1] \in Apps
  BY JobIs
<1>2. UNCHANGED <<known, toc, keywords, index, config, conn, saved>>
  BY DEF FetchPage, ReadFile
<1>3. CASE FetchPage
  <2>1. PICK t \in job.left, ok \in BOOLEAN :
          /\ docs' = IF ok THEN [docs EXCEPT ![t[1]] = @ \cup {t[2]}] ELSE docs
          /\ job' = [job EXCEPT !.left = @ \ {t}, !.clean = @ /\ ok]
    BY <1>3 DEF FetchPage
  <2>2. Doing("fetch", "pages") /\ links' = links
    BY <1>3 DEF FetchPage
  <2>3. t \in Texts /\ t[2] \in links[t[1]] /\ t[2] \in Pages /\ job.todo \subseteq known
        /\ \A u \in job.left : u[2] \in links[u[1]]
    <3>1. JobSound(job, known, links) /\ At(job, "fetch", "pages")
      BY <2>2 DEF TypeInv, JobTypes, Doing, At
    <3>2. t \in Texts /\ t[1] \in Apps /\ t[2] \in links[t[1]] /\ \A u \in job.left : u[2] \in links[u[1]]
      BY <1>1, <3>1 DEF JobSound
    <3>3. links[t[1]] \subseteq Pages
      BY <3>2 DEF TypeInv, StoreTypes
    <3> QED BY <3>1, <3>2, <3>3 DEF JobSound, At
  <2>4. PICK clean \in BOOLEAN : clean = (job.clean /\ ok)
    BY <1>1 DEF JobRecords
  <2>5. job' = [job EXCEPT !.left = job.left \ {t}, !.clean = clean]
    BY <2>1, <2>4
  <2>6. job' \in JobRecords /\ job'.plan = job.plan /\ job'.phase = "pages" /\ job'.todo = job.todo
        /\ job'.left \subseteq job.left /\ job'.got = job.got
    BY <1>1, <2>2, <2>5 DEF Doing, JobRecords
  <2>7. Stays("fetch", "pages")
    BY <2>2, <2>6 DEF Stays, Doing
  <2>8. JobTypes'
    BY <1>1, <1>2, <2>2, <2>3, <2>6, <2>7, StaysSound DEF StagesWith, Phases
  <2>9. StoreTypes'
    <3>1. CASE ok
      BY <1>2, <2>1, <2>2, <2>3, <3>1, StoredTypes
    <3>2. CASE ~ok
      BY <1>2, <2>1, <2>2, <3>2 DEF TypeInv, StoreTypes
    <3> QED BY <3>1, <3>2
  <2> QED BY <1>2, <2>8, <2>9 DEF TypeInv, IndexTypes, ConfigTypes, index
<1>4. CASE ReadFile
  <2>0. Doing("local", "pages")
    BY <1>4 DEF ReadFile
  <2>1. PICK t \in job.left :
          \/ /\ docs' = [docs EXCEPT ![t[1]] = @ \cup {t[2]}]
             /\ links' = [links EXCEPT ![t[1]] = @ \cup {t[2]}]
             /\ job' = [job EXCEPT !.left = @ \ {t}, !.got = {t}]
          \/ /\ job' = [job EXCEPT !.left = @ \ {t}, !.clean = FALSE]
             /\ UNCHANGED <<links, docs>>
    BY <1>4 DEF ReadFile
  <2>2. t \in Texts /\ t[2] \in Pages /\ job.todo \subseteq known /\ \A u \in job.left : u[2] \in Pages
    <3>1. JobSound(job, known, links) /\ At(job, "local", "pages")
      BY <2>0 DEF TypeInv, JobTypes, Doing, At
    <3> QED BY <1>1, <3>1 DEF JobSound, At
  <2>3. job' \in JobRecords /\ job'.plan = job.plan /\ job'.phase = "pages" /\ job'.todo = job.todo
        /\ job'.left \subseteq job.left /\ job'.got \subseteq job.got \cup {t}
    <3>1. CASE job' = [job EXCEPT !.left = @ \ {t}, !.got = {t}]
      BY <1>1, <2>0, <2>2, <3>1 DEF Doing, JobRecords
    <3>2. CASE job' = [job EXCEPT !.left = @ \ {t}, !.clean = FALSE]
      BY <1>1, <2>0, <3>2 DEF Doing, JobRecords
    <3> QED BY <2>1, <3>1, <3>2
  <2>4. Stays("local", "pages")
    BY <2>0, <2>3 DEF Stays, Doing
  <2>5. JobTypes'
    BY <1>1, <1>2, <2>2, <2>3, <2>4, StaysSound DEF StagesWith, Phases
  <2>6. StoreTypes'
    BY <1>2, <2>1, <2>2, StoredTypes DEF TypeInv, StoreTypes
  <2> QED BY <1>2, <2>5, <2>6 DEF TypeInv, IndexTypes, ConfigTypes, index
<1> QED BY <1>3, <1>4

\* Resetting the flags of some applications keeps the types of the index.
LEMMA UnflagTypes ==
  ASSUME TypeInv, NEW apps, Unflag(apps), UNCHANGED <<known, tables, vec, fts>>
  PROVE  IndexTypes'
<1>1. flag' \in [Models -> SUBSET known]
  BY DEF Unflag, TypeInv, IndexTypes
<1> QED BY <1>1 DEF TypeInv, IndexTypes

\* The pages of an application are through.
LEMMA DoneTypes ==
  ASSUME TypeInv, PagesDone \/ FileStored \/ FilesDone
  PROVE  TypeInv'
<1>1. job \in JobRecords /\ \A t \in job.left \cup job.got : t[1] \in known
  BY JobIs
<1>2. UNCHANGED <<store, tables, vec, fts, config, conn, saved>>
  BY DEF PagesDone, FileStored, FilesDone, index
<1>3. UNCHANGED <<known, links>>
  BY <1>2 DEF store
<1>4. IndexTypes'
  BY <1>2, <1>3, UnflagTypes DEF PagesDone, FileStored, FilesDone, index, TypeInv, IndexTypes
<1>5. PICK what, phase : what \in {"fetch", "local"} /\ phase \in {"next", "pages"} /\ Doing(what, "pages")
        /\ (what = "fetch" => phase = "next")
        /\ job' \in JobRecords /\ job'.plan = job.plan /\ job'.phase = phase /\ job'.todo = job.todo
        /\ job'.got = {} /\ job'.left \subseteq job.left
  <2>1. CASE PagesDone
    BY <1>1, <2>1 DEF PagesDone, JobRecords, Phases
  <2>2. CASE FileStored
    BY <1>1, <2>2 DEF FileStored, JobRecords, Doing
  <2>3. CASE FilesDone
    BY <1>1, <2>3 DEF FilesDone, JobRecords, Phases
  <2> QED BY <2>1, <2>2, <2>3
<1>7. Stays(what, phase)
  BY <1>5 DEF Stays, Doing
<1>8. job.todo \subseteq known /\ (what = "local" => \A t \in job.left : t[2] \in Pages)
  BY <1>5 DEF TypeInv, JobTypes, JobSound, Doing, At
<1>9. JobTypes'
  BY <1>1, <1>3, <1>5, <1>7, <1>8, StaysSound DEF StagesWith, Phases
<1> QED BY <1>2, <1>4, <1>9 DEF TypeInv, StoreTypes, ConfigTypes, store

-----------------------------------------------------------------------------
(* Which model, and what is open                                           *)

\* Whoever runs a stage reads, opens and embeds with a model of the list.
LEMMA ModelsAre ==
  ASSUME TypeInv
  PROVE  /\ Reached \in Models
         /\ InChild => Head(job.plan).model \in Models
         /\ Named \in Models /\ Embedder \in Models
<1>1. Reached \in Models
  BY DEF Reached, TypeInv, ConfigTypes
<1>2. InChild => Head(job.plan).model \in Models
  BY JobIs DEF InChild, GoodStage, Stages
<1> QED BY <1>1, <1>2 DEF Named, Embedder, TypeInv, ConfigTypes

\* What a connection can be.
Links == [to : Models, table : Models \cup {NoModel}]

\* The connections the code makes are of that type.
LEMMA LinksAre ==
  ASSUME TypeInv
  PROVE  /\ Connected \in Links /\ Link \in Links /\ Connected.to = Reached /\ Link.to = Embedder
         /\ conn \in Links /\ Handle \in Models \cup {NoModel}
         /\ \A m \in Models : Opened(m) \in Links
<1>1. \A m \in Models : Opened(m) \in Links /\ Opened(m).to = m
  BY DEF Opened, Links
<1>2. conn \in Links
  BY DEF TypeInv, ConfigTypes, Links
<1>3. Connected \in Links /\ Connected.to = Reached
  BY <1>1, <1>2, ModelsAre DEF Connected
<1>4. Link \in Links /\ Link.to = Embedder
  BY <1>1, <1>3, ModelsAre DEF Link, Embedder
<1>5. Handle \in Models \cup {NoModel}
  BY <1>2, <1>4 DEF Handle, Links
<1> QED BY <1>1, <1>2, <1>3, <1>4, <1>5

\* Keeping a connection keeps the types.
LEMMA KeepTypes ==
  ASSUME TypeInv, NEW l \in Links, Keep(l), UNCHANGED <<config, saved>>
  PROVE  ConfigTypes'
<1> QED BY DEF Keep, TypeInv, ConfigTypes, Links

\* What is saved are rows, and what is left of a table after a delete was in
\* it.
LEMMA RowsAre ==
  ASSUME TypeInv
  PROVE  Rows \subseteq AllRows /\ \A rows \in SUBSET AllRows : Others(rows) \subseteq rows
<1>1. Rows \subseteq AllRows
  BY JobIs DEF Rows, AllRows
<1> QED BY <1>1 DEF Others

-----------------------------------------------------------------------------
(* Embedding                                                               *)

\* runVectorize begins, checks its table and resets flags if there is none.
LEMMA VectorizeTypes ==
  ASSUME TypeInv, EnterVectorize
  PROVE  TypeInv'
<1>1. job \in JobRecords /\ \A t \in job.left \cup job.got : t[1] \in known
  BY JobIs
<1>2. PICK n : n = Named
  OBVIOUS
<1>3. n \in Models
  BY <1>2, ModelsAre
<1>4. /\ Doing("vectorize", "enter") /\ Keep(Link)
      /\ flag' \in {flag, [flag EXCEPT ![n] = {}]}
      /\ job' = [job EXCEPT !.phase = "next", !.col = n, !.todo = known \ flag'[n]]
      /\ UNCHANGED <<store, tables, vec, fts, config, saved>>
  BY <1>2 DEF EnterVectorize
<1>5. known \subseteq Apps /\ UNCHANGED <<known, links>>
  BY <1>4 DEF store, TypeInv, StoreTypes
<1>6. IndexTypes'
  BY <1>3, <1>4, <1>5 DEF TypeInv, IndexTypes
<1>7. ConfigTypes'
  BY <1>4, KeepTypes, LinksAre
<1>8. JobTypes'
  <2>1. PICK apps : apps = known \ flag'[n]
    OBVIOUS
  <2>2. apps \in SUBSET Apps /\ apps \subseteq known
    BY <1>5, <2>1
  <2>3. job' \in JobRecords /\ job'.plan = job.plan /\ job'.phase = "next" /\ job'.todo = apps
        /\ job'.left = job.left /\ job'.got = job.got /\ job'.col = n
    BY <1>1, <1>3, <1>4, <2>1, <2>2 DEF JobRecords, Phases
  <2>4. Stays("vectorize", "next")
    BY <1>4, <2>3 DEF Stays, Doing
  <2> QED BY <1>1, <1>3, <1>5, <2>2, <2>3, <2>4, StaysSound DEF StagesWith, Phases
<1> QED BY <1>4, <1>5, <1>6, <1>7, <1>8 DEF TypeInv, StoreTypes, store

\* A stage that embeds, and the phase it comes to.
LEMMA GoesOn ==
  ASSUME TypeInv, NEW what \in {"vectorize", "intents"}, job.plan # <<>>, Head(job.plan).do = what,
         NEW phase \in {"next", "embed", "save", "add", "unlist", "list", "flag"},
         phase = "flag" => what = "vectorize",
         job.phase # "enter", UNCHANGED <<known, links>>,
         job' \in JobRecords, job'.plan = job.plan, job'.phase = phase, job'.col = job.col,
         job'.todo = job.todo, \A t \in job'.left \cup job'.got : t[1] \in known
  PROVE  JobTypes'
<1>1. Stays(what, phase)
  BY DEF Stays
<1>2. job.todo \subseteq known
  BY JobIs DEF At
<1>3. what = "vectorize" => job.col \in Models
  BY DEF TypeInv, JobTypes, JobSound, At, JobRecords
<1> QED BY <1>1, <1>2, <1>3, StaysSound DEF StagesWith, Phases

\* An application is taken to be embedded.
LEMMA TakenTypes ==
  ASSUME TypeInv, NEW a \in Apps, VectorizeApp(a)
  PROVE  TypeInv'
<1>1. job \in JobRecords /\ \A t \in job.left \cup job.got : t[1] \in known
  BY JobIs
<1>2. Doing("vectorize", "next") /\ a \in job.todo /\ UNCHANGED <<store, index, config, conn, saved>>
  BY DEF VectorizeApp
<1>3. a \in known /\ job.todo \subseteq known
  BY <1>2, JobIs DEF Doing, At
<1>4. PICK ts : ts = Of(a, docs[a] \cup {Meta} \cup IF a \in keywords THEN {Intent} ELSE {})
  OBVIOUS
<1>5. ts \in SUBSET Texts /\ \A t \in ts : t[1] \in known
  <2>1. docs[a] \subseteq Pages
    BY DEF TypeInv, StoreTypes
  <2> QED BY <1>3, <1>4, <2>1 DEF Of, Texts, Items
<1>6. job' = [job EXCEPT !.phase = "embed", !.todo = job.todo \ {a}, !.left = ts]
  BY <1>4 DEF VectorizeApp
<1>7. job' \in JobRecords /\ job'.plan = job.plan /\ job'.phase = "embed" /\ job'.todo \subseteq known
      /\ job'.left = ts /\ job'.got = job.got /\ job'.col = job.col
  BY <1>1, <1>3, <1>5, <1>6 DEF JobRecords, Phases
<1>8. Stays("vectorize", "embed") /\ UNCHANGED <<known, links>>
  BY <1>2, <1>7 DEF Stays, Doing, store
<1>9. job.col \in Models
  BY <1>2 DEF TypeInv, JobTypes, JobSound, At, Doing, Phases
<1>10. JobTypes'
  BY <1>1, <1>5, <1>7, <1>8, <1>9, StaysSound DEF StagesWith, Phases
<1> QED BY <1>2, <1>10 DEF TypeInv, StoreTypes, IndexTypes, ConfigTypes, store, index

\* The phases that embed and save belong to runVectorize and
\* runVectorizeIntents.
LEMMA PhaseStage ==
  ASSUME TypeInv, job.phase \in {"embed", "save", "add", "unlist", "list", "flag"}
  PROVE  /\ job.plan # <<>> /\ Head(job.plan).do \in {"vectorize", "intents"}
         /\ job.phase = "flag" => Head(job.plan).do = "vectorize"
         /\ Head(job.plan).do = "vectorize" => job.col \in Models
<1>1. job.plan # <<>> /\ Head(job.plan).do \in StagesWith(job.phase)
  BY JobIs
<1>2. Head(job.plan).do \in {"vectorize", "intents"} /\ (job.phase = "flag" => Head(job.plan).do = "vectorize")
  BY <1>1 DEF StagesWith
<1>3. Head(job.plan).do = "vectorize" => job.col \in Models
  BY <1>1 DEF TypeInv, JobTypes, JobSound, At, JobRecords
<1> QED BY <1>1, <1>2, <1>3

\* A text is embedded or fails, an application is given up, or there is nothing
\* to save.
LEMMA EmbedTypes ==
  ASSUME TypeInv, Embed \/ Abandon \/ SaveNothing
  PROVE  TypeInv'
<1>1. job \in JobRecords /\ \A t \in job.left \cup job.got : t[1] \in known
  BY JobIs
<1>2. UNCHANGED <<store, index, config, conn, saved>> /\ job.phase \in {"embed", "save"}
  BY DEF Embed, Abandon, SaveNothing
<1>3. PICK what \in {"vectorize", "intents"} : job.plan # <<>> /\ Head(job.plan).do = what
  BY <1>2, PhaseStage
<1>4. UNCHANGED <<known, links>> /\ job.phase # "enter"
  BY <1>2 DEF store
<1>5. JobTypes'
  <2>1. CASE Embed
    <3>1. PICK t \in job.left, ok \in BOOLEAN :
            job' = [job EXCEPT !.left = @ \ {t}, !.clean = @ /\ ok,
                               !.got = IF ok THEN @ \cup {t} ELSE @,
                               !.by = IF ok THEN @ \cup {Embedder} ELSE @,
                               !.phase = IF job.left = {t} THEN "save" ELSE "embed"]
      BY <2>1 DEF Embed
    <3>2. PICK clean \in BOOLEAN : clean = (job.clean /\ ok)
      BY <1>1 DEF JobRecords
    <3>3. PICK by : by = IF ok THEN job.by \cup {Embedder} ELSE job.by
      OBVIOUS
    <3>4. PICK got : got = IF ok THEN job.got \cup {t} ELSE job.got
      OBVIOUS
    <3>5. PICK phase : phase = IF job.left = {t} THEN "save" ELSE "embed"
      OBVIOUS
    <3>6. job' = [job EXCEPT !.left = job.left \ {t}, !.clean = clean, !.got = got, !.by = by, !.phase = phase]
      BY <3>1, <3>2, <3>3, <3>4, <3>5
    <3>7. by \in SUBSET Models /\ got \in SUBSET Texts /\ got \subseteq job.got \cup {t}
          /\ phase \in {"save", "embed"}
      BY <1>1, <3>3, <3>4, <3>5, ModelsAre DEF JobRecords
    <3>8. job' \in JobRecords /\ job'.plan = job.plan /\ job'.phase = phase /\ job'.todo = job.todo
          /\ job'.left \subseteq job.left /\ job'.got = got /\ job'.col = job.col
      BY <1>1, <3>6, <3>7 DEF JobRecords, Phases
    <3> QED BY <1>1, <1>3, <1>4, <3>7, <3>8, GoesOn
  <2>2. CASE Abandon
    <3>1. CASE job' = Then(job)
      BY <1>3, <3>1, EndedTypes
    <3>2. CASE job' = [job EXCEPT !.phase = "save", !.left = {}]
      <4>1. job' \in JobRecords /\ job'.plan = job.plan /\ job'.phase = "save" /\ job'.todo = job.todo
            /\ job'.left = {} /\ job'.got = job.got /\ job'.col = job.col
        BY <1>1, <3>2 DEF JobRecords, Phases
      <4> QED BY <1>1, <1>3, <1>4, <4>1, GoesOn
    <3> QED BY <2>2, <3>1, <3>2 DEF Abandon
  <2>3. CASE SaveNothing
    <3>1. job' = [job EXCEPT !.phase = "next", !.left = {}, !.got = {}, !.by = {}]
      BY <2>3 DEF SaveNothing, NextApp
    <3>2. job' \in JobRecords /\ job'.plan = job.plan /\ job'.phase = "next" /\ job'.todo = job.todo
          /\ job'.left = {} /\ job'.got = {} /\ job'.col = job.col
      BY <1>1, <3>1 DEF JobRecords, Phases
    <3> QED BY <1>3, <1>4, <3>2, GoesOn
  <2> QED BY <2>1, <2>2, <2>3
<1> QED BY <1>2, <1>5 DEF TypeInv, StoreTypes, IndexTypes, ConfigTypes, store, index

-----------------------------------------------------------------------------
(* saveChunks                                                              *)

\* The job comes to another phase, and nothing else of it changes.
LEMMA PhaseTypes ==
  ASSUME TypeInv, NEW phase \in {"add", "unlist", "list", "flag"},
         job.phase \in {"embed", "save", "add", "unlist", "list", "flag"},
         phase = "flag" => Replacing, UNCHANGED <<known, links>>,
         job' = [job EXCEPT !.phase = phase]
  PROVE  JobTypes'
<1>1. job \in JobRecords /\ \A t \in job.left \cup job.got : t[1] \in known
  BY JobIs
<1>2. PICK what \in {"vectorize", "intents"} : job.plan # <<>> /\ Head(job.plan).do = what
  BY PhaseStage
<1>3. job' \in JobRecords /\ job'.plan = job.plan /\ job'.phase = phase /\ job'.todo = job.todo
      /\ job'.left = job.left /\ job'.got = job.got /\ job'.col = job.col
  BY <1>1 DEF JobRecords, Phases
<1> QED BY <1>1, <1>2, <1>3, GoesOn DEF Replacing

\* The loop comes to its next application.
LEMMA NextAppTypes ==
  ASSUME TypeInv, NextApp, UNCHANGED <<known, links>>,
         job.phase \in {"embed", "save", "add", "unlist", "list", "flag"}
  PROVE  JobTypes'
<1>1. job \in JobRecords
  BY JobIs
<1>2. PICK what \in {"vectorize", "intents"} : job.plan # <<>> /\ Head(job.plan).do = what
  BY PhaseStage
<1>3. job' \in JobRecords /\ job'.plan = job.plan /\ job'.phase = "next" /\ job'.todo = job.todo
      /\ job'.left = {} /\ job'.got = {} /\ job'.col = job.col
  BY <1>1 DEF NextApp, JobRecords, Phases
<1> QED BY <1>2, <1>3, GoesOn

\* An operation that throws is left with its answer.
LEMMA FailTypes ==
  ASSUME Fail
  PROVE  JobTypes'
<1> QED BY NoJobTypes DEF Fail

\* The table is created, rows are deleted from it and added.
LEMMA SaveTypes ==
  ASSUME TypeInv, CreateTable \/ DeleteRows \/ AddRows
  PROVE  TypeInv'
<1>1. UNCHANGED <<store, flag, fts, config, saved>>
  BY DEF CreateTable, DeleteRows, AddRows
<1>2. UNCHANGED <<known, links>>
  BY <1>1 DEF store
<1>3. Link \in Links /\ Rows \subseteq AllRows
  BY LinksAre, RowsAre
<1>4. CASE CreateTable
  <2>0. PICK m : m = Link.to
    OBVIOUS
  <2>1. m \in Models
    BY <1>3, <2>0 DEF Links
  <2>2. CASE Link.to \in tables
    <3>1. Fail /\ Keep(Link) /\ UNCHANGED <<tables, vec>>
      BY <1>4, <2>2 DEF CreateTable
    <3> QED BY <1>1, <1>2, <1>3, <3>1, FailTypes, KeepTypes DEF TypeInv, StoreTypes, IndexTypes, store
  <2>3. CASE Link.to \notin tables
    <3>1. /\ tables' = tables \cup {m} /\ vec' = [vec EXCEPT ![m] = Rows]
          /\ Keep([Link EXCEPT !.table = m]) /\ job' = [job EXCEPT !.phase = "unlist"]
          /\ job.phase = "save"
      BY <1>4, <2>0, <2>3 DEF CreateTable
    <3>2. [Link EXCEPT !.table = m] \in Links
      BY <1>3, <2>1 DEF Links
    <3>3. ConfigTypes'
      BY <1>1, <3>1, <3>2, KeepTypes
    <3>4. JobTypes'
      BY <1>2, <3>1, PhaseTypes
    <3>5. IndexTypes'
      BY <1>1, <1>2, <1>3, <2>1, <3>1 DEF TypeInv, IndexTypes
    <3> QED BY <1>1, <1>2, <3>3, <3>4, <3>5 DEF TypeInv, StoreTypes, store
  <2> QED BY <2>2, <2>3
<1>5. CASE DeleteRows
  <2>0. PICK m : m = Link.table
    OBVIOUS
  <2>1. m \in Models /\ Keep(Link) /\ vec' = [vec EXCEPT ![m] = Others(@)] /\ tables' = tables
        /\ job.phase = "save" /\ job' = [job EXCEPT !.phase = "add"]
    BY <1>3, <1>5, <2>0 DEF DeleteRows, Links
  <2>2. ConfigTypes'
    BY <1>1, <1>3, <2>1, KeepTypes
  <2>3. JobTypes'
    BY <1>2, <2>1, PhaseTypes
  <2>4. IndexTypes'
    <3>1. vec[m] \in SUBSET AllRows
      BY <2>1 DEF TypeInv, IndexTypes
    <3>2. Others(vec[m]) \subseteq AllRows
      BY <3>1, RowsAre
    <3> QED BY <1>1, <1>2, <2>1, <3>2 DEF TypeInv, IndexTypes
  <2> QED BY <1>1, <1>2, <2>2, <2>3, <2>4 DEF TypeInv, StoreTypes, store
<1>6. CASE AddRows
  <2>0. UNCHANGED <<tables, conn>> /\ job.phase = "add"
    BY <1>6 DEF AddRows
  <2>1. CASE Fail /\ UNCHANGED vec
    BY <1>1, <1>2, <2>0, <2>1, FailTypes DEF TypeInv, StoreTypes, IndexTypes, ConfigTypes, store
  <2>2. CASE ~(Fail /\ UNCHANGED vec)
    <3>0. PICK m : m = Handle
      OBVIOUS
    <3>1. m \in Models /\ vec' = [vec EXCEPT ![m] = @ \cup Rows] /\ job' = [job EXCEPT !.phase = "unlist"]
      BY <1>6, <2>2, <3>0, LinksAre DEF AddRows
    <3>2. JobTypes'
      BY <1>2, <2>0, <3>1, PhaseTypes
    <3>3. IndexTypes'
      BY <1>1, <1>2, <1>3, <2>0, <3>1 DEF TypeInv, IndexTypes
    <3> QED BY <1>1, <1>2, <2>0, <3>2, <3>3 DEF TypeInv, StoreTypes, ConfigTypes, store
  <2> QED BY <2>1, <2>2
<1> QED BY <1>4, <1>5, <1>6

\* chunks_fts is emptied of an application and filled, and the flag is set.
LEMMA ListTypes ==
  ASSUME TypeInv, Unlist \/ List \/ SetFlag
  PROVE  TypeInv'
<1>1. UNCHANGED <<store, tables, vec, config, conn, saved>>
  BY DEF Unlist, List, SetFlag
<1>2. UNCHANGED <<known, links>>
  BY <1>1 DEF store
<1>3. Rows \subseteq AllRows /\ Others(fts) \subseteq fts
  BY RowsAre DEF TypeInv, IndexTypes
<1>4. CASE Unlist
  <2>1. fts' = Others(fts) /\ flag' = flag /\ job.phase = "unlist" /\ job' = [job EXCEPT !.phase = "list"]
    BY <1>4 DEF Unlist
  <2>2. JobTypes'
    BY <1>2, <2>1, PhaseTypes
  <2> QED BY <1>1, <1>2, <1>3, <2>1, <2>2 DEF TypeInv, StoreTypes, IndexTypes, ConfigTypes, store
<1>5. CASE List
  <2>1. fts' = fts \cup Rows /\ flag' = flag /\ job.phase = "list"
        /\ IF Replacing THEN job' = [job EXCEPT !.phase = "flag"] ELSE NextApp
    BY <1>5 DEF List
  <2>2. JobTypes'
    BY <1>2, <2>1, PhaseTypes, NextAppTypes
  <2> QED BY <1>1, <1>2, <1>3, <2>1, <2>2 DEF TypeInv, StoreTypes, IndexTypes, ConfigTypes, store
<1>6. CASE SetFlag
  <2>1. flag' = [flag EXCEPT ![job.col] = @ \cup {t[1] : t \in job.got}] /\ fts' = fts /\ NextApp
        /\ job.phase = "flag"
    BY <1>6 DEF SetFlag
  <2>2. job.col \in Models
    BY <2>1, PhaseStage
  <2>3. {t[1] : t \in job.got} \subseteq known
    BY JobIs
  <2>4. IndexTypes'
    BY <1>1, <1>2, <2>1, <2>2, <2>3 DEF TypeInv, IndexTypes
  <2>5. JobTypes'
    BY <1>2, <2>1, NextAppTypes
  <2> QED BY <1>1, <1>2, <2>4, <2>5 DEF TypeInv, StoreTypes, ConfigTypes, store
<1> QED BY <1>4, <1>5, <1>6

-----------------------------------------------------------------------------
(* Intents, db.clear, the configuration                                    *)

\* runVectorizeIntents begins, and takes its keywords out of chunks_fts.
LEMMA IntentTypes ==
  ASSUME TypeInv, EnterIntents \/ UnlistIntents
  PROVE  TypeInv'
<1>1. job \in JobRecords /\ \A t \in job.left \cup job.got : t[1] \in known
  BY JobIs
<1>2. UNCHANGED <<store, flag, tables, config, saved>>
  BY DEF EnterIntents, UnlistIntents
<1>3. UNCHANGED <<known, links>>
  BY <1>2 DEF store
<1>4. CASE EnterIntents
  <2>1. fts' = fts /\ Doing("intents", "enter")
    BY <1>4 DEF EnterIntents
  <2>2. CASE job' = Then(job) /\ UNCHANGED <<vec, conn>>
    BY <1>2, <1>3, <2>1, <2>2, EndedTypes DEF Doing, TypeInv, StoreTypes, IndexTypes, ConfigTypes, store
  <2>3. CASE ~(job' = Then(job) /\ UNCHANGED <<vec, conn>>)
    <3>0. PICK m : m = Link.table
      OBVIOUS
    <3>1. /\ Keep(Link) /\ job' = [job EXCEPT !.phase = "unintend"]
          /\ vec' = IF m = NoModel THEN vec ELSE [vec EXCEPT ![m] = {r \in @ : r[2] # Intent}]
      BY <1>4, <2>3, <3>0 DEF EnterIntents
    <3>2. m \in Models \cup {NoModel}
      BY <3>0, LinksAre DEF Links
    <3>3. IndexTypes'
      <4>1. CASE m = NoModel
        BY <1>2, <1>3, <2>1, <3>1, <4>1 DEF TypeInv, IndexTypes
      <4>2. CASE m # NoModel
        <5>1. {r \in vec[m] : r[2] # Intent} \subseteq AllRows
          BY <3>2, <4>2 DEF TypeInv, IndexTypes
        <5> QED BY <1>2, <1>3, <2>1, <3>1, <3>2, <4>2, <5>1 DEF TypeInv, IndexTypes
      <4> QED BY <4>1, <4>2
    <3>4. ConfigTypes'
      BY <1>2, <3>1, KeepTypes, LinksAre
    <3>5. job' \in JobRecords /\ job'.plan = job.plan /\ job'.phase = "unintend" /\ job'.todo = job.todo
          /\ job'.left = job.left /\ job'.got = job.got /\ job'.col = job.col
      BY <1>1, <3>1 DEF JobRecords, Phases
    <3>6. Stays("intents", "unintend") /\ job.todo \subseteq known
      BY <2>1, <3>5, JobIs DEF Stays, Doing, At
    <3>7. JobTypes'
      BY <1>1, <1>3, <3>5, <3>6, StaysSound DEF StagesWith, Phases
    <3> QED BY <1>2, <1>3, <3>3, <3>4, <3>7 DEF TypeInv, StoreTypes, store
  <2> QED BY <2>2, <2>3
<1>5. CASE UnlistIntents
  <2>0. PICK ts : ts = keywords \X {Intent}
    OBVIOUS
  <2>1. /\ fts' = {r \in fts : r[2] # Intent} /\ UNCHANGED <<vec, conn>> /\ Doing("intents", "unintend")
        /\ job' = [job EXCEPT !.phase = "embed", !.left = ts]
    BY <1>5, <2>0 DEF UnlistIntents
  <2>2. ts \in SUBSET Texts /\ \A t \in ts : t[1] \in known
    BY <2>0 DEF Texts, Items, TypeInv, StoreTypes
  <2>3. job' \in JobRecords /\ job'.plan = job.plan /\ job'.phase = "embed" /\ job'.todo = job.todo
        /\ job'.left = ts /\ job'.got = job.got /\ job'.col = job.col
    BY <1>1, <2>1, <2>2 DEF JobRecords, Phases
  <2>4. JobTypes'
    BY <1>1, <1>3, <2>1, <2>2, <2>3, GoesOn DEF Doing
  <2>5. IndexTypes'
    BY <1>2, <1>3, <2>1 DEF TypeInv, IndexTypes
  <2> QED BY <1>2, <1>3, <2>1, <2>4, <2>5 DEF TypeInv, StoreTypes, ConfigTypes, store
<1> QED BY <1>4, <1>5

\* Taking rows out of one vector table keeps the types.
LEMMA PurgeTypes ==
  ASSUME TypeInv, NEW m \in Models, NEW kept \in SUBSET vec[m]
  PROVE  [vec EXCEPT ![m] = kept] \in [Models -> SUBSET AllRows]
<1> QED BY DEF TypeInv, IndexTypes

\* Every statement of db.clear keeps the types.
LEMMA ClearTypes ==
  ASSUME TypeInv, \/ ClearApps \/ ClearLinks \/ ClearDocs \/ DropTable \/ ClearFts
                  \/ ClearVectors \/ UnflagAffected \/ UnflagCurrent \/ ForgetKeywords
  PROVE  TypeInv'
<1>0. UNCHANGED <<config, saved>>
  BY DEF ClearApps, ClearLinks, ClearDocs, DropTable, ClearFts, ClearVectors, UnflagAffected,
         UnflagCurrent, ForgetKeywords
<1>1. JobTypes'
  <2>1. job' = Then(job) /\ job.plan # <<>>
    BY DEF ClearApps, ClearLinks, ClearDocs, DropTable, ClearFts, ClearVectors, UnflagAffected,
           UnflagCurrent, ForgetKeywords, Statement, Doing
  <2> QED BY <2>1, EndedTypes
<1>2. ConfigTypes'
  <2>1. conn' \in Links
    <3>1. CASE DropTable
      <4>1. conn' \in {[Connected EXCEPT !.table = NoModel], Connected}
        BY <3>1 DEF DropTable
      <4> QED BY <4>1, LinksAre DEF Links
    <3>2. CASE ClearVectors
      BY <3>2, LinksAre DEF ClearVectors
    <3>3. CASE UNCHANGED conn
      BY <3>3, LinksAre
    <3> QED BY <3>1, <3>2, <3>3 DEF ClearApps, ClearLinks, ClearDocs, ClearFts, UnflagAffected,
                 UnflagCurrent, ForgetKeywords
  <2> QED BY <1>0, <2>1 DEF TypeInv, ConfigTypes, Links
<1>3. CASE ClearApps
  <2>1. StoreTypes' /\ IndexTypes'
    BY <1>3 DEF ClearApps, TypeInv, StoreTypes, IndexTypes
  <2> QED BY <1>1, <1>2, <2>1 DEF TypeInv
<1>4. CASE ClearLinks \/ ClearDocs
  <2>1. UNCHANGED <<known, toc, keywords, index>>
        /\ docs' = [a \in Apps |-> docs[a] \ Purged]
        /\ (links' = links \/ links' = [a \in Apps |-> links[a] \ Purged])
    BY <1>4 DEF ClearLinks, ClearDocs
  <2>2. StoreTypes'
    BY <2>1 DEF TypeInv, StoreTypes
  <2> QED BY <1>1, <1>2, <2>1, <2>2 DEF TypeInv, IndexTypes, index
<1>5. CASE DropTable \/ ClearFts \/ ClearVectors
  <2>1. UNCHANGED <<store, flag>> /\ tables' \subseteq tables /\ fts' \subseteq fts
    BY <1>5 DEF DropTable, ClearFts, ClearVectors
  <2>2. vec' \in [Models -> SUBSET AllRows]
    <3>1. CASE DropTable
      <4>1. PICK m : m = Connected.to
        OBVIOUS
      <4>2. m \in Models /\ (vec' = vec \/ vec' = [vec EXCEPT ![m] = {}])
        BY <3>1, <4>1, LinksAre DEF DropTable, Links
      <4> QED BY <4>2, PurgeTypes DEF TypeInv, IndexTypes
    <3>2. CASE ClearVectors
      <4>1. PICK m : m = Connected.table
        OBVIOUS
      <4>2. m \in Models \cup {NoModel}
            /\ vec' = IF m = NoModel THEN vec ELSE [vec EXCEPT ![m] = {r \in @ : r[2] \notin Purged}]
        BY <3>2, <4>1, LinksAre DEF ClearVectors, Links
      <4>3. CASE m = NoModel
        BY <4>2, <4>3 DEF TypeInv, IndexTypes
      <4>4. CASE m # NoModel
        <5>1. PICK kept : kept = {r \in vec[m] : r[2] \notin Purged}
          OBVIOUS
        <5>2. kept \in SUBSET vec[m] /\ vec' = [vec EXCEPT ![m] = kept]
          BY <4>2, <4>4, <5>1
        <5> QED BY <4>2, <4>4, <5>2, PurgeTypes
      <4> QED BY <4>3, <4>4
    <3>3. CASE ClearFts
      BY <3>3 DEF ClearFts, TypeInv, IndexTypes
    <3> QED BY <1>5, <3>1, <3>2, <3>3
  <2>3. StoreTypes' /\ IndexTypes'
    BY <2>1, <2>2 DEF TypeInv, StoreTypes, IndexTypes, store
  <2> QED BY <1>1, <1>2, <2>3 DEF TypeInv
<1>6. CASE UnflagAffected \/ UnflagCurrent
  <2>1. UNCHANGED <<store, tables, vec, fts>>
    BY <1>6 DEF UnflagAffected, UnflagCurrent
  <2>2. flag' \in [Models -> SUBSET known]
    BY <1>6 DEF UnflagAffected, Unflag, UnflagCurrent, TypeInv, IndexTypes
  <2> QED BY <1>1, <1>2, <2>1, <2>2 DEF TypeInv, StoreTypes, IndexTypes, store
<1>7. CASE ForgetKeywords
  <2>1. StoreTypes' /\ IndexTypes'
    BY <1>7 DEF ForgetKeywords, TypeInv, StoreTypes, IndexTypes, index
  <2> QED BY <1>1, <1>2, <2>1 DEF TypeInv
<1> QED BY <1>3, <1>4, <1>5, <1>6, <1>7

\* Switching the model, reloading, benchmarks and a crash keep the types.
LEMMA ConfigStepTypes ==
  ASSUME TypeInv, \/ Reload \/ (\E m \in Models : UpdateModels(m)) \/ Crash
                  \/ \E r \in Runs : TestsBegin(r) \/ TestsEnd(r) \/ \E m \in Models : TestsMode(r, m)
  PROVE  TypeInv'
<1>1. UNCHANGED <<store, index>>
  BY DEF Reload, UpdateModels, Crash, TestsBegin, TestsEnd, TestsMode
<1>2. JobTypes'
  <2>1. CASE UNCHANGED job
    BY <1>1, <2>1 DEF TypeInv, JobTypes, store
  <2>2. CASE Crash
    BY <2>2, NoJobTypes DEF Crash
  <2> QED BY <2>1, <2>2 DEF Reload, UpdateModels, TestsBegin, TestsEnd, TestsMode
<1>3. ConfigTypes'
  <2> USE IndexAssumption DEF TypeInv, ConfigTypes
  <2>1. CASE Reload
    BY <2>1 DEF Reload
  <2>2. ASSUME NEW m \in Models, UpdateModels(m)
        PROVE  ConfigTypes'
    BY <2>2 DEF UpdateModels
  <2>3. CASE Crash
    <3>1. Opened(config.file) \in Links
      BY LinksAre
    <3> QED BY <2>3, <3>1 DEF Crash, Links
  <2>4. ASSUME NEW r \in Runs, TestsBegin(r)
        PROVE  ConfigTypes'
    <3>1. Initialised \in Links
      BY ModelsAre DEF Initialised, Links
    <3> QED BY <2>4, <3>1 DEF TestsBegin, Links
  <2>5. ASSUME NEW r \in Runs, TestsEnd(r)
        PROVE  ConfigTypes'
    BY <2>5 DEF TestsEnd
  <2>6. ASSUME NEW r \in Runs, NEW m \in Models, TestsMode(r, m)
        PROVE  ConfigTypes'
    <3>1. conn' \in {conn, Opened(m), Opened(config.file)}
      BY <2>6 DEF TestsMode
    <3>2. conn' \in Links
      BY <3>1, LinksAre
    <3> QED BY <2>6, <3>2 DEF TestsMode, Links
  <2> QED BY <2>1, <2>2, <2>3, <2>4, <2>5, <2>6
<1> QED BY <1>1, <1>2, <1>3 DEF TypeInv, StoreTypes, IndexTypes, store, index

\* Every step keeps the types.
LEMMA TypesKeep ==
  ASSUME TypeInv, [Next]_vars
  PROVE  TypeInv'
<1>1. CASE Operation
  <2>1. CASE \E a \in Apps : \/ ScanApp(a) \/ Keyword(a) \/ FetchApp(a) \/ AskToc(a)
                             \/ TocArrives(a) \/ LocalApp(a) \/ VectorizeApp(a)
    BY <2>1, ScanTypes, TakeTypes, TocTypes, TakenTypes
  <2>2. CASE ChooseProcess \/ EndStage \/ KillChild \/ EnterScan \/ EnterFetch \/ EnterLocal \/ EnterKeywords
    BY <2>2, JobMovesTypes, EnterTypes
  <2>3. CASE EnterVectorize \/ EnterIntents \/ UnlistIntents
    BY <2>3, VectorizeTypes, IntentTypes
  <2>4. CASE FetchPage \/ PagesDone \/ ReadFile \/ FileStored \/ FilesDone
    BY <2>4, PageTypes, DoneTypes
  <2>5. CASE Embed \/ Abandon \/ SaveNothing \/ CreateTable \/ DeleteRows \/ AddRows \/ Unlist \/ List \/ SetFlag
    BY <2>5, EmbedTypes, SaveTypes, ListTypes
  <2>6. CASE \/ ClearApps \/ ClearLinks \/ ClearDocs \/ DropTable \/ ClearFts
             \/ ClearVectors \/ UnflagAffected \/ UnflagCurrent \/ ForgetKeywords
    BY <2>6, ClearTypes
  <2> QED BY <1>1, <2>1, <2>2, <2>3, <2>4, <2>5, <2>6 DEF Operation
<1>2. CASE Client
  BY <1>2, JobMovesTypes, ConfigStepTypes DEF Client
<1>3. CASE Crash
  BY <1>3, ConfigStepTypes
<1>4. CASE UNCHANGED vars
  BY <1>4 DEF vars, TypeInv, StoreTypes, IndexTypes, ConfigTypes, JobTypes
<1> QED BY <1>1, <1>2, <1>3, <1>4 DEF Next

\* The types of the pipeline and of its stores, among them that only known
\* applications have flags, keywords and tables of contents, and that every
\* document has its link, whatever is cancelled, cleared, killed or crashes.
THEOREM IndexTypeCorrect == Spec => []TypeOK
<1> QED BY TypesBegin, TypesKeep, TypeInvSays, PTL DEF Spec

-----------------------------------------------------------------------------
(* The configuration                                                       *)

\* Unless clients of the configuration come while something else is in flight,
\* a benchmark runs alone, and puts back what is in the file.
ConfigInv ==
  /\ Testing => job.phase = "idle"
  /\ ~Testing => config.model = config.file
  /\ \A r \in Runs : saved[r] # NoModel => saved[r] = config.file

\* Every step keeps what the configuration and its benchmark agree on.
LEMMA ConfigKeeps ==
  ASSUME TypeInv, ConfigInv, [Next]_vars, "busy" \notin Env
  PROVE  ConfigInv'
<1> USE IndexAssumption
<1>1. ASSUME UNCHANGED <<config, saved>>, Testing => job'.phase = "idle"
      PROVE  ConfigInv'
  BY <1>1 DEF ConfigInv, Testing
<1>2. CASE Operation
  <2>1. job.phase # "idle"
    <3>1. job.phase = "idle" => job.plan = <<>>
      BY JobIs
    <3> QED
      BY <1>2, <3>1 DEF Operation, ChooseProcess, EndStage, KillChild, EnterScan, EnterFetch, EnterLocal,
         EnterKeywords, EnterVectorize, EnterIntents, ScanApp, Keyword, FetchApp, AskToc, TocArrives,
         LocalApp, VectorizeApp, FetchPage, PagesDone, ReadFile, FileStored, FilesDone, Embed, Abandon,
         SaveNothing, CreateTable, DeleteRows, AddRows, Unlist, List, SetFlag, UnlistIntents, ClearApps,
         ClearLinks, ClearDocs, DropTable, ClearFts, ClearVectors, UnflagAffected, UnflagCurrent,
         ForgetKeywords, Statement, Doing, InChild
  <2>2. UNCHANGED <<config, saved>>
    BY <1>2 DEF Operation, ChooseProcess, EndStage, KillChild, EnterScan, EnterFetch, EnterLocal,
         EnterKeywords, EnterVectorize, EnterIntents, ScanApp, Keyword, FetchApp, AskToc, TocArrives,
         LocalApp, VectorizeApp, FetchPage, PagesDone, ReadFile, FileStored, FilesDone, Embed, Abandon,
         SaveNothing, CreateTable, DeleteRows, AddRows, Unlist, List, SetFlag, UnlistIntents, ClearApps,
         ClearLinks, ClearDocs, DropTable, ClearFts, ClearVectors, UnflagAffected, UnflagCurrent,
         ForgetKeywords
  <2> QED BY <1>1, <2>1, <2>2 DEF ConfigInv
<1>3. CASE Sync \/ Single \/ Clear
  <2>1. ~Testing /\ UNCHANGED <<config, saved>>
    BY <1>3 DEF Sync, Single, Clear, Start
  <2> QED BY <1>1, <2>1
<1>4. CASE Answer \/ Cancel
  <2>1. UNCHANGED <<config, saved>> /\ job.phase # "idle"
    BY <1>4, JobIs DEF Answer, Cancel, Cancellable
  <2> QED BY <1>1, <2>1 DEF ConfigInv
<1>5. CASE Reload \/ \E m \in Models : UpdateModels(m)
  <2>1. ~Testing /\ UNCHANGED <<saved, job>>
    BY <1>5 DEF Reload, UpdateModels, Quiet
  <2>2. config'.model = config'.file
    <3>1. CASE Reload
      BY <3>1 DEF Reload, TypeInv, ConfigTypes
    <3>2. ASSUME NEW m \in Models, UpdateModels(m)
          PROVE  config'.model = config'.file
      BY <3>2 DEF UpdateModels
    <3> QED BY <1>5, <3>1, <3>2
  <2> QED BY <2>1, <2>2 DEF ConfigInv, Testing
<1>6. ASSUME NEW r \in Runs, TestsBegin(r)
      PROVE  ConfigInv'
  <2>1. ~Testing /\ job.phase = "idle" /\ saved' = [saved EXCEPT ![r] = config.model] /\ UNCHANGED <<config, job>>
    BY <1>6 DEF TestsBegin, Quiet
  <2>2. config.model = config.file
    BY <2>1 DEF ConfigInv
  <2>3. saved' = [saved EXCEPT ![r] = config.file] /\ config.file \in Models /\ saved \in [Runs -> Models \cup {NoModel}]
    BY <2>1, <2>2 DEF TypeInv, ConfigTypes
  <2> QED BY <2>1, <2>2, <2>3 DEF ConfigInv, Testing
<1>7. ASSUME NEW r \in Runs, NEW m \in Models, TestsMode(r, m)
      PROVE  ConfigInv'
  <2>1. UNCHANGED <<saved, job>> /\ saved[r] # NoModel /\ config'.file = config.file
    BY <1>7 DEF TestsMode, TypeInv, ConfigTypes
  <2> QED BY <2>1 DEF ConfigInv, Testing
<1>8. ASSUME NEW r \in Runs, TestsEnd(r)
      PROVE  ConfigInv'
  <2>1. /\ saved[r] # NoModel /\ saved[r] = config.file /\ UNCHANGED job /\ job.phase = "idle"
        /\ config'.model = saved[r] /\ config'.file = config.file
        /\ saved' = [saved EXCEPT ![r] = NoModel]
    BY <1>8 DEF TestsEnd, ConfigInv, Testing, TypeInv, ConfigTypes
  <2>2. saved \in [Runs -> Models \cup {NoModel}]
    BY DEF TypeInv, ConfigTypes
  <2> QED BY <2>1, <2>2 DEF ConfigInv
<1>9. CASE Crash
  <2>1. saved' = [r \in Runs |-> NoModel] /\ config'.model = config'.file
    BY <1>9 DEF Crash, TypeInv, ConfigTypes
  <2> QED BY <2>1 DEF ConfigInv, Testing
<1>10. CASE UNCHANGED vars
  BY <1>10 DEF vars, ConfigInv, Testing
<1> QED BY <1>2, <1>3, <1>4, <1>5, <1>6, <1>7, <1>8, <1>9, <1>10 DEF Next, Client

\* No benchmark has begun.
LEMMA ConfigBegins == Init => ConfigInv
<1> QED BY DEF Init, ConfigInv, Testing

\* The two hold of the program as long as nobody else switches the model.
LEMMA ConfigCorrect ==
  ASSUME "busy" \notin Env
  PROVE  Spec => [](TypeInv /\ ConfigInv)
<1>1. Init => TypeInv /\ ConfigInv
  BY TypesBegin, ConfigBegins
<1>2. TypeInv /\ ConfigInv /\ [Next]_vars => (TypeInv /\ ConfigInv)'
  BY TypesKeep, ConfigKeeps
<1> QED BY <1>1, <1>2, PTL DEF Spec

\* After a benchmark the configuration names the model it named before, in the
\* file and in memory, and whoever asks for it is answered with that model, as
\* long as nobody else switches it meanwhile.
THEOREM RestoredIsKept ==
  ASSUME "busy" \notin Env
  PROVE  Spec => []ConfigRestored
<1>1. TypeInv /\ ConfigInv => ConfigRestored
  BY DEF ConfigInv, ConfigRestored, Reached
<1> QED BY ConfigCorrect, <1>1, PTL

-----------------------------------------------------------------------------
(* The work of an operation                                                *)

\* A connection has no table, or the one of its model.
Attached(l, existing) == l.table \in {NoModel, l.to} /\ (l.table # NoModel => l.table \in existing)

\* The connection has the table of its model, and a table that is not there has
\* no rows.
ConnInv == Attached(conn, tables) /\ \A m \in Models \ tables : vec[m] = {}

\* Phases that hold nothing, that hold embedded texts, that hold some for sure.
Loose == {"idle", "enter", "next", "toc", "unintend", "answer"}

\* The phases at work on the texts of an application.
Embedding == {"embed", "save", "add", "unlist", "list", "flag"}

\* The phases of saveChunks after its delete.
Saving == {"add", "unlist", "list", "flag"}

\* A job is past the first step of a stage.
In(j, what) == j.plan # <<>> /\ Head(j.plan).do = what /\ j.phase # "enter"

\* A job whose texts are embedded by one model, e.
WorkSound(j, e) ==
  /\ j.phase \in Loose => j.got = {}
  /\ j.phase = "enter" => j.left = {}
  /\ j.phase \in Loose \cup {"pages"} => j.by = {}
  /\ j.phase \in Embedding => j.by \subseteq {e} /\ (j.got # {} => j.by = {e})
  /\ j.phase \in Saving => j.got # {}
  /\ In(j, "vectorize") => j.col = e
  /\ In(j, "intents") => \A t \in j.left \cup j.got : t[2] = Intent

\* No keywords are among these rows.
NoIntents(rows) == \A r \in rows : r[2] # Intent

\* There is room for what is to be saved.
RoomInv ==
  /\ job.phase = "add" => Handle = Embedder /\ Rows \cap vec[Embedder] = {}
  /\ job.phase \in Saving => Embedder \in tables
  /\ job.phase = "list" => Rows \cap fts = {}
  /\ In(job, "intents") /\ job.phase \in {"unintend", "embed", "save"} /\ Link.table # NoModel
       => NoIntents(vec[Link.table])
  /\ In(job, "intents") /\ job.phase \in {"embed", "save", "add", "unlist", "list"} => NoIntents(fts)
  /\ In(job, "vectorize") /\ flag[Embedder] # {} => Embedder \in tables

\* What an operation relies on of its connection, its texts and its table;
\* inductive with TypeInv and ConfigInv.
WorkInv == ConnInv /\ WorkSound(job, Embedder) /\ RoomInv

\* Every connection the code makes has its own table or none.
LEMMA AttachedAre ==
  ASSUME TypeInv, ConnInv
  PROVE  /\ Attached(conn, tables) /\ Attached(Connected, tables) /\ Attached(Link, tables)
         /\ \A m \in Models : Attached(Opened(m), tables)
<1>1. \A m : Attached(Opened(m), tables)
  BY DEF Attached, Opened
<1> QED BY <1>1 DEF ConnInv, Connected, Link

\* While the plan stays, the process and its model do.
LEMMA SameProcess ==
  ASSUME job'.plan = job.plan, UNCHANGED config
  PROVE  /\ Embedder' = Embedder /\ InChild' = InChild /\ Named' = Named /\ Reached' = Reached
         /\ Replacing' = Replacing
<1> QED BY DEF Embedder, InChild, Named, Reached, Replacing

\* While the connection stays, too, the table in hand does.
LEMMA SameLink ==
  ASSUME job'.plan = job.plan, UNCHANGED <<config, conn, tables>>
  PROVE  Link' = Link /\ Handle' = Handle
<1>1. Link' = Link
  BY SameProcess DEF Link, Connected, Opened, InChild
<1> QED BY <1>1, SameProcess DEF Handle

\* The connection after ensureLanceDbConnected is found again as it was left.
LEMMA KeptLink ==
  ASSUME TypeInv, job'.plan = job.plan, UNCHANGED <<config, tables>>, Keep(Link)
  PROVE  Link' = Link /\ Handle' = Link.table
<1>1. CASE InChild
  BY <1>1, SameProcess DEF Keep, Link, Opened, InChild, Handle
<1>2. CASE ~InChild
  <2>1. conn' = Link /\ Link.to = Reached /\ Reached' = Reached /\ ~InChild'
    BY <1>2, LinksAre, SameProcess DEF Keep, Embedder
  <2> QED BY <2>1 DEF Link, Connected, Handle
<1> QED BY <1>1, <1>2

\* What is to be saved depends on what was got only.
LEMMA SameRows ==
  ASSUME job'.got = job.got
  PROVE  Rows' = Rows
<1> QED BY DEF Rows

\* An operation leaves the types of connection it finds.
LEMMA KeepConn ==
  ASSUME TypeInv, ConnInv, NEW l, Attached(l, tables'), Keep(l), tables \subseteq tables',
         \A m \in Models \ tables' : vec'[m] = {}
  PROVE  ConnInv'
<1>1. Attached(conn', tables')
  BY DEF Keep, ConnInv, Attached
<1> QED BY <1>1 DEF ConnInv

-----------------------------------------------------------------------------
(* Jobs that hold nothing                                                  *)

\* A job that holds nothing needs nothing.
LEMMA BareWork ==
  ASSUME job'.phase \in {"enter", "answer", "idle"}, job'.phase = "enter" \/ job'.plan = <<>>,
         job'.left = {}, job'.got = {}, job'.by = {}
  PROVE  WorkSound(job', Embedder') /\ RoomInv'
<1>1. WorkSound(job', Embedder')
  BY DEF WorkSound, Embedding, Saving, In
<1>2. RoomInv'
  BY DEF RoomInv, Embedding, Saving, In
<1> QED BY <1>1, <1>2

\* At the end of a stage nothing is in hand.
LEMMA ThenWork ==
  ASSUME TypeInv, job.plan # <<>>, job' = Then(job)
  PROVE  WorkSound(job', Embedder') /\ RoomInv'
<1>1. job \in JobRecords /\ GoodPlan(job.plan)
  BY JobIs
<1>2. JobSound(job', known, links) /\ job'.phase \in {"enter", "answer"}
      /\ job'.left = {} /\ job'.got = {} /\ job'.by = {}
  BY <1>1, ThenSound
<1>3. job'.phase = "enter" \/ job'.plan = <<>>
  BY <1>2 DEF JobSound
<1> QED BY <1>2, <1>3, BareWork

\* Nor when no operation is under way.
LEMMA NoWork ==
  ASSUME job' = Idle \/ job' = [Idle EXCEPT !.phase = "answer"]
  PROVE  WorkSound(job', Embedder') /\ RoomInv'
<1>1. job'.phase \in {"idle", "answer"} /\ job'.plan = <<>> /\ job'.left = {} /\ job'.got = {} /\ job'.by = {}
  BY DEF Idle
<1> QED BY <1>1, BareWork

\* Stages that embed nothing.
LEMMA OtherWork ==
  ASSUME job'.plan # <<>>, Head(job'.plan).do \in {"scan", "fetch", "local", "keywords"},
         job'.phase \in {"next", "toc", "pages"}, job'.by = {},
         job'.phase # "pages" => job'.got = {}
  PROVE  WorkSound(job', Embedder') /\ RoomInv'
<1>1. WorkSound(job', Embedder')
  BY DEF WorkSound, Embedding, Saving, In, Loose
<1>2. RoomInv'
  BY DEF RoomInv, Embedding, Saving, In
<1> QED BY <1>1, <1>2

\* Steps that touch neither connection nor vectors keep what ConnInv says.
LEMMA SameConn ==
  ASSUME ConnInv, UNCHANGED <<conn, tables, vec>>
  PROVE  ConnInv'
<1> QED BY DEF ConnInv

\* Beginning, choosing a process, cancelling and ending leave nothing to save.
LEMMA JobMovesWork ==
  ASSUME TypeInv, WorkInv, \/ EndStage \/ Answer \/ Cancel \/ KillChild \/ ChooseProcess
                           \/ Sync \/ Single \/ Clear
  PROVE  WorkInv'
<1>1. UNCHANGED <<store, index, config, conn, saved>>
  BY DEF EndStage, Answer, Cancel, KillChild, ChooseProcess, Sync, Single, Clear, Start
<1>2. ConnInv'
  BY <1>1, SameConn DEF WorkInv, index
<1>3. WorkSound(job', Embedder') /\ RoomInv'
  <2>1. CASE EndStage
    <3>1. job.plan # <<>>
      BY <2>1, JobIs DEF EndStage
    <3> QED BY <2>1, <3>1, ThenWork DEF EndStage
  <2>2. CASE Answer
    BY <2>2, NoWork DEF Answer
  <2>3. CASE Cancel
    <3>1. /\ job'.plan = job.plan /\ job'.phase = job.phase /\ job'.left = job.left /\ job'.got = job.got
          /\ job'.by = job.by /\ job'.col = job.col
      BY <2>3, JobIs DEF Cancel, JobRecords
    <3>2. Embedder' = Embedder /\ Link' = Link /\ Handle' = Handle /\ Rows' = Rows
      BY <1>1, <3>1, SameProcess, SameLink, SameRows DEF index
    <3>3. WorkSound(job', Embedder')
      BY <3>1, <3>2 DEF WorkInv, WorkSound, In
    <3>4. RoomInv'
      BY <1>1, <3>1, <3>2 DEF WorkInv, RoomInv, In, index
    <3> QED BY <3>3, <3>4
  <2>4. CASE KillChild
    BY <2>4, ThenWork DEF KillChild, InChild
  <2>5. CASE ChooseProcess
    <3>1. job.phase = "enter" /\ \E plan : job' = [job EXCEPT !.plan = plan]
      BY <2>5 DEF ChooseProcess, Doing
    <3>2. job'.phase = "enter" /\ job'.left = job.left /\ job'.got = job.got /\ job'.by = job.by
      BY <3>1, JobIs DEF JobRecords
    <3>3. job.left = {} /\ job.got = {} /\ job.by = {}
      BY <3>1 DEF WorkInv, WorkSound, Loose
    <3> QED BY <3>2, <3>3, BareWork
  <2>6. CASE Sync \/ Single \/ Clear
    <3>1. PICK plan, clean : Start(plan, clean)
      BY <2>6 DEF Sync, Single, Clear
    <3>2. job'.phase = "enter" /\ job'.left = {} /\ job'.got = {} /\ job'.by = {}
      BY <3>1 DEF Start, Idle
    <3> QED BY <3>2, BareWork
  <2> QED BY <2>1, <2>2, <2>3, <2>4, <2>5, <2>6
<1> QED BY <1>2, <1>3 DEF WorkInv

\* A table of contents that is stored.
LEMMA TocStored ==
  ASSUME NEW a, TocArrives(a), job' # Then(job)
  PROVE  \E todo, left, got : job' = [job EXCEPT !.phase = "pages", !.todo = todo, !.left = left, !.got = got]
<1>1. job' = [job EXCEPT !.phase = "pages", !.todo = @ \ {a},
                         !.left = Pending(a, links'[a]), !.got = Pending(a, links'[a])]
  BY DEF TocArrives
<1>2. job' = [job EXCEPT !.phase = "pages", !.todo = job.todo \ {a},
                         !.left = Pending(a, links'[a]), !.got = Pending(a, links'[a])]
  BY <1>1
<1> QED BY <1>2

\* Scanning, fetching, reading files and asking for keywords embed nothing.
LEMMA FetchWork ==
  ASSUME TypeInv, WorkInv,
         \/ EnterScan \/ EnterFetch \/ EnterLocal \/ EnterKeywords
         \/ \E a \in Apps : ScanApp(a) \/ Keyword(a) \/ FetchApp(a) \/ AskToc(a) \/ TocArrives(a) \/ LocalApp(a)
         \/ FetchPage \/ PagesDone \/ ReadFile \/ FileStored \/ FilesDone
  PROVE  WorkInv'
<1> USE DEF EnterScan, EnterFetch, EnterLocal, EnterKeywords, ScanApp, Keyword, FetchApp, AskToc, TocArrives,
            LocalApp, FetchPage, PagesDone, ReadFile, FileStored, FilesDone, Loop
<1>1. UNCHANGED <<tables, vec, fts, config, conn, saved>>
  BY DEF index
<1>2. ConnInv'
  BY <1>1, SameConn DEF WorkInv
<1>3. job \in JobRecords /\ job.plan # <<>> /\ Head(job.plan).do \in {"scan", "fetch", "local", "keywords"}
      /\ job.phase \in {"enter", "next", "toc", "pages"}
  BY JobIs DEF Doing
<1>4. job.by = {} /\ (job.phase # "pages" => job.got = {})
  BY <1>3 DEF WorkInv, WorkSound, Loose
<1>5. CASE job' = Then(job)
  BY <1>2, <1>3, <1>5, ThenWork DEF WorkInv
<1>6. CASE job' # Then(job)
  <2>1. job'.plan = job.plan /\ job'.by = job.by
    <3>1. CASE EnterScan \/ EnterFetch \/ EnterLocal \/ EnterKeywords
      BY <1>3, <3>1 DEF JobRecords
    <3>2. ASSUME NEW a \in Apps, ScanApp(a) \/ FetchApp(a) \/ AskToc(a) \/ LocalApp(a)
          PROVE  job'.plan = job.plan /\ job'.by = job.by
      BY <1>3, <3>2 DEF JobRecords
    <3>3. ASSUME NEW a \in Apps, Keyword(a)
          PROVE  job'.plan = job.plan /\ job'.by = job.by
      <4>1. \E todo, clean : job' = [job EXCEPT !.todo = todo, !.clean = clean]
        BY <3>3
      <4> QED BY <1>3, <4>1 DEF JobRecords
    <3>4. ASSUME NEW a \in Apps, TocArrives(a)
          PROVE  job'.plan = job.plan /\ job'.by = job.by
      <4>1. \E todo, left, got : job' = [job EXCEPT !.phase = "pages", !.todo = todo, !.left = left, !.got = got]
        BY <1>6, <3>4, TocStored
      <4> QED BY <1>3, <4>1 DEF JobRecords
    <3>5. CASE FetchPage
      <4>1. \E left, clean : job' = [job EXCEPT !.left = left, !.clean = clean]
        BY <3>5
      <4> QED BY <1>3, <4>1 DEF JobRecords
    <3>6. CASE PagesDone \/ ReadFile \/ FileStored \/ FilesDone
      BY <1>3, <3>6 DEF JobRecords
    <3> QED BY <3>1, <3>2, <3>3, <3>4, <3>5, <3>6
  <2>2. job'.phase \in {"next", "toc", "pages"} /\ (job'.phase # "pages" => job'.got = {})
    <3>1. CASE EnterScan \/ EnterFetch \/ EnterLocal \/ EnterKeywords
      BY <1>3, <1>4, <3>1 DEF JobRecords, Doing
    <3>2. ASSUME NEW a \in Apps, ScanApp(a) \/ FetchApp(a) \/ AskToc(a) \/ LocalApp(a)
          PROVE  job'.phase \in {"next", "toc", "pages"} /\ (job'.phase # "pages" => job'.got = {})
      BY <1>3, <1>4, <3>2 DEF JobRecords, Doing
    <3>3. ASSUME NEW a \in Apps, Keyword(a)
          PROVE  job'.phase = "next" /\ job'.got = {}
      <4>1. Doing("keywords", "next") /\ \E todo, clean : job' = [job EXCEPT !.todo = todo, !.clean = clean]
        BY <3>3
      <4> QED BY <1>3, <1>4, <4>1 DEF JobRecords, Doing
    <3>4. ASSUME NEW a \in Apps, TocArrives(a)
          PROVE  job'.phase = "pages"
      <4>1. \E todo, left, got : job' = [job EXCEPT !.phase = "pages", !.todo = todo, !.left = left, !.got = got]
        BY <1>6, <3>4, TocStored
      <4> QED BY <1>3, <4>1 DEF JobRecords
    <3>5. CASE FetchPage
      <4>1. Doing("fetch", "pages") /\ \E left, clean : job' = [job EXCEPT !.left = left, !.clean = clean]
        BY <3>5
      <4> QED BY <1>3, <4>1 DEF JobRecords, Doing
    <3>6. CASE PagesDone
      BY <1>3, <3>6 DEF JobRecords
    <3>7. CASE ReadFile \/ FileStored \/ FilesDone
      BY <1>3, <3>7 DEF JobRecords, Doing
    <3> QED BY <3>1, <3>2, <3>3, <3>4, <3>5, <3>6, <3>7
  <2>3. WorkSound(job', Embedder') /\ RoomInv'
    BY <1>3, <1>4, <2>1, <2>2, OtherWork
  <2> QED BY <1>2, <2>3 DEF WorkInv
<1> QED BY <1>5, <1>6

-----------------------------------------------------------------------------
(* Embedding and saving, one model at a time                               *)

\* The stage at work, past its first step.
LEMMA AtWork ==
  ASSUME TypeInv, job.phase \in Embedding
  PROVE  /\ job.plan # <<>> /\ job.phase # "idle"
         /\ Replacing => In(job, "vectorize")
         /\ ~Replacing => In(job, "intents")
         /\ job.phase = "flag" => Replacing
<1> QED BY PhaseStage DEF Embedding, Replacing, In

\* A replaced application has no row left after its delete.
LEMMA OthersApart ==
  ASSUME Replacing, NEW rows
  PROVE  Rows \cap Others(rows) = {}
<1>1. \A r \in Rows : \E t \in job.got : r[1] = NameOf[t[1]]
  BY DEF Rows
<1>2. \A r \in Others(rows) : \A t \in job.got : r[1] # NameOf[t[1]]
  BY DEF Others
<1> QED BY <1>1, <1>2

\* Keywords are not among rows without keywords.
LEMMA IntentsApart ==
  ASSUME \A t \in job.got : t[2] = Intent, NEW rows, NoIntents(rows)
  PROVE  Rows \cap rows = {}
<1>1. \A r \in Rows : r[2] = Intent
  BY DEF Rows
<1> QED BY <1>1 DEF NoIntents

\* A delete takes rows and adds none.
LEMMA OthersFew == \A rows : Others(rows) \subseteq rows
<1> QED BY DEF Others

\* The work of a job whose stage and whose store go on.
LEMMA NextAppIs ==
  ASSUME TypeInv, NextApp
  PROVE  /\ job'.plan = job.plan /\ job'.phase = "next" /\ job'.left = {} /\ job'.got = {} /\ job'.by = {}
         /\ job'.col = job.col
<1> QED BY JobIs DEF NextApp, JobRecords

\* What a step to another phase leaves as it is.
LEMMA PhaseIs ==
  ASSUME TypeInv, NEW phase, job' = [job EXCEPT !.phase = phase]
  PROVE  /\ job'.plan = job.plan /\ job'.phase = phase /\ job'.left = job.left /\ job'.got = job.got
         /\ job'.by = job.by /\ job'.col = job.col
<1> QED BY JobIs DEF JobRecords

\* runVectorize goes past its check with no flag without a table.
LEMMA EnterVectorizeWork ==
  ASSUME TypeInv, ConfigInv, WorkInv, EnterVectorize
  PROVE  WorkInv'
<1>1. Doing("vectorize", "enter") /\ UNCHANGED <<tables, vec, config>> /\ Keep(Link)
  BY DEF EnterVectorize
<1>2. ConnInv'
  BY <1>1, KeepConn, AttachedAre DEF WorkInv, ConnInv
<1>3. Named = Embedder
  <2>1. job.phase # "idle"
    BY <1>1 DEF Doing
  <2>2. config.model = config.file
    BY <2>1 DEF ConfigInv
  <2> QED BY <2>2 DEF Named, Embedder, Reached
<1>4. PICK n, todo : n = Embedder /\ job' = [job EXCEPT !.phase = "next", !.col = n, !.todo = todo]
  BY <1>3 DEF EnterVectorize
<1>5. job'.plan = job.plan /\ job'.phase = "next" /\ job'.got = job.got /\ job'.by = job.by /\ job'.col = n
  BY <1>4, JobIs DEF JobRecords
<1>6. job.got = {} /\ job.by = {}
  BY <1>1 DEF WorkInv, WorkSound, Loose, Doing
<1>7. Embedder' = n
  BY <1>1, <1>4, <1>5, SameProcess
<1>8. WorkSound(job', Embedder')
  BY <1>1, <1>5, <1>6, <1>7 DEF WorkSound, In, Embedding, Saving, Doing
<1>9. flag'[n] # {} => n \in tables
  <2>1. n \in Models
    BY <1>4, ModelsAre
  <2>2. CASE Link.table = NoModel
    BY <1>3, <1>4, <2>1, <2>2 DEF EnterVectorize, TypeInv, IndexTypes
  <2>3. CASE Link.table # NoModel
    <3>1. Link.table = Link.to /\ Link.table \in tables
      BY <2>3, AttachedAre DEF WorkInv, Attached
    <3> QED BY <1>4, <3>1, LinksAre
  <2> QED BY <2>2, <2>3
<1>10. RoomInv'
  BY <1>1, <1>5, <1>7, <1>9 DEF RoomInv, In, Saving, Doing
<1> QED BY <1>2, <1>8, <1>10 DEF WorkInv

\* An application is taken with nothing embedded yet.
LEMMA VectorizeAppWork ==
  ASSUME TypeInv, WorkInv, NEW a \in Apps, VectorizeApp(a)
  PROVE  WorkInv'
<1>1. Doing("vectorize", "next") /\ UNCHANGED <<store, index, config, conn>>
  BY DEF VectorizeApp
<1>2. PICK todo, left : job' = [job EXCEPT !.phase = "embed", !.todo = todo, !.left = left]
  BY DEF VectorizeApp
<1>3. job'.plan = job.plan /\ job'.phase = "embed" /\ job'.got = job.got /\ job'.by = job.by /\ job'.col = job.col
  BY <1>2, JobIs DEF JobRecords
<1>4. job.got = {} /\ job.by = {} /\ job.col = Embedder
  BY <1>1 DEF WorkInv, WorkSound, Loose, Doing, In
<1>5. Embedder' = Embedder
  BY <1>1, <1>3, SameProcess
<1>6. WorkSound(job', Embedder')
  BY <1>1, <1>3, <1>4, <1>5 DEF WorkSound, In, Embedding, Saving, Loose, Doing
<1>7. RoomInv'
  BY <1>1, <1>3, <1>5 DEF WorkInv, RoomInv, In, Saving, Doing, index
<1> QED BY <1>1, <1>6, <1>7, SameConn DEF WorkInv, index

\* What is embedded is embedded by one model, that of the process.
LEMMA EmbedWork ==
  ASSUME TypeInv, WorkInv, Embed
  PROVE  WorkInv'
<1>1. job.phase = "embed" /\ UNCHANGED <<store, index, config, conn>>
  BY DEF Embed
<1>2. PICK t \in job.left, ok \in BOOLEAN :
        job' = [job EXCEPT !.left = @ \ {t}, !.clean = @ /\ ok,
                           !.got = IF ok THEN @ \cup {t} ELSE @,
                           !.by = IF ok THEN @ \cup {Embedder} ELSE @,
                           !.phase = IF job.left = {t} THEN "save" ELSE "embed"]
  BY DEF Embed
<1>3. PICK e : e = Embedder
  OBVIOUS
<1>4. PICK clean, left, got, by, phase :
        /\ job' = [job EXCEPT !.left = left, !.clean = clean, !.got = got, !.by = by, !.phase = phase]
        /\ left = job.left \ {t} /\ got = IF ok THEN job.got \cup {t} ELSE job.got
        /\ by = IF ok THEN job.by \cup {e} ELSE job.by
        /\ phase = IF job.left = {t} THEN "save" ELSE "embed"
  <2>1. PICK clean : clean = (job.clean /\ ok)
    OBVIOUS
  <2>2. job' = [job EXCEPT !.left = job.left \ {t}, !.clean = clean,
                           !.got = IF ok THEN job.got \cup {t} ELSE job.got,
                           !.by = IF ok THEN job.by \cup {e} ELSE job.by,
                           !.phase = IF job.left = {t} THEN "save" ELSE "embed"]
    BY <1>2, <1>3, <2>1
  <2> QED BY <2>2
<1>5. job'.plan = job.plan /\ job'.phase = phase /\ job'.left = left /\ job'.got = got /\ job'.by = by
      /\ job'.col = job.col
  BY <1>4, JobIs DEF JobRecords
<1>6. job.by \subseteq {e} /\ (job.got # {} => job.by = {e})
      /\ (In(job, "vectorize") => job.col = e)
      /\ (In(job, "intents") => \A u \in job.left \cup job.got : u[2] = Intent)
  BY <1>1, <1>3 DEF WorkInv, WorkSound, Embedding
<1>7. by \subseteq {e} /\ (got # {} => by = {e}) /\ left \subseteq job.left /\ got \subseteq job.got \cup {t}
      /\ phase \in {"embed", "save"}
  BY <1>4, <1>6
<1>8. Embedder' = e /\ Link' = Link
  BY <1>1, <1>3, <1>5, SameProcess, SameLink DEF index
<1>9. WorkSound(job', Embedder')
  BY <1>1, <1>5, <1>6, <1>7, <1>8 DEF WorkSound, In, Embedding, Saving, Loose
<1>10. RoomInv'
  <2>1. /\ In(job, "intents") /\ Link.table # NoModel => NoIntents(vec[Link.table])
        /\ In(job, "intents") => NoIntents(fts)
        /\ In(job, "vectorize") /\ flag[e] # {} => e \in tables
    BY <1>1, <1>3 DEF WorkInv, RoomInv
  <2>2. /\ In(job', "intents") = In(job, "intents") /\ In(job', "vectorize") = In(job, "vectorize")
    BY <1>1, <1>5, <1>7 DEF In
  <2> QED BY <1>1, <1>5, <1>7, <1>8, <2>1, <2>2 DEF RoomInv, Saving, index
<1> QED BY <1>1, <1>9, <1>10, SameConn DEF WorkInv, index

\* An application given up leaves nothing to save.
LEMMA AbandonWork ==
  ASSUME TypeInv, WorkInv, Abandon \/ SaveNothing
  PROVE  WorkInv'
<1>1. job.phase \in {"embed", "save"} /\ UNCHANGED <<store, index, config, conn>>
  BY DEF Abandon, SaveNothing
<1>2. ConnInv'
  BY <1>1, SameConn DEF WorkInv, index
<1>3. CASE job' = Then(job)
  <2>1. job.plan # <<>>
    BY <1>1, AtWork DEF Embedding
  <2> QED BY <1>2, <1>3, <2>1, ThenWork DEF WorkInv
<1>4. CASE job.phase = "embed" /\ ~Replacing /\ job' = [job EXCEPT !.phase = "save", !.left = {}]
  <2>1. job'.plan = job.plan /\ job'.phase = "save" /\ job'.left = {} /\ job'.got = job.got /\ job'.by = job.by
        /\ job'.col = job.col
    BY <1>4, JobIs DEF JobRecords
  <2>2. Embedder' = Embedder /\ Link' = Link
    BY <1>1, <2>1, SameProcess, SameLink DEF index
  <2>3. In(job, "intents") /\ ~In(job', "vectorize")
    BY <1>4, <2>1, AtWork DEF Embedding, Replacing, In
  <2>4. WorkSound(job', Embedder')
    BY <1>4, <2>1, <2>2, <2>3 DEF WorkInv, WorkSound, Embedding, Saving, Loose
  <2>5. RoomInv'
    BY <1>1, <1>4, <2>1, <2>2, <2>3 DEF WorkInv, RoomInv, Saving, index
  <2> QED BY <1>2, <2>4, <2>5 DEF WorkInv
<1>5. CASE NextApp
  <2>1. job'.plan = job.plan /\ job'.phase = "next" /\ job'.left = {} /\ job'.got = {} /\ job'.by = {}
        /\ job'.col = job.col
    BY <1>5, NextAppIs
  <2>2. Embedder' = Embedder
    BY <1>1, <2>1, SameProcess
  <2>3. In(job', "vectorize") => In(job, "vectorize")
    BY <1>1, <2>1 DEF In
  <2>4. WorkSound(job', Embedder')
    BY <2>1, <2>2, <2>3 DEF WorkInv, WorkSound, Embedding, Saving
  <2>5. RoomInv'
    BY <1>1, <2>1, <2>2, <2>3 DEF WorkInv, RoomInv, Saving, index
  <2> QED BY <1>2, <2>4, <2>5 DEF WorkInv
<1> QED BY <1>3, <1>4, <1>5 DEF Abandon, SaveNothing, Replacing

\* A job that only comes to another of the phases that save.
LEMMA PhaseWork ==
  ASSUME TypeInv, WorkInv, NEW phase \in {"add", "unlist", "list", "flag"}, job.phase \in Embedding,
         job.got # {}, job' = [job EXCEPT !.phase = phase], UNCHANGED config
  PROVE  /\ WorkSound(job', Embedder') /\ job'.phase = phase /\ Embedder' = Embedder /\ Rows' = Rows
         /\ In(job', "intents") = In(job, "intents") /\ In(job', "vectorize") = In(job, "vectorize")
<1>1. job'.plan = job.plan /\ job'.phase = phase /\ job'.left = job.left /\ job'.got = job.got
      /\ job'.by = job.by /\ job'.col = job.col
  BY PhaseIs
<1>2. Embedder' = Embedder /\ Rows' = Rows
  BY <1>1, SameProcess, SameRows
<1>3. In(job', "intents") = In(job, "intents") /\ In(job', "vectorize") = In(job, "vectorize")
  BY <1>1 DEF In, Embedding
<1>4. WorkSound(job', Embedder')
  BY <1>1, <1>2, <1>3 DEF WorkInv, WorkSound, Embedding, Saving, Loose
<1> QED BY <1>1, <1>2, <1>3, <1>4

\* What was got is of one model, the one that embeds.
LEMMA GotBy ==
  ASSUME WorkInv, job.phase \in Embedding
  PROVE  /\ job.got # {} => job.by = {Embedder}
         /\ In(job, "intents") => \A t \in job.got : t[2] = Intent
<1> QED BY DEF WorkInv, WorkSound

\* A table that is created holds what was to be saved, by the model that
\* embedded it.
LEMMA CreateWork ==
  ASSUME TypeInv, WorkInv, CreateTable
  PROVE  WorkInv'
<1>1. job.phase = "save" /\ job.got # {} /\ Link.table = NoModel /\ UNCHANGED <<flag, fts, config>>
  BY DEF CreateTable
<1>2. CASE Link.to \in tables
  <2>1. Fail /\ Keep(Link) /\ UNCHANGED <<tables, vec>>
    BY <1>2 DEF CreateTable
  <2>2. ConnInv'
    BY <2>1, KeepConn, AttachedAre DEF WorkInv, ConnInv
  <2> QED BY <2>1, <2>2, NoWork DEF WorkInv, Fail
<1>3. CASE Link.to \notin tables
  <2>0. PICK m : m = Link.to
    OBVIOUS
  <2>1. /\ tables' = tables \cup {m} /\ vec' = [vec EXCEPT ![m] = Rows]
        /\ Keep([Link EXCEPT !.table = m]) /\ job' = [job EXCEPT !.phase = "unlist"]
    BY <1>3, <2>0 DEF CreateTable
  <2>2. m = Embedder /\ m \in Models
    BY <2>0, LinksAre, ModelsAre
  <2>3. ConnInv'
    <3>1. PICK l : l = [Link EXCEPT !.table = m]
      OBVIOUS
    <3>2. Attached(l, tables')
      BY <2>0, <2>1, <3>1, LinksAre DEF Attached, Links
    <3>3. \A n \in Models \ tables' : vec'[n] = {}
      BY <2>1 DEF WorkInv, ConnInv, TypeInv, IndexTypes
    <3> QED BY <2>1, <3>1, <3>2, <3>3, KeepConn DEF WorkInv
  <2>4. WorkSound(job', Embedder') /\ job'.phase = "unlist" /\ Embedder' = m
        /\ In(job', "intents") = In(job, "intents") /\ In(job', "vectorize") = In(job, "vectorize")
    BY <1>1, <2>1, <2>2, PhaseWork DEF Embedding
  <2>5. RoomInv'
    BY <1>1, <2>1, <2>4 DEF WorkInv, RoomInv, Saving
  <2> QED BY <2>3, <2>4, <2>5 DEF WorkInv
<1> QED BY <1>2, <1>3

\* After the delete there is room for the rows.
LEMMA DeleteWork ==
  ASSUME TypeInv, WorkInv, DeleteRows
  PROVE  WorkInv'
<1>1. job.phase = "save" /\ job.got # {} /\ Keep(Link) /\ UNCHANGED <<flag, tables, fts, config>>
      /\ job' = [job EXCEPT !.phase = "add"]
  BY DEF DeleteRows
<1>2. PICK m : m = Link.table
  OBVIOUS
<1>3. m = Embedder /\ m \in tables /\ m \in Models /\ vec' = [vec EXCEPT ![m] = Others(@)]
  BY <1>2, AttachedAre, LinksAre, ModelsAre DEF DeleteRows, WorkInv, Attached
<1>4. WorkSound(job', Embedder') /\ job'.phase = "add" /\ Embedder' = m /\ Rows' = Rows
      /\ In(job', "intents") = In(job, "intents") /\ In(job', "vectorize") = In(job, "vectorize")
  BY <1>1, <1>3, PhaseWork DEF Embedding
<1>5. Handle' = m
  BY <1>1, <1>2, KeptLink, PhaseIs
<1>6. ConnInv'
  <2>1. \A n \in Models \ tables' : vec'[n] = {}
    BY <1>1, <1>3 DEF WorkInv, ConnInv, TypeInv, IndexTypes
  <2> QED BY <1>1, <2>1, KeepConn, AttachedAre DEF WorkInv
<1>7. Rows \cap vec'[m] = {}
  <2>1. vec'[m] = Others(vec[m])
    BY <1>3 DEF TypeInv, IndexTypes
  <2>2. CASE Replacing
    BY <2>1, <2>2, OthersApart
  <2>3. CASE ~Replacing
    <3>1. In(job, "intents")
      BY <1>1, <2>3, AtWork DEF Embedding
    <3>2. NoIntents(vec[m])
      BY <1>1, <1>2, <1>3, <3>1, IndexAssumption DEF WorkInv, RoomInv
    <3>3. \A t \in job.got : t[2] = Intent
      BY <1>1, <3>1, GotBy DEF Embedding
    <3>4. Rows \cap vec[m] = {}
      BY <3>2, <3>3, IntentsApart
    <3> QED BY <2>1, <3>4, OthersFew
  <2> QED BY <2>2, <2>3
<1>8. RoomInv'
  <2>1. In(job, "intents") => NoIntents(fts)
    BY <1>1 DEF WorkInv, RoomInv
  <2> QED BY <1>1, <1>3, <1>4, <1>5, <1>7, <2>1 DEF RoomInv, Saving
<1> QED BY <1>4, <1>6, <1>8 DEF WorkInv

\* The rows are added where there was room.
LEMMA AddWork ==
  ASSUME TypeInv, WorkInv, AddRows
  PROVE  WorkInv'
<1>1. job.phase = "add" /\ UNCHANGED <<flag, tables, fts, config, conn>>
  BY DEF AddRows
<1>2. Handle = Embedder /\ Embedder \in tables /\ job.got # {}
  BY <1>1 DEF WorkInv, RoomInv, WorkSound, Saving
<1>3. CASE Fail /\ UNCHANGED vec
  BY <1>1, <1>3, NoWork, SameConn DEF WorkInv, Fail
<1>4. CASE ~(Fail /\ UNCHANGED vec)
  <2>1. PICK m : m = Embedder
    OBVIOUS
  <2>2. vec' = [vec EXCEPT ![m] = @ \cup Rows] /\ job' = [job EXCEPT !.phase = "unlist"]
    BY <1>2, <1>4, <2>1 DEF AddRows
  <2>3. ConnInv'
    BY <1>1, <1>2, <2>1, <2>2 DEF WorkInv, ConnInv, TypeInv, IndexTypes
  <2>4. WorkSound(job', Embedder') /\ job'.phase = "unlist" /\ Embedder' = m
        /\ In(job', "intents") = In(job, "intents") /\ In(job', "vectorize") = In(job, "vectorize")
    BY <1>1, <1>2, <2>1, <2>2, PhaseWork DEF Embedding
  <2>5. RoomInv'
    BY <1>1, <1>2, <2>1, <2>4 DEF WorkInv, RoomInv, Saving
  <2> QED BY <2>3, <2>4, <2>5 DEF WorkInv
<1> QED BY <1>3, <1>4

\* chunks_fts has room for the rows once the application is taken out.
LEMMA ListWork ==
  ASSUME TypeInv, WorkInv, Unlist \/ List \/ SetFlag
  PROVE  WorkInv'
<1>1. UNCHANGED <<tables, vec, config, conn>> /\ job.phase \in {"unlist", "list", "flag"}
  BY DEF Unlist, List, SetFlag
<1>2. ConnInv'
  BY <1>1, SameConn DEF WorkInv
<1>3. Embedder \in tables /\ job.got # {} /\ job.phase \in Embedding
  BY <1>1 DEF WorkInv, RoomInv, WorkSound, Saving, Embedding
<1>4. CASE Unlist
  <2>1. fts' = Others(fts) /\ flag' = flag /\ job.phase = "unlist" /\ job' = [job EXCEPT !.phase = "list"]
    BY <1>4 DEF Unlist
  <2>2. WorkSound(job', Embedder') /\ job'.phase = "list" /\ Embedder' = Embedder /\ Rows' = Rows
        /\ In(job', "intents") = In(job, "intents") /\ In(job', "vectorize") = In(job, "vectorize")
    BY <1>1, <1>3, <2>1, PhaseWork
  <2>3. In(job, "intents") => NoIntents(fts)
    BY <2>1 DEF WorkInv, RoomInv
  <2>4. Rows \cap fts' = {}
    <3>1. CASE Replacing
      BY <2>1, <3>1, OthersApart
    <3>2. CASE ~Replacing
      BY <1>3, <2>1, <2>3, <3>2, AtWork, GotBy, IntentsApart, OthersFew
    <3> QED BY <3>1, <3>2
  <2>5. In(job, "intents") => NoIntents(fts')
    BY <2>1, <2>3, OthersFew DEF NoIntents
  <2>6. RoomInv'
    BY <1>1, <1>3, <2>1, <2>2, <2>4, <2>5 DEF RoomInv, Saving
  <2> QED BY <1>2, <2>2, <2>6 DEF WorkInv
<1>5. CASE List /\ Replacing
  <2>1. flag' = flag /\ job' = [job EXCEPT !.phase = "flag"]
    BY <1>5 DEF List
  <2>2. WorkSound(job', Embedder') /\ job'.phase = "flag" /\ Embedder' = Embedder
        /\ In(job', "intents") = In(job, "intents") /\ In(job', "vectorize") = In(job, "vectorize")
    BY <1>1, <1>3, <2>1, PhaseWork
  <2>3. RoomInv'
    BY <1>1, <1>3, <2>2 DEF RoomInv, Saving
  <2> QED BY <1>2, <2>2, <2>3 DEF WorkInv
<1>6. CASE NextApp
  <2>1. job'.plan = job.plan /\ job'.phase = "next" /\ job'.left = {} /\ job'.got = {} /\ job'.by = {}
        /\ job'.col = job.col
    BY <1>6, NextAppIs
  <2>2. Embedder' = Embedder
    BY <1>1, <2>1, SameProcess
  <2>3. In(job', "vectorize") => In(job, "vectorize")
    BY <1>1, <2>1 DEF In
  <2>4. WorkSound(job', Embedder')
    BY <2>1, <2>2, <2>3 DEF WorkInv, WorkSound, Embedding, Saving
  <2>5. RoomInv'
    BY <1>1, <1>3, <2>1, <2>2 DEF RoomInv, Saving
  <2> QED BY <1>2, <2>4, <2>5 DEF WorkInv
<1> QED BY <1>4, <1>5, <1>6 DEF List, SetFlag

\* After runVectorizeIntents took its keywords out, none is left in the table
\* or in chunks_fts.
LEMMA IntentWork ==
  ASSUME TypeInv, WorkInv, EnterIntents \/ UnlistIntents
  PROVE  WorkInv'
<1>1. UNCHANGED <<flag, tables, config>> /\ job.plan # <<>> /\ Head(job.plan).do = "intents"
  BY DEF EnterIntents, UnlistIntents, Doing
<1>2. CASE EnterIntents /\ job' = Then(job) /\ UNCHANGED <<vec, conn>>
  BY <1>1, <1>2, ThenWork, SameConn DEF WorkInv
<1>3. CASE EnterIntents /\ ~(job' = Then(job) /\ UNCHANGED <<vec, conn>>)
  <2>0. PICK m : m = Link.table
    OBVIOUS
  <2>1. /\ Keep(Link) /\ job' = [job EXCEPT !.phase = "unintend"] /\ Doing("intents", "enter")
        /\ vec' = IF m = NoModel THEN vec ELSE [vec EXCEPT ![m] = {r \in @ : r[2] # Intent}]
    BY <1>3, <2>0 DEF EnterIntents
  <2>2. m \in Models \cup {NoModel}
    BY <2>0, LinksAre DEF Links
  <2>3. job'.plan = job.plan /\ job'.phase = "unintend" /\ job'.left = job.left /\ job'.got = job.got
        /\ job'.by = job.by
    BY <2>1, PhaseIs
  <2>4. job.left = {} /\ job.got = {} /\ job.by = {}
    BY <2>1 DEF WorkInv, WorkSound, Loose, Doing
  <2>5. Link' = Link
    BY <1>1, <2>1, <2>3, KeptLink
  <2>6. ConnInv'
    <3>1. \A n \in Models \ tables' : vec'[n] = {}
      BY <1>1, <2>1, <2>2 DEF WorkInv, ConnInv, TypeInv, IndexTypes
    <3> QED BY <1>1, <2>1, <3>1, KeepConn, AttachedAre DEF WorkInv
  <2>7. ~In(job', "vectorize")
    BY <1>1, <2>3 DEF In
  <2>8. WorkSound(job', Embedder')
    BY <2>3, <2>4, <2>7 DEF WorkSound, Embedding, Saving
  <2>9. m # NoModel => NoIntents(vec'[m])
    BY <2>1, <2>2 DEF NoIntents, TypeInv, IndexTypes
  <2>10. RoomInv'
    BY <2>0, <2>3, <2>5, <2>7, <2>9 DEF RoomInv, Saving
  <2> QED BY <2>6, <2>8, <2>10 DEF WorkInv
<1>4. CASE UnlistIntents
  <2>0. PICK ts : ts = keywords \X {Intent}
    OBVIOUS
  <2>1. /\ fts' = {r \in fts : r[2] # Intent} /\ UNCHANGED <<vec, conn>> /\ Doing("intents", "unintend")
        /\ job' = [job EXCEPT !.phase = "embed", !.left = ts]
    BY <1>4, <2>0 DEF UnlistIntents
  <2>2. job'.plan = job.plan /\ job'.phase = "embed" /\ job'.left = ts /\ job'.got = job.got
        /\ job'.by = job.by
    BY <2>1, JobIs DEF JobRecords
  <2>3. job.got = {} /\ job.by = {} /\ In(job, "intents")
    BY <2>1 DEF WorkInv, WorkSound, Loose, Doing, In
  <2>4. Link' = Link
    BY <1>1, <2>1, <2>2, SameLink
  <2>5. ~In(job', "vectorize") /\ \A t \in ts : t[2] = Intent
    BY <1>1, <2>0, <2>2 DEF In
  <2>6. WorkSound(job', Embedder')
    BY <2>2, <2>3, <2>5 DEF WorkSound, Embedding, Saving, Loose
  <2>7. Link.table # NoModel => NoIntents(vec[Link.table])
    BY <2>1, <2>3 DEF WorkInv, RoomInv, Doing
  <2>8. NoIntents(fts')
    BY <2>1 DEF NoIntents
  <2>9. RoomInv'
    BY <2>1, <2>2, <2>4, <2>5, <2>7, <2>8 DEF RoomInv, Saving
  <2> QED BY <2>1, <2>6, <2>9, <1>1, SameConn DEF WorkInv
<1> QED BY <1>2, <1>3, <1>4

\* db.clear saves nothing, and a dropped table has no rows.
LEMMA ClearWork ==
  ASSUME TypeInv, WorkInv, \/ ClearApps \/ ClearLinks \/ ClearDocs \/ DropTable \/ ClearFts
                           \/ ClearVectors \/ UnflagAffected \/ UnflagCurrent \/ ForgetKeywords
  PROVE  WorkInv'
<1>1. WorkSound(job', Embedder') /\ RoomInv'
  <2>1. job' = Then(job) /\ job.plan # <<>>
    BY DEF ClearApps, ClearLinks, ClearDocs, DropTable, ClearFts, ClearVectors, UnflagAffected,
           UnflagCurrent, ForgetKeywords, Statement, Doing
  <2> QED BY <2>1, ThenWork
<1>2. Connected \in Links /\ Attached(Connected, tables)
  BY LinksAre, AttachedAre DEF WorkInv
<1>3. CASE DropTable
  <2>1. PICK c : c = Connected
    OBVIOUS
  <2>2. CASE c.to \in tables
    <3>1. tables' = tables \ {c.to} /\ vec' = [vec EXCEPT ![c.to] = {}] /\ conn' = [c EXCEPT !.table = NoModel]
      BY <1>3, <2>1, <2>2 DEF DropTable
    <3>2. Attached(conn', tables')
      BY <1>2, <2>1, <3>1 DEF Attached, Links
    <3>3. \A m \in Models \ tables' : vec'[m] = {}
      BY <3>1 DEF WorkInv, ConnInv, TypeInv, IndexTypes
    <3> QED BY <1>1, <3>2, <3>3 DEF WorkInv, ConnInv
  <2>3. CASE c.to \notin tables
    <3>1. conn' = c /\ UNCHANGED <<tables, vec>>
      BY <1>3, <2>1, <2>3 DEF DropTable
    <3> QED BY <1>1, <1>2, <2>1, <3>1 DEF WorkInv, ConnInv
  <2> QED BY <2>2, <2>3
<1>4. CASE ClearVectors
  <2>1. PICK m : m = Connected.table
    OBVIOUS
  <2>2. conn' = Connected /\ tables' = tables
        /\ vec' = IF m = NoModel THEN vec ELSE [vec EXCEPT ![m] = {r \in @ : r[2] \notin Purged}]
    BY <1>4, <2>1 DEF ClearVectors
  <2>3. \A n \in Models \ tables' : vec'[n] = {}
    BY <2>2 DEF WorkInv, ConnInv, TypeInv, IndexTypes
  <2> QED BY <1>1, <1>2, <2>2, <2>3 DEF WorkInv, ConnInv
<1>5. CASE UNCHANGED <<conn, tables, vec>>
  BY <1>1, <1>5, SameConn DEF WorkInv
<1> QED BY <1>3, <1>4, <1>5 DEF ClearApps, ClearLinks, ClearDocs, ClearFts, UnflagAffected, UnflagCurrent,
           ForgetKeywords, index

\* No client of the configuration comes while an operation is under way.
LEMMA QuietSteps ==
  ASSUME TypeInv, ConfigInv, "busy" \notin Env,
         \/ Reload \/ (\E m \in Models : UpdateModels(m))
         \/ \E r \in Runs : TestsBegin(r) \/ TestsEnd(r) \/ \E m \in Models : TestsMode(r, m)
  PROVE  job.phase = "idle" /\ job.plan = <<>> /\ UNCHANGED <<store, index, job>>
<1>1. job.phase = "idle" /\ UNCHANGED <<store, index, job>>
  BY DEF ConfigInv, Testing, Quiet, Reload, UpdateModels, TestsBegin, TestsMode, TestsEnd
<1>2. job.plan = <<>>
  BY <1>1, JobIs
<1> QED BY <1>1, <1>2

\* The configuration changes between operations only.
LEMMA ConfigWork ==
  ASSUME TypeInv, ConfigInv, WorkInv, {"busy", "bare"} \cap Env = {},
         \/ Reload \/ (\E m \in Models : UpdateModels(m)) \/ Crash
         \/ \E r \in Runs : TestsBegin(r) \/ TestsEnd(r) \/ \E m \in Models : TestsMode(r, m)
  PROVE  WorkInv'
<1>1. UNCHANGED <<store, index>>
  BY DEF Reload, UpdateModels, Crash, TestsBegin, TestsEnd, TestsMode
<1>2. UNCHANGED <<tables, vec>>
  BY <1>1 DEF index
<1>3. WorkSound(job', Embedder') /\ RoomInv'
  <2>1. CASE Crash
    BY <2>1, NoWork DEF Crash
  <2>2. CASE ~Crash
    <3>1. job.phase = "idle" /\ job.plan = <<>> /\ job' = job
      BY <2>2, QuietSteps
    <3>2. job'.phase = "idle" /\ job'.plan = <<>>
      BY <3>1
    <3>3. job.got = {} /\ job.by = {}
      BY <3>1 DEF WorkInv, WorkSound, Loose
    <3>4. WorkSound(job', Embedder')
      BY <3>1, <3>3 DEF WorkSound, In, Embedding, Saving
    <3>5. RoomInv'
      BY <3>2 DEF RoomInv, In, Saving
    <3> QED BY <3>4, <3>5
  <2> QED BY <2>1, <2>2
<1>4. Attached(conn', tables)
  <2>1. CASE conn' = conn
    BY <2>1 DEF WorkInv, ConnInv
  <2>2. ASSUME NEW r \in Runs, TestsBegin(r)
        PROVE  Attached(conn', tables)
    <3>1. Reached \in tables /\ conn' = Initialised
      BY <2>2 DEF TestsBegin
    <3> QED BY <3>1 DEF Initialised, Attached
  <2>3. ASSUME NEW r \in Runs, NEW m \in Models, TestsMode(r, m)
        PROVE  Attached(conn', tables)
    <3>1. conn' \in {conn, Opened(m), Opened(config.file)}
      BY <2>3 DEF TestsMode
    <3> QED BY <3>1 DEF WorkInv, ConnInv, Attached, Opened
  <2>4. CASE Crash
    <3>1. conn' = Opened(config.file)
      BY <2>4 DEF Crash
    <3> QED BY <3>1 DEF Attached, Opened
  <2> QED BY <2>1, <2>2, <2>3, <2>4 DEF Reload, UpdateModels, TestsEnd
<1> QED BY <1>2, <1>3, <1>4 DEF WorkInv, ConnInv

\* Every step keeps WorkInv.
LEMMA WorkKeeps ==
  ASSUME TypeInv, ConfigInv, WorkInv, [Next]_vars, {"busy", "bare"} \cap Env = {}
  PROVE  WorkInv'
<1>1. CASE Operation
  <2>1. CASE \E a \in Apps : ScanApp(a) \/ Keyword(a) \/ FetchApp(a) \/ AskToc(a) \/ TocArrives(a) \/ LocalApp(a)
    BY <2>1, FetchWork
  <2>2. CASE \E a \in Apps : VectorizeApp(a)
    BY <2>2, VectorizeAppWork
  <2>3. CASE ChooseProcess \/ EndStage \/ KillChild
    BY <2>3, JobMovesWork
  <2>4. CASE \/ EnterScan \/ EnterFetch \/ EnterLocal \/ EnterKeywords
             \/ FetchPage \/ PagesDone \/ ReadFile \/ FileStored \/ FilesDone
    BY <2>4, FetchWork
  <2>5. CASE EnterVectorize \/ EnterIntents \/ UnlistIntents
    BY <2>5, EnterVectorizeWork, IntentWork
  <2>6. CASE Embed \/ Abandon \/ SaveNothing \/ CreateTable \/ DeleteRows \/ AddRows \/ Unlist \/ List \/ SetFlag
    BY <2>6, EmbedWork, AbandonWork, CreateWork, DeleteWork, AddWork, ListWork
  <2>7. CASE \/ ClearApps \/ ClearLinks \/ ClearDocs \/ DropTable \/ ClearFts
             \/ ClearVectors \/ UnflagAffected \/ UnflagCurrent \/ ForgetKeywords
    BY <2>7, ClearWork
  <2> QED BY <1>1, <2>1, <2>2, <2>3, <2>4, <2>5, <2>6, <2>7 DEF Operation
<1>2. CASE Sync \/ Single \/ Clear \/ Answer \/ Cancel
  BY <1>2, JobMovesWork
<1>3. CASE \/ Reload \/ (\E m \in Models : UpdateModels(m)) \/ Crash
           \/ \E r \in Runs : TestsBegin(r) \/ TestsEnd(r) \/ \E m \in Models : TestsMode(r, m)
  BY <1>3, ConfigWork
<1>4. CASE UNCHANGED vars
  <2>1. UNCHANGED <<flag, tables, vec, fts, config, conn, job>>
    BY <1>4 DEF vars
  <2>2. Embedder' = Embedder /\ Link' = Link /\ Handle' = Handle /\ Rows' = Rows
    BY <2>1, SameProcess, SameLink, SameRows
  <2> QED BY <2>1, <2>2 DEF WorkInv, ConnInv, RoomInv
<1> QED BY <1>1, <1>2, <1>3, <1>4 DEF Next, Client

\* The program starts with no work in hand.
LEMMA WorkBegins == Init => WorkInv
<1> SUFFICES ASSUME Init PROVE WorkInv
  OBVIOUS
<1>1. job = Idle /\ conn = [to |-> Home, table |-> NoModel] /\ vec = [m \in Models |-> {}] /\ tables = {}
  BY DEF Init
<1>2. ConnInv
  BY <1>1 DEF ConnInv, Attached
<1>3. job.phase = "idle" /\ job.plan = <<>> /\ job.got = {} /\ job.by = {}
  BY <1>1 DEF Idle
<1>4. WorkSound(job, Embedder)
  BY <1>3 DEF WorkSound, In, Embedding, Saving
<1>5. RoomInv
  BY <1>3 DEF RoomInv, In, Saving
<1> QED BY <1>2, <1>4, <1>5 DEF WorkInv

\* The three invariants hold of the program.
LEMMA WorkCorrect ==
  ASSUME {"busy", "bare"} \cap Env = {}
  PROVE  Spec => [](TypeInv /\ ConfigInv /\ WorkInv)
<1>1. Init => TypeInv /\ ConfigInv /\ WorkInv
  BY TypesBegin, ConfigBegins, WorkBegins
<1>2. TypeInv /\ ConfigInv /\ WorkInv /\ [Next]_vars => (TypeInv /\ ConfigInv /\ WorkInv)'
  BY TypesKeep, ConfigKeeps, WorkKeeps
<1> QED BY <1>1, <1>2, PTL DEF Spec

\* WorkInv says that runVectorize has no flag without a table.
LEMMA FlagsNeed ==
  ASSUME WorkInv
  PROVE  FlagsNeedTable
<1>1. ASSUME NEW phase \in Phases \ {"enter"}, Doing("vectorize", phase), flag[job.col] # {}
      PROVE  job.col \in tables
  <2>1. In(job, "vectorize")
    BY <1>1 DEF Doing, In
  <2> QED BY <1>1, <2>1 DEF WorkInv, WorkSound, RoomInv
<1> QED BY <1>1 DEF FlagsNeedTable

\* Whatever a crash, a killed child, a failing model or a cancellation leaves
\* behind, the next operation repairs it without believing it: past its check
\* runVectorize has no flag without a table, and neither the vector table nor
\* chunks_fts takes a row beside one that is there.  Assumed is that no client
\* switches the model while an operation runs and that a benchmark takes models
\* that have vectors: both may happen, and then it does not hold.
THEOREM RepairsKept ==
  ASSUME {"busy", "bare"} \cap Env = {}
  PROVE  Spec => RepairsAreSound
<1>1. TypeInv /\ ConfigInv /\ WorkInv /\ [Next]_vars =>
        [/\ FlagsNeedTable'
         /\ AddRows /\ job'.phase = "unlist" => Rows \cap vec[Handle] = {}
         /\ List => Rows \cap fts = {}]_vars
  <2> SUFFICES ASSUME TypeInv, ConfigInv, WorkInv, [Next]_vars
               PROVE  /\ FlagsNeedTable'
                      /\ AddRows /\ job'.phase = "unlist" => Rows \cap vec[Handle] = {}
                      /\ List => Rows \cap fts = {}
    OBVIOUS
  <2>1. WorkInv'
    BY WorkKeeps
  <2>2. FlagsNeedTable'
    BY <2>1, FlagsNeed, PTL
  <2>3. AddRows => Rows \cap vec[Handle] = {}
    BY DEF AddRows, WorkInv, RoomInv
  <2>4. List => Rows \cap fts = {}
    BY DEF List, WorkInv, RoomInv
  <2> QED BY <2>2, <2>3, <2>4
<1> QED BY <1>1, WorkCorrect, PTL DEF Spec, RepairsAreSound

\* In a step that adds vectors to a table, all that was embedded is by its
\* model.
LEMMA VectorsByModel ==
  ASSUME TypeInv, WorkInv, [Next]_vars
  PROVE  \A m \in Models : vec'[m] \ vec[m] # {} => job.by = {m}
<1> SUFFICES ASSUME NEW m \in Models, vec'[m] \ vec[m] # {}
             PROVE  job.by = {m}
  OBVIOUS
<1>1. vec \in [Models -> SUBSET AllRows] /\ vec' # vec
  BY DEF TypeInv, IndexTypes
<1>2. CASE CreateTable
  <2>1. vec' = [vec EXCEPT ![Link.to] = Rows] /\ job.phase = "save" /\ job.got # {}
    BY <1>1, <1>2 DEF CreateTable
  <2>2. m = Link.to
    BY <1>1, <2>1
  <2> QED BY <2>1, <2>2, LinksAre, GotBy DEF Embedding
<1>3. CASE AddRows
  <2>1. vec' = [vec EXCEPT ![Handle] = @ \cup Rows] /\ job.phase = "add"
    BY <1>1, <1>3 DEF AddRows
  <2>2. m = Handle /\ Handle = Embedder /\ job.got # {}
    BY <1>1, <2>1 DEF WorkInv, RoomInv, WorkSound, Saving
  <2> QED BY <2>1, <2>2, GotBy DEF Embedding
<1>4. CASE DeleteRows
  BY <1>1, <1>4, OthersFew DEF DeleteRows
<1>5. CASE EnterIntents
  BY <1>1, <1>5 DEF EnterIntents
<1>6. CASE DropTable \/ ClearVectors
  BY <1>1, <1>6 DEF DropTable, ClearVectors
<1>7. CASE ~(CreateTable \/ AddRows \/ DeleteRows \/ EnterIntents \/ DropTable \/ ClearVectors)
  <2>1. CASE Operation
    BY <1>1, <1>7, <2>1 DEF Operation, ChooseProcess, EndStage, KillChild, EnterScan, EnterFetch, EnterLocal,
       EnterKeywords, EnterVectorize, ScanApp, Keyword, FetchApp, AskToc, TocArrives,
       LocalApp, VectorizeApp, FetchPage, PagesDone, ReadFile, FileStored, FilesDone, Embed, Abandon,
       SaveNothing, Unlist, List, SetFlag, UnlistIntents, ClearApps,
       ClearLinks, ClearDocs, ClearFts, UnflagAffected, UnflagCurrent, ForgetKeywords, index
  <2>2. CASE Client \/ Crash
    BY <1>1, <2>2 DEF Client, Crash, Sync, Single, Clear, Start, Answer, Cancel, Reload, UpdateModels,
       TestsBegin, TestsMode, TestsEnd, index
  <2> QED BY <1>1, <2>1, <2>2 DEF Next, vars
<1> QED BY <1>2, <1>3, <1>4, <1>5, <1>6, <1>7

\* A vector is put only in the table of the model that computed it, whether it
\* is put there by the sidecar or by a child process for a model of the list.
THEOREM VectorsGoHome ==
  ASSUME {"busy", "bare"} \cap Env = {}
  PROVE  Spec => [][\A m \in Models : vec'[m] \ vec[m] # {} => job.by = {m}]_vars
<1>1. TypeInv /\ ConfigInv /\ WorkInv /\ [Next]_vars =>
        [\A m \in Models : vec'[m] \ vec[m] # {} => job.by = {m}]_vars
  BY VectorsByModel
<1> QED BY <1>1, WorkCorrect, PTL DEF Spec

-----------------------------------------------------------------------------
(* Two kinds of plan: what pipeline.* does, and what db.clear does          *)

\* The stages of pipeline.*.
Pipe == {"scan", "fetch", "local", "keywords", "model", "vectorize", "intents"}

\* A plan of pipeline.*.
Piping(plan) == \A i \in DOMAIN plan : plan[i].do \in Pipe

\* A plan of db.clear.
Purging(plan) == \A i \in DOMAIN plan : plan[i].do \notin Pipe

\* Whoever drops a table resets the flags afterwards.
DropsSafely(plan) ==
  \A i \in DOMAIN plan : plan[i].do = "drop" =>
    \E k \in DOMAIN plan : k > i /\ plan[k].do = "unflagCurrent"

\* Whoever deletes vectors deletes intents, or has reset the flags of those
\* concerned first.
PurgesSafely(plan) ==
  \A i \in DOMAIN plan : plan[i].do = "vectors" =>
    \/ plan[i].items = {Intent}
    \/ /\ plan[i].items \subseteq Pages
       /\ Head(plan).do = "unflag" /\ Head(plan).items = plan[i].items

\* The stages of pipeline.*, as records.
PipeStages == {s \in Stages : s.do \in Pipe}

\* The same said of the sequence and of its elements.
LEMMA PipingIs ==
  ASSUME NEW plan \in Seq(Stages)
  PROVE  Piping(plan) <=> plan \in Seq(PipeStages)
<1>1. Len(plan) \in Nat /\ DOMAIN plan = 1 .. Len(plan) /\ \A i \in 1 .. Len(plan) : plan[i] \in Stages
  OBVIOUS
<1>2. ASSUME Piping(plan)
      PROVE  plan \in Seq(PipeStages)
  <2>1. \A i \in 1 .. Len(plan) : plan[i] \in PipeStages
    BY <1>1, <1>2 DEF Piping, PipeStages
  <2>2. plan \in [1 .. Len(plan) -> PipeStages]
    BY <1>1, <2>1
  <2> QED BY <1>1, <2>2, SeqDef
<1>3. ASSUME plan \in Seq(PipeStages)
      PROVE  Piping(plan)
  <2>1. \A i \in DOMAIN plan : plan[i] \in PipeStages
    BY <1>3
  <2> QED BY <2>1 DEF Piping, PipeStages
<1> QED BY <1>2, <1>3

\* pipeline.sync plans stages of pipeline.* only.
LEMMA SyncPipes ==
  ASSUME NEW models \in ModelLists
  PROVE  Piping(FullSync(models))
<1> DEFINE first == <<Stage("scan"), Stage("fetch"), Stage("local"), Stage("keywords")>>
           middle == IF models = <<>> THEN <<Stage("vectorize")>>
                     ELSE [i \in DOMAIN models |-> Child("model", models[i])]
           last == <<Stage("intents")>>
<1>1. \A what \in {"scan", "fetch", "local", "keywords", "vectorize", "intents"} : Stage(what) \in PipeStages
  BY StagesAreGood DEF Kinds, GoodStage, PipeStages, Pipe, Stage
<1>2. first \in Seq(PipeStages) /\ last \in Seq(PipeStages)
  BY <1>1
<1>3. middle \in Seq(PipeStages)
  <2>1. CASE models = <<>>
    BY <1>1, <2>1
  <2>2. CASE models # <<>>
    <3>1. models \in Seq(Models) /\ Len(models) \in Nat /\ DOMAIN models = 1 .. Len(models)
      BY IndexAssumption
    <3>2. \A i \in 1 .. Len(models) : models[i] \in Models
      BY <3>1
    <3>3. \A m \in Models : Child("model", m) \in PipeStages
      BY StagesAreGood DEF InChildren, GoodStage, PipeStages, Pipe, Child, Stage
    <3>4. middle = [i \in 1 .. Len(models) |-> Child("model", models[i])]
      BY <2>2, <3>1
    <3>5. middle \in [1 .. Len(models) -> PipeStages]
      BY <3>2, <3>3, <3>4
    <3> QED BY <3>1, <3>5, SeqDef
  <2> QED BY <2>1, <2>2
<1>4. FullSync(models) = first \o middle \o last
  BY DEF FullSync
<1> HIDE DEF first, middle, last
<1>5. first \o middle \in Seq(PipeStages)
  BY <1>2, <1>3, Joined
<1>6. first \o middle \o last \in Seq(PipeStages)
  BY <1>2, <1>5, Joined
<1>7. FullSync(models) \in Seq(Stages)
  BY SyncPlan DEF GoodPlan
<1> QED BY <1>4, <1>6, <1>7, PipingIs

\* What db.clear does, in the order it does it.
LEMMA ClearPurges ==
  ASSUME NEW target \in Targets
  PROVE  /\ Purging(ClearPlan(target)) /\ DropsSafely(ClearPlan(target))
         /\ PurgesSafely(ClearPlan(target))
<1> DEFINE Fine(p) == Purging(p) /\ DropsSafely(p) /\ PurgesSafely(p)
<1>1. Stage("apps").do = "apps" /\ Stage("drop").do = "drop" /\ Stage("unflagCurrent").do = "unflagCurrent"
      /\ Stage("forget").do = "forget"
  BY DEF Stage
<1>2. \A what, items : Purge(what, items).do = what /\ Purge(what, items).items = items
  BY DEF Purge, Stage
<1>3. WebPages \subseteq Pages /\ LocalPages \subseteq Pages
  BY DEF Pages
<1>4. ASSUME NEW pages \in SUBSET Pages
      PROVE  Fine(ClearType(pages))
  <2>1. PICK p : p = ClearType(pages)
    OBVIOUS
  <2>2. PICK s1, s2, s3, s4, s5 :
          /\ p = <<s1, s2, s3, s4, s5>>
          /\ s1.do = "unflag" /\ s2.do = "fts" /\ s3.do = "vectors" /\ s4.do = "docs" /\ s5.do = "links"
          /\ s1.items = pages /\ s3.items = pages
    BY <1>2, <2>1 DEF ClearType
  <2>3. Fine(p)
    BY <2>2 DEF Purging, Pipe, DropsSafely, PurgesSafely
  <2> QED BY <2>1, <2>3
<1>5. PICK s1, s2, s3 : DropVectors = <<s1, s2, s3>> /\ s1.do = "drop" /\ s2.do = "fts" /\ s3.do = "unflagCurrent"
  BY <1>1, <1>2 DEF DropVectors
<1>6. Fine(<<s1, s2, s3>>)
  BY <1>5 DEF Purging, Pipe, DropsSafely, PurgesSafely
<1>7. CASE target = "all"
  <2>1. PICK a1, a2, a3 :
          /\ <<Stage("apps"), Purge("links", Pages), Purge("docs", Pages)>> = <<a1, a2, a3>>
          /\ a1.do = "apps" /\ a2.do = "links" /\ a3.do = "docs"
    BY <1>1, <1>2
  <2>2. ClearPlan(target) = <<a1, a2, a3>> \o <<s1, s2, s3>>
    BY <1>5, <1>7, <2>1 DEF ClearPlan
  <2>3. <<a1, a2, a3>> \o <<s1, s2, s3>> = <<a1, a2, a3, s1, s2, s3>>
    <3>1. PICK S : S = {a1, a2, a3, s1, s2, s3}
      OBVIOUS
    <3>2. PICK p, q : p = <<a1, a2, a3>> /\ q = <<s1, s2, s3>>
      OBVIOUS
    <3>3. p \in Seq(S) /\ q \in Seq(S) /\ Len(p) = 3 /\ Len(q) = 3
      BY <3>1, <3>2
    <3>4. /\ p \o q \in Seq(S) /\ Len(p \o q) = Len(p) + Len(q)
          /\ \A i \in 1 .. Len(p) + Len(q) : (p \o q)[i] = IF i <= Len(p) THEN p[i] ELSE q[i - Len(p)]
      BY <3>3, ConcatProperties
    <3>5. PICK w : w = p \o q
      OBVIOUS
    <3>6. /\ w \in Seq(S) /\ Len(w) = 6
          /\ \A i \in 1 .. 6 : w[i] = IF i <= 3 THEN p[i] ELSE q[i - 3]
      BY <3>3, <3>4, <3>5
    <3>7. w[1] = a1 /\ w[2] = a2 /\ w[3] = a3 /\ w[4] = s1 /\ w[5] = s2 /\ w[6] = s3
      BY <3>2, <3>6
    <3>8. w = <<a1, a2, a3, s1, s2, s3>>
      BY ONLY <3>6, <3>7
    <3> QED BY <3>2, <3>5, <3>8
  <2>4. Fine(<<a1, a2, a3, s1, s2, s3>>)
    BY <1>5, <2>1 DEF Purging, Pipe, DropsSafely, PurgesSafely
  <2> QED BY <2>2, <2>3, <2>4
<1>8. CASE target = "apps"
  <2>1. PICK s : s = Stage("apps")
    OBVIOUS
  <2>2. Fine(<<s>>)
    BY <1>1, <2>1 DEF Purging, Pipe, DropsSafely, PurgesSafely
  <2> QED BY <1>8, <2>1, <2>2 DEF ClearPlan
<1>9. CASE target = "document_links" \/ target = "web_documents"
  <2>1. PICK s : ClearPlan(target) = <<s>> /\ s.do \in {"links", "docs"}
    BY <1>2, <1>9 DEF ClearPlan
  <2>2. Fine(<<s>>)
    BY <2>1 DEF Purging, Pipe, DropsSafely, PurgesSafely
  <2> QED BY <2>1, <2>2
<1>10. CASE target = "intents"
  <2>1. PICK a1, a2, a3 :
          /\ ClearPlan(target) = <<a1, a2, a3>>
          /\ a1.do = "vectors" /\ a1.items = {Intent} /\ a2.do = "fts" /\ a3.do = "forget"
    BY <1>1, <1>2, <1>10 DEF ClearPlan
  <2>2. Fine(<<a1, a2, a3>>)
    BY <2>1 DEF Purging, Pipe, DropsSafely, PurgesSafely
  <2> QED BY <2>1, <2>2
<1>11. CASE target \in {"web", "local"}
  BY <1>3, <1>4, <1>11 DEF ClearPlan
<1>12. CASE target = "lancedb"
  BY <1>5, <1>6, <1>12 DEF ClearPlan
<1> QED BY <1>7, <1>8, <1>9, <1>10, <1>11, <1>12, IndexAssumption

-----------------------------------------------------------------------------
(* The plan of the operation under way                                     *)

\* An operation is one or the other, and db.clear is not cancelled.
PlanKind(j) ==
  \/ Piping(j.plan)
  \/ Purging(j.plan) /\ DropsSafely(j.plan) /\ ~j.cancelled

\* Deleting these vectors takes none from an application that has its flag.
Spared(items) ==
  /\ Meta \notin items
  /\ \A m \in Models : \A a \in flag[m] : docs[a] \cap items = {}

\* db.clear deletes vectors of pages only after it reset the flags of those who
\* have them.
SparedInv ==
  \A i \in DOMAIN job.plan, items \in SUBSET Items :
    job.plan[i].do = "vectors" /\ job.plan[i].items = items =>
      \/ Spared(items)
      \/ items \subseteq Pages /\ Head(job.plan).do = "unflag" /\ Head(job.plan).items = items

\* What is known of the plan.
PlanInv == PlanKind(job) /\ SparedInv

\* The elements of what is left of a sequence.
LEMMA TailIs ==
  ASSUME NEW S, NEW p \in Seq(S), p # <<>>
  PROVE  /\ \A i \in DOMAIN Tail(p) : i \in Nat /\ i + 1 \in DOMAIN p /\ Tail(p)[i] = p[i + 1]
         /\ \A k \in DOMAIN p : k \in Nat /\ (k > 1 => k - 1 \in DOMAIN Tail(p) /\ Tail(p)[k - 1] = p[k])
         /\ 1 \in DOMAIN p /\ Head(p) = p[1]
         /\ \A k \in DOMAIN p : k = 1 \/ k > 1
<1>1. Len(p) \in Nat /\ Len(p) > 0 /\ DOMAIN p = 1 .. Len(p)
  OBVIOUS
<1>2. Tail(p) \in Seq(S) /\ Len(Tail(p)) = Len(p) - 1 /\ \A i \in 1 .. Len(p) - 1 : Tail(p)[i] = p[i + 1]
  OBVIOUS
<1>3. DOMAIN Tail(p) = 1 .. Len(p) - 1
  BY <1>1, <1>2
<1>4. Head(p) = p[1]
  OBVIOUS
<1> QED BY <1>1, <1>2, <1>3, <1>4

\* What is left of a plan is of the same kind.
LEMMA TailKinds ==
  ASSUME NEW S, NEW p \in Seq(S), p # <<>>
  PROVE  /\ Piping(p) => Piping(Tail(p)) /\ Head(p).do \in Pipe
         /\ Purging(p) => Purging(Tail(p)) /\ Head(p).do \notin Pipe
         /\ DropsSafely(p) => DropsSafely(Tail(p))
<1>1. Piping(p) => Piping(Tail(p)) /\ Head(p).do \in Pipe
  BY TailIs DEF Piping
<1>2. Purging(p) => Purging(Tail(p)) /\ Head(p).do \notin Pipe
  BY TailIs DEF Purging
<1>3. ASSUME DropsSafely(p), NEW i \in DOMAIN Tail(p), Tail(p)[i].do = "drop"
      PROVE  \E k \in DOMAIN Tail(p) : k > i /\ Tail(p)[k].do = "unflagCurrent"
  <2>1. i \in Nat /\ i + 1 \in DOMAIN p /\ p[i + 1].do = "drop"
    BY <1>3, TailIs
  <2>2. PICK k \in DOMAIN p : k > i + 1 /\ p[k].do = "unflagCurrent"
    BY <1>3, <2>1 DEF DropsSafely
  <2>3. k \in Nat /\ (k > 1 => k - 1 \in DOMAIN Tail(p) /\ Tail(p)[k - 1] = p[k])
    BY TailIs
  <2>4. k > 1 /\ k - 1 > i
    BY <2>1, <2>2, <2>3
  <2> QED BY <2>2, <2>3, <2>4
<1> QED BY <1>1, <1>2, <1>3 DEF DropsSafely

\* Without a plan there is nothing to keep.
LEMMA NoPlan ==
  ASSUME job'.plan = <<>>
  PROVE  PlanInv'
<1> QED BY DEF PlanInv, PlanKind, Piping, SparedInv

\* Nothing of a pipeline's plan deletes vectors.
LEMMA PipingPlan ==
  ASSUME Piping(job'.plan)
  PROVE  PlanInv'
<1> QED BY DEF PlanInv, PlanKind, Piping, Pipe, SparedInv

\* The stage under way tells which kind of plan it is.
LEMMA PipesOrPurges ==
  ASSUME TypeInv, PlanInv, job.plan # <<>>
  PROVE  /\ Head(job.plan).do \in Pipe => Piping(job.plan)
         /\ Head(job.plan).do \notin Pipe => Purging(job.plan) /\ DropsSafely(job.plan) /\ ~job.cancelled
<1>1. job.plan \in Seq(Stages)
  BY JobIs DEF GoodPlan
<1> QED BY <1>1, TailKinds DEF PlanInv, PlanKind

\* A stage of a pipeline that goes on, comes to its end or fails.
LEMMA PipePlan ==
  ASSUME TypeInv, PlanInv, job.plan # <<>>, Head(job.plan).do \in Pipe,
         job'.plan = job.plan \/ job' = Then(job) \/ job'.plan = <<>>
  PROVE  PlanInv' /\ Piping(job.plan) /\ Piping(job'.plan)
<1>1. Piping(job.plan)
  BY PipesOrPurges
<1>2. job \in JobRecords /\ GoodPlan(job.plan) /\ job.plan \in Seq(Stages)
  BY JobIs DEF GoodPlan
<1>3. Piping(Tail(job.plan)) /\ Piping(<<>>)
  BY <1>1, <1>2, TailKinds DEF Piping
<1>4. job' = Then(job) => job'.plan \in {<<>>, Tail(job.plan)}
  BY <1>2, ThenSound
<1>5. Piping(job'.plan)
  BY <1>1, <1>3, <1>4
<1> QED BY <1>1, <1>5, PipingPlan

\* The steps of the pipeline's stages.
PipeStep ==
  \/ EnterScan \/ EnterFetch \/ EnterLocal \/ EnterKeywords
  \/ \E a \in Apps : ScanApp(a) \/ Keyword(a) \/ FetchApp(a) \/ AskToc(a) \/ TocArrives(a)
                     \/ LocalApp(a) \/ VectorizeApp(a)
  \/ FetchPage \/ PagesDone \/ ReadFile \/ FileStored \/ FilesDone
  \/ EnterVectorize \/ EnterIntents \/ UnlistIntents
  \/ Embed \/ Abandon \/ SaveNothing \/ CreateTable \/ DeleteRows \/ AddRows
  \/ Unlist \/ List \/ SetFlag

\* A step of a pipeline keeps the plan, comes to the next stage or throws.
LEMMA PipeSteps ==
  ASSUME TypeInv, PipeStep
  PROVE  /\ job.plan # <<>> /\ Head(job.plan).do \in Pipe
         /\ job'.plan = job.plan \/ job' = Then(job) \/ job'.plan = <<>>
<1>1. job \in JobRecords
  BY JobIs
<1>2. CASE Embed \/ Abandon \/ SaveNothing \/ CreateTable \/ DeleteRows \/ AddRows \/ Unlist \/ List \/ SetFlag
  <2>1. job.phase \in {"embed", "save", "add", "unlist", "list", "flag"}
    BY <1>2 DEF Embed, Abandon, SaveNothing, CreateTable, DeleteRows, AddRows, Unlist, List, SetFlag
  <2>2. job.plan # <<>> /\ Head(job.plan).do \in Pipe
    BY <2>1, PhaseStage DEF Pipe
  <2>3. CASE Embed
    <3>1. \E left, got, by, clean, phase :
            job' = [job EXCEPT !.left = left, !.clean = clean, !.got = got, !.by = by, !.phase = phase]
      <4>1. PICK t, ok : job' = [job EXCEPT !.left = @ \ {t}, !.clean = @ /\ ok,
                           !.got = IF ok THEN @ \cup {t} ELSE @,
                           !.by = IF ok THEN @ \cup {Embedder} ELSE @,
                           !.phase = IF job.left = {t} THEN "save" ELSE "embed"]
        BY <2>3 DEF Embed
      <4>2. job' = [job EXCEPT !.left = job.left \ {t}, !.clean = job.clean /\ ok,
                           !.got = IF ok THEN job.got \cup {t} ELSE job.got,
                           !.by = IF ok THEN job.by \cup {Embedder} ELSE job.by,
                           !.phase = IF job.left = {t} THEN "save" ELSE "embed"]
        BY <4>1
      <4> QED BY <4>2
    <3> QED BY <1>1, <2>2, <3>1 DEF JobRecords
  <2>4. CASE Abandon
    BY <1>1, <2>2, <2>4 DEF Abandon, JobRecords
  <2>5. CASE NextApp
    BY <2>2, <2>5, NextAppIs
  <2>6. CASE Fail
    BY <2>2, <2>6 DEF Fail, Idle
  <2>7. CASE \E phase : job' = [job EXCEPT !.phase = phase]
    BY <2>2, <2>7, PhaseIs
  <2>8. CASE SaveNothing \/ CreateTable \/ DeleteRows \/ AddRows \/ Unlist \/ List \/ SetFlag
    <3>1. NextApp \/ Fail \/ \E phase : job' = [job EXCEPT !.phase = phase]
      BY <2>8 DEF SaveNothing, CreateTable, DeleteRows, AddRows, Unlist, List, SetFlag
    <3> QED BY <2>5, <2>6, <2>7, <3>1
  <2> QED BY <1>2, <2>3, <2>4, <2>8
<1>3. CASE EnterVectorize \/ EnterIntents \/ UnlistIntents
  <2>1. job.plan # <<>> /\ Head(job.plan).do \in Pipe
    BY <1>3 DEF EnterVectorize, EnterIntents, UnlistIntents, Doing, Pipe
  <2>2. \/ job' = Then(job) \/ \E phase : job' = [job EXCEPT !.phase = phase]
        \/ \E col, todo : job' = [job EXCEPT !.phase = "next", !.col = col, !.todo = todo]
        \/ \E left : job' = [job EXCEPT !.phase = "embed", !.left = left]
    BY <1>3 DEF EnterVectorize, EnterIntents, UnlistIntents
  <2> QED BY <1>1, <2>1, <2>2 DEF JobRecords
<1>4. CASE \E a \in Apps : ScanApp(a) \/ Keyword(a) \/ FetchApp(a) \/ AskToc(a) \/ TocArrives(a)
                           \/ LocalApp(a) \/ VectorizeApp(a)
  <2>1. PICK a \in Apps : ScanApp(a) \/ Keyword(a) \/ FetchApp(a) \/ AskToc(a) \/ TocArrives(a)
                          \/ LocalApp(a) \/ VectorizeApp(a)
    BY <1>4
  <2>2. job.plan # <<>> /\ Head(job.plan).do \in Pipe
    BY <2>1 DEF ScanApp, Keyword, FetchApp, AskToc, TocArrives, LocalApp, VectorizeApp, Doing, Pipe
  <2>3. CASE ScanApp(a) \/ FetchApp(a) \/ AskToc(a) \/ LocalApp(a)
    BY <1>1, <2>2, <2>3 DEF ScanApp, FetchApp, AskToc, LocalApp, JobRecords
  <2>4. CASE Keyword(a)
    <3>1. \E todo, clean : job' = [job EXCEPT !.todo = todo, !.clean = clean]
      BY <2>4 DEF Keyword
    <3> QED BY <1>1, <2>2, <3>1 DEF JobRecords
  <2>5. CASE VectorizeApp(a)
    <3>1. \E todo, left : job' = [job EXCEPT !.phase = "embed", !.todo = todo, !.left = left]
      BY <2>5 DEF VectorizeApp
    <3> QED BY <1>1, <2>2, <3>1 DEF JobRecords
  <2>6. CASE TocArrives(a)
    <3>1. job' = Then(job) \/ \E todo, left, got :
            job' = [job EXCEPT !.phase = "pages", !.todo = todo, !.left = left, !.got = got]
      BY <2>6, TocStored
    <3> QED BY <1>1, <2>2, <3>1 DEF JobRecords
  <2> QED BY <2>1, <2>3, <2>4, <2>5, <2>6
<1>5. CASE \/ EnterScan \/ EnterFetch \/ EnterLocal \/ EnterKeywords
           \/ FetchPage \/ PagesDone \/ ReadFile \/ FileStored \/ FilesDone
  <2>1. job.plan # <<>> /\ Head(job.plan).do \in Pipe
    BY <1>5 DEF EnterScan, EnterFetch, EnterLocal, EnterKeywords, FetchPage, PagesDone, ReadFile, FileStored,
       FilesDone, Doing, Pipe
  <2>2. CASE EnterScan \/ EnterFetch \/ EnterLocal \/ EnterKeywords
    BY <1>1, <2>1, <2>2 DEF EnterScan, EnterFetch, EnterLocal, EnterKeywords, Loop, JobRecords
  <2>3. CASE FetchPage
    <3>1. \E left, clean : job' = [job EXCEPT !.left = left, !.clean = clean]
      BY <2>3 DEF FetchPage
    <3> QED BY <1>1, <2>1, <3>1 DEF JobRecords
  <2>4. CASE PagesDone \/ ReadFile \/ FileStored \/ FilesDone
    BY <1>1, <2>1, <2>4 DEF PagesDone, ReadFile, FileStored, FilesDone, JobRecords
  <2> QED BY <1>5, <2>1, <2>2, <2>3, <2>4
<1> QED BY <1>2, <1>3, <1>4, <1>5 DEF PipeStep

\* Operations that begin, choose a process, are cancelled and end.
LEMMA MovesPlan ==
  ASSUME TypeInv, PlanInv, \/ EndStage \/ Answer \/ Cancel \/ KillChild \/ ChooseProcess
                           \/ Sync \/ Single \/ Clear
  PROVE  PlanInv'
<1>1. job \in JobRecords /\ GoodPlan(job.plan) /\ job.plan \in Seq(Stages)
  BY JobIs DEF GoodPlan
<1>2. CASE EndStage \/ KillChild
  <2>1. job' = Then(job) /\ job.plan # <<>>
    BY <1>2, JobIs DEF EndStage, KillChild, InChild
  <2>2. Head(job.plan).do \in Pipe
    <3>1. CASE EndStage
      BY <2>1, <3>1, JobIs DEF EndStage, StagesWith, Pipe
    <3>2. CASE KillChild
      BY <3>2, JobIs DEF KillChild, InChild, GoodStage, InChildren, Pipe
    <3> QED BY <1>2, <3>1, <3>2
  <2> QED BY <2>1, <2>2, PipePlan
<1>3. CASE Answer
  BY <1>3, NoPlan DEF Answer, Idle
<1>4. CASE Cancel
  <2>1. job'.plan = job.plan /\ job.plan # <<>> /\ Head(job.plan).do \in Pipe
    BY <1>1, <1>4 DEF Cancel, Cancellable, Pipe, JobRecords
  <2> QED BY <2>1, PipePlan
<1>5. CASE ChooseProcess
  <2>1. job.plan # <<>> /\ Head(job.plan).do = "model"
    BY <1>5 DEF ChooseProcess, Doing
  <2>2. Piping(job.plan) /\ Piping(Tail(job.plan)) /\ Tail(job.plan) \in Seq(Stages)
    BY <1>1, <2>1, PipesOrPurges, TailKinds DEF Pipe
  <2>3. PICK m : m = Head(job.plan).model
    OBVIOUS
  <2>4. m \in Models
    BY <2>1, <2>3, JobIs DEF GoodStage, Stages
  <2>5. PICK first : first = IF m = config.model THEN <<Stage("vectorize")>>
                             ELSE <<Child("vectorize", m), Child("intents", m)>>
    OBVIOUS
  <2>6. first \in Seq(PipeStages)
    <3>1. /\ Stage("vectorize") \in PipeStages /\ Child("vectorize", m) \in PipeStages
          /\ Child("intents", m) \in PipeStages
      BY <2>4, StagesAreGood DEF Kinds, InChildren, GoodStage, PipeStages, Pipe, Child, Stage
    <3> QED BY <2>5, <3>1
  <2>7. Tail(job.plan) \in Seq(PipeStages)
    BY <2>2, PipingIs
  <2>8. PICK plan : plan = first \o Tail(job.plan)
    OBVIOUS
  <2>9. plan \in Seq(PipeStages)
    BY <2>6, <2>7, <2>8, Joined
  <2>10. Piping(plan)
    <3>1. \A i \in DOMAIN plan : plan[i] \in PipeStages
      BY <2>9
    <3> QED BY <3>1 DEF Piping, PipeStages
  <2>11. job' = [job EXCEPT !.plan = plan]
    BY <1>5, <2>3, <2>5, <2>8 DEF ChooseProcess
  <2>12. job'.plan = plan
    BY <1>1, <2>11 DEF JobRecords
  <2> QED BY <2>10, <2>12, PipingPlan
<1>6. CASE Sync \/ Single
  <2>1. PICK plan, clean : Start(plan, clean) /\ Piping(plan)
    <3>1. CASE Sync
      BY <3>1, SyncPipes DEF Sync
    <3>2. CASE Single
      <4>1. PICK what \in {"scan", "fetch", "local", "keywords", "vectorize", "intents"} :
              Start(<<Stage(what)>>, FALSE)
        BY <3>2 DEF Single
      <4>2. Piping(<<Stage(what)>>)
        BY DEF Piping, Pipe, Stage
      <4> QED BY <4>1, <4>2
    <3> QED BY <1>6, <3>1, <3>2
  <2>2. job'.plan = plan
    BY <2>1 DEF Start, Idle
  <2> QED BY <2>1, <2>2, PipingPlan
<1>7. CASE Clear
  <2>1. PICK target \in Targets : Start(ClearPlan(target), FALSE)
    BY <1>7 DEF Clear
  <2>2. PICK plan : plan = ClearPlan(target)
    OBVIOUS
  <2>3. Purging(plan) /\ DropsSafely(plan) /\ PurgesSafely(plan)
    BY <2>2, ClearPurges
  <2>4. job'.plan = plan /\ ~job'.cancelled /\ UNCHANGED <<flag, docs>>
    BY <2>1, <2>2 DEF Start, Idle, index, store
  <2>5. ASSUME NEW items, items = {Intent}
        PROVE  Spared(items)'
    <3>1. \A m \in Models : \A a \in flag[m] : docs[a] \in SUBSET Pages
      BY DEF TypeInv, StoreTypes, IndexTypes
    <3>2. Meta \notin items /\ \A m \in Models : \A a \in flag'[m] : docs'[a] \cap items = {}
      BY <2>4, <2>5, <3>1, IndexAssumption DEF Pages
    <3> QED BY <3>2 DEF Spared
  <2>6. SparedInv'
    <3> SUFFICES ASSUME NEW i \in DOMAIN job'.plan, NEW items \in SUBSET Items,
                        job'.plan[i].do = "vectors", job'.plan[i].items = items
                 PROVE  \/ Spared(items)'
                        \/ items \subseteq Pages /\ Head(job'.plan).do = "unflag" /\ Head(job'.plan).items = items
      BY DEF SparedInv
    <3>1. i \in DOMAIN plan /\ plan[i].do = "vectors" /\ plan[i].items = items
      BY <2>4
    <3>2. CASE items = {Intent}
      BY <2>5, <3>1, <3>2
    <3>3. CASE items # {Intent}
      BY <2>3, <2>4, <3>1, <3>3 DEF PurgesSafely
    <3> QED BY <3>2, <3>3
  <2> QED BY <2>3, <2>4, <2>6 DEF PlanInv, PlanKind
<1> QED BY <1>2, <1>3, <1>4, <1>5, <1>6, <1>7

-----------------------------------------------------------------------------
(* db.clear and the flags                                                  *)

\* Flags an operation has still to reset: of the current model while its table
\* is dropped, of the application whose pages are being stored.
Unsettled(m, a) ==
  \/ m = config.model /\ \E k \in DOMAIN job.plan : job.plan[k].do = "unflagCurrent"
  \/ job.phase = "pages" /\ \E t \in job.got : t[1] = a

\* The flag tells the truth: the documents of the application are in that
\* table.
Settled(m, a) == m \in tables /\ Body(a) \subseteq vec[m]

\* A flag tells the truth or is about to be reset.
FlagInv == \A m \in Models : \A a \in flag[m] : Unsettled(m, a) \/ Settled(m, a)

\* The rows of an application in a vector table.
LEMMA BodyIs ==
  ASSUME NEW a, NEW r
  PROVE  r \in Body(a) <=> \E i \in docs[a] \cup {Meta} : r = <<NameOf[a], i>>
<1> QED BY DEF Body

\* A statement of db.clear.
LEMMA StatementIs ==
  ASSUME TypeInv, PlanInv, NEW what, what \notin Pipe, Statement(what)
  PROVE  /\ job.plan # <<>> /\ Head(job.plan).do = what /\ job.phase = "enter"
         /\ job.plan \in Seq(Stages) /\ Purging(job.plan) /\ DropsSafely(job.plan)
         /\ job'.plan = Tail(job.plan) /\ job'.phase \in {"enter", "answer"} /\ ~job'.cancelled
<1>1. job.plan # <<>> /\ Head(job.plan).do = what /\ job.phase = "enter" /\ job' = Then(job)
  BY DEF Statement, Doing
<1>2. Purging(job.plan) /\ DropsSafely(job.plan) /\ ~job.cancelled
  BY <1>1, PipesOrPurges
<1>3. GoodPlan(job.plan) /\ job \in JobRecords
  BY JobIs
<1>4. job'.phase \in {"enter", "answer"} /\ job'.cancelled = job.cancelled
  BY <1>1, <1>3, ThenSound
<1>5. job'.plan = Tail(job.plan)
  BY <1>1, <1>2 DEF Then, Idle
<1> QED BY <1>1, <1>2, <1>3, <1>4, <1>5 DEF GoodPlan

\* The statements of db.clear.
ClearStep ==
  \/ ClearApps \/ ClearLinks \/ ClearDocs \/ DropTable \/ ClearFts
  \/ ClearVectors \/ UnflagAffected \/ UnflagCurrent \/ ForgetKeywords

\* Where a statement of db.clear runs and where it leads.
LEMMA ClearIs ==
  ASSUME TypeInv, PlanInv, ClearStep
  PROVE  /\ job.plan # <<>> /\ job.phase = "enter" /\ job.plan \in Seq(Stages)
         /\ Purging(job.plan) /\ DropsSafely(job.plan)
         /\ job'.plan = Tail(job.plan) /\ job'.phase \in {"enter", "answer"} /\ ~job'.cancelled
         /\ Head(job.plan).do = "unflag" => UnflagAffected
         /\ Head(job.plan).do = "unflagCurrent" => UnflagCurrent
<1>1. PICK what \in {"apps", "links", "docs", "drop", "fts", "vectors", "unflag", "unflagCurrent", "forget"} :
        /\ Statement(what)
        /\ (what = "unflag" => UnflagAffected) /\ (what = "unflagCurrent" => UnflagCurrent)
  BY DEF ClearStep, ClearApps, ClearLinks, ClearDocs, DropTable, ClearFts, ClearVectors, UnflagAffected,
         UnflagCurrent, ForgetKeywords
<1>2. what \notin Pipe
  BY DEF Pipe
<1> QED BY <1>1, <1>2, StatementIs

\* db.clear sets no flag and adds no document.
LEMMA ClearTakes ==
  ASSUME TypeInv, ClearStep
  PROVE  /\ \A m \in Models : flag'[m] \subseteq flag[m]
         /\ \A a \in Apps : docs'[a] \subseteq docs[a]
         /\ UNCHANGED config
<1>1. UNCHANGED config
  BY DEF ClearStep, ClearApps, ClearLinks, ClearDocs, DropTable, ClearFts, ClearVectors, UnflagAffected,
         UnflagCurrent, ForgetKeywords
<1>2. \A m \in Models : flag'[m] \subseteq flag[m]
  <2>1. flag \in [Models -> SUBSET known]
    BY DEF TypeInv, IndexTypes
  <2>2. \/ flag' = flag \/ flag' = [m \in Models |-> {}] \/ \E apps : flag' = [m \in Models |-> flag[m] \ apps]
        \/ flag' = [flag EXCEPT ![config.model] = {}]
    BY DEF ClearStep, ClearApps, ClearLinks, ClearDocs, DropTable, ClearFts, ClearVectors, UnflagAffected, Unflag,
         UnflagCurrent, ForgetKeywords, index
  <2> QED BY <2>1, <2>2
<1>3. \A a \in Apps : docs'[a] \subseteq docs[a]
  <2>1. docs' = docs \/ docs' = [a \in Apps |-> docs[a] \ Purged]
    BY DEF ClearStep, ClearApps, ClearLinks, ClearDocs, DropTable, ClearFts, ClearVectors, UnflagAffected,
         UnflagCurrent, ForgetKeywords, store
  <2> QED BY <2>1
<1> QED BY <1>1, <1>2, <1>3

\* The statements of db.clear keep what is known of its plan.
LEMMA ClearPlanKeeps ==
  ASSUME TypeInv, PlanInv, ClearStep
  PROVE  PlanInv'
<1>1. /\ job.plan # <<>> /\ job.plan \in Seq(Stages) /\ Purging(job.plan) /\ DropsSafely(job.plan)
      /\ job'.plan = Tail(job.plan) /\ ~job'.cancelled
  BY ClearIs
<1>2. PlanKind(job')
  BY <1>1, TailKinds DEF PlanKind
<1>3. ASSUME NEW items, Spared(items)
      PROVE  Spared(items)'
  <2>1. \A m \in Models : \A a \in flag'[m] : a \in flag[m] /\ docs'[a] \subseteq docs[a]
    BY ClearTakes DEF TypeInv, IndexTypes, StoreTypes
  <2> QED BY <1>3, <2>1 DEF Spared
<1>4. ASSUME NEW items \in SUBSET Pages, UnflagAffected, Head(job.plan).items = items
      PROVE  Spared(items)'
  <2>1. flag' = [m \in Models |-> flag[m] \ {a \in Apps : links[a] \cap items # {}}] /\ docs' = docs
    BY <1>4 DEF UnflagAffected, Unflag, Purged, store
  <2>2. \A m \in Models : \A a \in flag'[m] : a \in Apps /\ links[a] \cap items = {} /\ docs'[a] \subseteq links[a]
    BY <2>1 DEF TypeInv, IndexTypes, StoreTypes
  <2>3. Meta \notin items
    BY IndexAssumption DEF Pages
  <2> QED BY <2>2, <2>3 DEF Spared
<1>5. ASSUME NEW i \in DOMAIN job'.plan, NEW items \in SUBSET Items,
             job'.plan[i].do = "vectors", job'.plan[i].items = items
      PROVE  Spared(items)'
  <2>1. i + 1 \in DOMAIN job.plan /\ job.plan[i + 1] = job'.plan[i]
    BY <1>1, TailIs
  <2>2. \/ Spared(items)
        \/ items \subseteq Pages /\ Head(job.plan).do = "unflag" /\ Head(job.plan).items = items
    BY <1>5, <2>1 DEF PlanInv, SparedInv
  <2> QED BY <1>3, <1>4, <2>2, ClearIs
<1>6. SparedInv'
  BY <1>5 DEF SparedInv
<1> QED BY <1>2, <1>6 DEF PlanInv

\* db.clear leaves no flag that lies beyond its end.
LEMMA ClearFlags ==
  ASSUME TypeInv, ConfigInv, PlanInv, FlagInv, ClearStep
  PROVE  FlagInv'
<1>1. /\ job.plan # <<>> /\ job.phase = "enter" /\ job.plan \in Seq(Stages)
      /\ DropsSafely(job.plan) /\ job'.plan = Tail(job.plan)
  BY ClearIs
<1>2. SUFFICES ASSUME NEW m \in Models, NEW a \in flag'[m]
               PROVE  Unsettled(m, a)' \/ Settled(m, a)'
  BY DEF FlagInv
<1>3. a \in flag[m] /\ a \in Apps /\ docs'[a] \subseteq docs[a] /\ config' = config
  BY <1>2, ClearTakes DEF TypeInv, StoreTypes, IndexTypes
<1>4. ASSUME NEW k \in DOMAIN job.plan, k > 1, job.plan[k].do = "unflagCurrent", m = config.model
      PROVE  Unsettled(m, a)'
  <2>1. k - 1 \in DOMAIN job'.plan /\ job'.plan[k - 1].do = "unflagCurrent"
    BY <1>1, <1>4, TailIs
  <2> QED BY <1>3, <1>4, <2>1 DEF Unsettled
<1>5. CASE Unsettled(m, a)
  <2>1. PICK k \in DOMAIN job.plan : job.plan[k].do = "unflagCurrent" /\ m = config.model
    BY <1>1, <1>5 DEF Unsettled
  <2>2. k # 1
    <3>1. CASE k = 1
      <4>1. UnflagCurrent
        BY <1>1, <2>1, <3>1, TailIs, ClearIs
      <4>2. flag' = [flag EXCEPT ![m] = {}]
        BY <2>1, <4>1 DEF UnflagCurrent
      <4> QED BY <1>2, <4>2 DEF TypeInv, IndexTypes
    <3> QED BY <3>1
  <2> QED BY <1>1, <1>4, <2>1, <2>2, TailIs
<1>6. CASE Settled(m, a)
  <2>1. m \in tables /\ \A i \in docs[a] \cup {Meta} : <<NameOf[a], i>> \in vec[m]
    BY <1>6, BodyIs DEF Settled
  <2>2. ASSUME m \in tables', \A i \in docs'[a] \cup {Meta} : <<NameOf[a], i>> \in vec'[m]
        PROVE  Settled(m, a)'
    BY <2>2 DEF Settled, Body
  <2>3. CASE UNCHANGED <<tables, vec>>
    BY <1>3, <2>1, <2>2, <2>3
  <2>4. CASE DropTable
    <3>1. PICK c : c = Connected.to
      OBVIOUS
    <3>2. c = config.model
      <4>1. config.model = config.file
        BY <1>1 DEF ConfigInv
      <4> QED BY <3>1, <4>1, LinksAre DEF Reached
    <3>3. CASE c \in tables /\ m = c
      <4>1. Head(job.plan).do = "drop"
        BY <2>4 DEF DropTable, Statement, Doing
      <4>2. 1 \in DOMAIN job.plan /\ job.plan[1].do = "drop"
        BY <1>1, <4>1, TailIs
      <4>3. PICK k \in DOMAIN job.plan : k > 1 /\ job.plan[k].do = "unflagCurrent"
        BY <1>1, <4>2 DEF DropsSafely
      <4> QED BY <1>4, <3>2, <3>3, <4>3
    <3>4. CASE c \in tables /\ m # c
      <4>1. tables' = tables \ {c} /\ vec' = [vec EXCEPT ![c] = {}]
        BY <2>4, <3>1, <3>4 DEF DropTable
      <4> QED BY <1>3, <2>1, <2>2, <3>4, <4>1 DEF TypeInv, IndexTypes
    <3>5. CASE c \notin tables
      BY <1>3, <2>1, <2>2, <2>4, <3>1, <3>5 DEF DropTable
    <3> QED BY <3>3, <3>4, <3>5
  <2>5. CASE ClearVectors
    <3>1. PICK items : items = Purged
      OBVIOUS
    <3>2. PICK n : n = Connected.table
      OBVIOUS
    <3>3. tables' = tables /\ docs' = docs
          /\ vec' = IF n = NoModel THEN vec ELSE [vec EXCEPT ![n] = {r \in @ : r[2] \notin items}]
      BY <2>5, <3>1, <3>2 DEF ClearVectors, store
    <3>4. Head(job.plan).do = "vectors" /\ Head(job.plan).items = items
      BY <2>5, <3>1 DEF ClearVectors, Statement, Doing, Purged
    <3>5. Spared(items)
      <4>1. 1 \in DOMAIN job.plan /\ job.plan[1] = Head(job.plan) /\ Head(job.plan) \in Stages
        BY <1>1, TailIs
      <4>2. items \in SUBSET Items
        BY <3>4, <4>1 DEF Stages
      <4> QED BY <3>4, <4>1, <4>2 DEF PlanInv, SparedInv
    <3>6. \A i \in docs[a] \cup {Meta} : i \notin items
      BY <1>3, <3>5 DEF Spared
    <3>7. \A i \in docs[a] \cup {Meta} : <<NameOf[a], i>> \in vec'[m]
      BY <2>1, <3>3, <3>6 DEF TypeInv, IndexTypes
    <3> QED BY <2>1, <2>2, <3>3, <3>7
  <2> QED BY <2>3, <2>4, <2>5 DEF ClearStep, ClearApps, ClearLinks, ClearDocs, ClearFts, UnflagAffected,
           UnflagCurrent, ForgetKeywords, index
<1> QED BY <1>3, <1>5, <1>6 DEF FlagInv

-----------------------------------------------------------------------------
(* runVectorize and the flags                                              *)

\* A job that embeds or saves application a, whose documents these are, for a
\* model with these flags.
OneApp(j, a, body, flags) ==
  /\ a \notin flags /\ a \notin j.todo
  /\ \A t \in j.left \cup j.got : t[1] = a
  /\ \A i \in body : <<a, i>> \in j.left \cup j.got
  /\ j.phase # "embed" => j.left = {}

\* runVectorize has in hand an application without its flag, with all its
\* documents, and saves all of them before it sets it.
TodoInv ==
  In(job, "vectorize") =>
    /\ job.todo \cap flag[Embedder] = {}
    /\ job.phase \in Embedding => \E a \in Apps : OneApp(job, a, docs[a] \cup {Meta}, flag[Embedder])
    /\ job.phase \in {"unlist", "list", "flag"} => Rows \subseteq vec[Embedder]

\* What a page is fetched for has its flags reset in the end.
FetchInv == At(job, "fetch", "pages") => job.left \subseteq job.got

\* What the truth of the flags rests on; inductive with the other three.
SettledInv == PlanInv /\ FlagInv /\ TodoInv /\ FetchInv

\* Flags are settled as they were.
LEMMA FlagsStay ==
  ASSUME TypeInv, FlagInv, UNCHANGED <<config, docs>>, tables \subseteq tables',
         \A m \in Models : flag'[m] \subseteq flag[m] /\ vec[m] \subseteq vec'[m],
         Piping(job.plan) \/ job'.plan = job.plan,
         job.phase = "pages" =>
           \A m \in Models : \A t \in job.got : t[1] \notin flag'[m] \/ (job'.phase = "pages" /\ t \in job'.got)
  PROVE  FlagInv'
<1>1. SUFFICES ASSUME NEW m \in Models, NEW a \in flag'[m]
               PROVE  Unsettled(m, a)' \/ Settled(m, a)'
  BY DEF FlagInv
<1>2. a \in flag[m]
  BY <1>1
<1>3. CASE Settled(m, a)
  BY <1>3 DEF Settled, Body
<1>4. CASE m = config.model /\ \E k \in DOMAIN job.plan : job.plan[k].do = "unflagCurrent"
  BY <1>4 DEF Piping, Pipe, Unsettled
<1>5. CASE job.phase = "pages" /\ \E t \in job.got : t[1] = a
  BY <1>1, <1>5 DEF Unsettled
<1> QED BY <1>2, <1>3, <1>4, <1>5 DEF FlagInv, Unsettled

\* Outside runVectorize and the fetching of pages there is nothing to keep.
LEMMA NoTodo ==
  ASSUME ~In(job', "vectorize"), ~At(job', "fetch", "pages")
  PROVE  TodoInv' /\ FetchInv'
<1> QED BY DEF TodoInv, FetchInv

\* Nor at the end of a stage.
LEMMA ThenNoTodo ==
  ASSUME TypeInv, job.plan # <<>>, job' = Then(job)
  PROVE  TodoInv' /\ FetchInv' /\ job'.phase # "pages"
<1>1. job \in JobRecords /\ GoodPlan(job.plan)
  BY JobIs
<1>2. JobSound(job', known, links) /\ job'.phase \in {"enter", "answer"}
  BY <1>1, ThenSound
<1>3. job'.phase = "enter" \/ job'.plan = <<>>
  BY <1>2 DEF JobSound
<1> QED BY <1>2, <1>3, NoTodo DEF In, At

\* Steps of a pipeline keep what is known of its plan.
LEMMA PipeStepPlans ==
  ASSUME TypeInv, PlanInv, PipeStep
  PROVE  /\ PlanInv' /\ Piping(job.plan) /\ job.plan # <<>> /\ Head(job.plan).do \in Pipe
         /\ job'.plan = job.plan \/ job' = Then(job) \/ job'.plan = <<>>
<1> QED BY PipeSteps, PipePlan

\* A step that leaves documents, vectors and flags, and the flags of fetched
\* applications to be reset.
LEMMA QuietSettled ==
  ASSUME TypeInv, SettledInv, UNCHANGED <<config, docs, flag, tables, vec>>, PlanInv',
         Piping(job.plan) \/ job'.plan = job.plan, ~In(job', "vectorize"),
         job.phase = "pages" => job'.phase = "pages" /\ job.got \subseteq job'.got,
         At(job', "fetch", "pages") => job'.left \subseteq job'.got
  PROVE  SettledInv'
<1>1. FlagInv'
  BY FlagsStay DEF SettledInv
<1>2. TodoInv' /\ FetchInv'
  BY DEF TodoInv, FetchInv
<1> QED BY <1>1, <1>2 DEF SettledInv

\* Beginning, choosing a process, cancelling and ending keep the flags true.
LEMMA MovesSettled ==
  ASSUME TypeInv, SettledInv, \/ EndStage \/ Answer \/ Cancel \/ KillChild \/ ChooseProcess
                              \/ Sync \/ Single \/ Clear
  PROVE  SettledInv'
<1>1. UNCHANGED <<config, docs, flag, tables, vec>>
  BY DEF EndStage, Answer, Cancel, KillChild, ChooseProcess, Sync, Single, Clear, Start, store, index
<1>2. PlanInv'
  BY MovesPlan DEF SettledInv
<1>3. CASE EndStage \/ KillChild
  <2>1. job.plan # <<>> /\ job' = Then(job)
    BY <1>3, JobIs DEF EndStage, KillChild, InChild
  <2>2. Head(job.plan).do \in Pipe /\ job.phase # "pages"
    <3>1. CASE EndStage
      BY <2>1, <3>1, JobIs DEF EndStage, StagesWith, Pipe
    <3>2. CASE KillChild
      BY <3>2, JobIs DEF KillChild, InChild, GoodStage, InChildren, Pipe, StagesWith
    <3> QED BY <1>3, <3>1, <3>2
  <2>3. Piping(job.plan)
    BY <2>1, <2>2, PipesOrPurges DEF SettledInv
  <2>4. FlagInv'
    BY <1>1, <2>2, <2>3, FlagsStay DEF SettledInv
  <2> QED BY <1>2, <2>1, <2>4, ThenNoTodo DEF SettledInv
<1>4. CASE Answer
  <2>1. job.plan = <<>> /\ job.phase = "answer"
    BY <1>4, JobIs DEF Answer
  <2>2. job'.plan = <<>> /\ Piping(job.plan)
    BY <1>4, <2>1 DEF Answer, Idle, Piping
  <2> QED BY <1>1, <1>2, <2>1, <2>2, QuietSettled DEF In, At
<1>5. CASE Cancel
  <2>1. /\ job'.plan = job.plan /\ job'.phase = job.phase /\ job'.left = job.left /\ job'.got = job.got
        /\ job'.todo = job.todo
    BY <1>5, JobIs DEF Cancel, JobRecords
  <2>2. FlagInv'
    BY <1>1, <2>1, FlagsStay DEF SettledInv
  <2>3. Embedder' = Embedder /\ Rows' = Rows
    BY <1>1, <2>1, SameProcess, SameRows
  <2>4. TodoInv' /\ FetchInv'
    BY <1>1, <2>1, <2>3 DEF SettledInv, TodoInv, FetchInv, In, At, OneApp
  <2> QED BY <1>2, <2>2, <2>4 DEF SettledInv
<1>6. CASE ChooseProcess
  <2>1. job.phase = "enter" /\ \E plan : job' = [job EXCEPT !.plan = plan]
    BY <1>6 DEF ChooseProcess, Doing
  <2>2. job'.phase = "enter"
    BY <2>1, JobIs DEF JobRecords
  <2>3. Piping(job.plan)
    BY <1>6, PipesOrPurges DEF SettledInv, ChooseProcess, Doing, Pipe
  <2> QED BY <1>1, <1>2, <2>1, <2>2, <2>3, QuietSettled DEF In, At
<1>7. CASE Sync \/ Single \/ Clear
  <2>1. PICK plan, clean : Start(plan, clean)
    BY <1>7 DEF Sync, Single, Clear
  <2>2. job'.phase = "enter" /\ job.phase = "idle"
    BY <2>1 DEF Start, Idle
  <2>3. Piping(job.plan)
    BY <2>2, JobIs DEF Piping
  <2> QED BY <1>1, <1>2, <2>2, <2>3, QuietSettled DEF In, At
<1> QED BY <1>3, <1>4, <1>5, <1>6, <1>7

\* Loops begin, applications are taken, tables of contents arrive.
LEMMA LoopSettled ==
  ASSUME TypeInv, SettledInv,
         \/ EnterScan \/ EnterFetch \/ EnterLocal \/ EnterKeywords
         \/ \E a \in Apps : ScanApp(a) \/ Keyword(a) \/ FetchApp(a) \/ AskToc(a) \/ TocArrives(a) \/ LocalApp(a)
  PROVE  SettledInv'
<1>1. UNCHANGED <<config, docs, flag, tables, vec>> /\ PipeStep /\ job.phase \in {"enter", "next", "toc"}
      /\ job.plan # <<>> /\ Head(job.plan).do \in {"scan", "fetch", "local", "keywords"}
  BY DEF EnterScan, EnterFetch, EnterLocal, EnterKeywords, ScanApp, Keyword, FetchApp, AskToc, TocArrives,
         LocalApp, Doing, PipeStep, store, index
<1>2. PlanInv' /\ Piping(job.plan) /\ (job'.plan = job.plan \/ job' = Then(job) \/ job'.plan = <<>>)
  BY <1>1, PipeStepPlans DEF SettledInv
<1>3. CASE job' = Then(job)
  <2>1. FlagInv'
    BY <1>1, <1>2, FlagsStay DEF SettledInv
  <2> QED BY <1>1, <1>2, <1>3, <2>1, ThenNoTodo DEF SettledInv
<1>4. CASE job' # Then(job)
  <2>1. ~In(job', "vectorize")
    BY <1>1, <1>2, <1>4 DEF In
  <2>2. ASSUME At(job', "fetch", "pages")
        PROVE  job'.left \subseteq job'.got
    <3>1. job'.phase = "pages" /\ job'.plan = job.plan /\ Head(job.plan).do = "fetch"
      BY <1>2, <1>4, <2>2 DEF At
    <3>2. job \in JobRecords
      BY JobIs
    <3>3. CASE \E a \in Apps : FetchApp(a)
      BY <3>2, <3>3 DEF FetchApp, JobRecords
    <3>4. ASSUME NEW a \in Apps, TocArrives(a)
          PROVE  job'.left \subseteq job'.got
      <4>1. PICK ts : job' = [job EXCEPT !.phase = "pages", !.todo = @ \ {a}, !.left = ts, !.got = ts]
        BY <1>4, <3>4 DEF TocArrives
      <4> QED BY <3>2, <4>1 DEF JobRecords
    <3>5. CASE \/ EnterScan \/ EnterFetch \/ EnterLocal \/ EnterKeywords
               \/ \E a \in Apps : ScanApp(a) \/ Keyword(a) \/ AskToc(a) \/ LocalApp(a)
      <4>1. CASE EnterScan \/ EnterFetch \/ EnterLocal \/ EnterKeywords
        BY <3>1, <3>2, <4>1 DEF EnterScan, EnterFetch, EnterLocal, EnterKeywords, Loop, JobRecords
      <4>2. ASSUME NEW a \in Apps, ScanApp(a) \/ AskToc(a) \/ LocalApp(a)
            PROVE  FALSE
        BY <3>1, <3>2, <4>2 DEF ScanApp, AskToc, LocalApp, Doing, JobRecords
      <4>3. ASSUME NEW a \in Apps, Keyword(a)
            PROVE  FALSE
        BY <3>1, <4>3 DEF Keyword, Doing
      <4> QED BY <3>5, <4>1, <4>2, <4>3
    <3> QED BY <3>3, <3>4, <3>5
  <2> QED BY <1>1, <1>2, <2>1, <2>2, QuietSettled
<1> QED BY <1>3, <1>4

\* A document comes for an application whose flags are still to be reset.
LEMMA StoredSettled ==
  ASSUME TypeInv, FlagInv, NEW t, docs' = [docs EXCEPT ![t[1]] = @ \cup {t[2]}],
         UNCHANGED <<config, flag, tables, vec>>, Piping(job.plan),
         job'.phase = "pages", job.got \subseteq job'.got, t \in job'.got
  PROVE  FlagInv'
<1>1. SUFFICES ASSUME NEW m \in Models, NEW a \in flag[m]
               PROVE  Unsettled(m, a)' \/ Settled(m, a)'
  BY DEF FlagInv
<1>2. CASE a = t[1]
  BY <1>2 DEF Unsettled
<1>3. CASE a # t[1] /\ Settled(m, a)
  <2>1. a \in Apps
    BY <1>1 DEF TypeInv, StoreTypes, IndexTypes
  <2>2. docs'[a] = docs[a]
    BY <1>3, <2>1 DEF TypeInv, StoreTypes
  <2> QED BY <1>3, <2>2 DEF Settled, Body
<1>4. CASE Unsettled(m, a)
  <2>1. job.phase = "pages" /\ \E u \in job.got : u[1] = a
    BY <1>4 DEF Unsettled, Piping, Pipe
  <2> QED BY <2>1 DEF Unsettled
<1> QED BY <1>1, <1>2, <1>3, <1>4 DEF FlagInv

\* Pages and files keep the flags true: those of the application are reset once
\* they are stored.
LEMMA PagesSettled ==
  ASSUME TypeInv, SettledInv, FetchPage \/ PagesDone \/ ReadFile \/ FileStored \/ FilesDone
  PROVE  SettledInv'
<1>1. UNCHANGED <<config, tables, vec>> /\ PipeStep /\ job.phase = "pages" /\ job \in JobRecords
      /\ job.plan # <<>> /\ Head(job.plan).do \in {"fetch", "local"}
  BY JobIs DEF FetchPage, PagesDone, ReadFile, FileStored, FilesDone, Doing, PipeStep, index
<1>2. PlanInv' /\ Piping(job.plan)
  BY <1>1, PipeStepPlans DEF SettledInv
<1>3. CASE FetchPage
  <2>1. PICK t \in job.left, ok \in BOOLEAN :
          /\ docs' = IF ok THEN [docs EXCEPT ![t[1]] = @ \cup {t[2]}] ELSE docs
          /\ job' = [job EXCEPT !.left = @ \ {t}, !.clean = @ /\ ok]
    BY <1>3 DEF FetchPage
  <2>2. PICK clean : clean = (job.clean /\ ok)
    OBVIOUS
  <2>3. job' = [job EXCEPT !.left = job.left \ {t}, !.clean = clean] /\ flag' = flag /\ At(job, "fetch", "pages")
    BY <1>3, <2>1, <2>2 DEF FetchPage, index, Doing, At
  <2>4. job'.plan = job.plan /\ job'.phase = "pages" /\ job'.left = job.left \ {t} /\ job'.got = job.got
    BY <1>1, <2>3 DEF JobRecords
  <2>5. job.left \subseteq job.got
    BY <2>3 DEF SettledInv, FetchInv
  <2>6. TodoInv' /\ FetchInv'
    BY <1>1, <2>4, <2>5 DEF TodoInv, FetchInv, In
  <2>7. FlagInv'
    <3>1. CASE ok
      BY <1>1, <1>2, <2>1, <2>3, <2>4, <2>5, <3>1, StoredSettled DEF SettledInv
    <3>2. CASE ~ok
      BY <1>1, <2>1, <2>3, <2>4, <3>2, FlagsStay DEF SettledInv
    <3> QED BY <3>1, <3>2
  <2> QED BY <1>2, <2>6, <2>7 DEF SettledInv
<1>4. CASE PagesDone \/ FileStored
  <2>1. /\ flag' = [m \in Models |-> flag[m] \ {t[1] : t \in job.got}] /\ docs' = docs
        /\ job'.plan = job.plan /\ job'.got = {} /\ job'.phase \in {"next", "pages"}
        /\ (job'.phase = "pages" => Head(job.plan).do = "local")
    BY <1>1, <1>4 DEF PagesDone, FileStored, Unflag, Doing, JobRecords, store
  <2>2. FlagInv'
    BY <1>1, <2>1, FlagsStay DEF SettledInv
  <2>3. TodoInv' /\ FetchInv'
    BY <1>1, <2>1, NoTodo DEF In, At
  <2> QED BY <1>2, <2>2, <2>3 DEF SettledInv
<1>5. CASE FilesDone
  <2>1. /\ UNCHANGED <<flag, docs>> /\ job.got = {} /\ job'.plan = job.plan /\ job'.phase = "next"
    BY <1>1, <1>5 DEF FilesDone, JobRecords, store, index
  <2>2. FlagInv'
    BY <1>1, <2>1, FlagsStay DEF SettledInv
  <2>3. TodoInv' /\ FetchInv'
    BY <1>1, <2>1, NoTodo DEF In, At
  <2> QED BY <1>2, <2>2, <2>3 DEF SettledInv
<1>6. CASE ReadFile
  <2>1. PICK t \in job.left :
          \/ /\ docs' = [docs EXCEPT ![t[1]] = @ \cup {t[2]}]
             /\ job' = [job EXCEPT !.left = @ \ {t}, !.got = {t}]
          \/ /\ job' = [job EXCEPT !.left = @ \ {t}, !.clean = FALSE]
             /\ docs' = docs
    BY <1>6 DEF ReadFile
  <2>2. flag' = flag /\ job.got = {} /\ Head(job.plan).do = "local"
    BY <1>6 DEF ReadFile, index, Doing
  <2>3. job'.plan = job.plan /\ job'.phase = "pages"
    BY <1>1, <2>1 DEF JobRecords
  <2>4. TodoInv' /\ FetchInv'
    BY <1>1, <2>2, <2>3, NoTodo DEF In, At
  <2>5. FlagInv'
    <3>1. CASE docs' = [docs EXCEPT ![t[1]] = @ \cup {t[2]}] /\ job' = [job EXCEPT !.left = @ \ {t}, !.got = {t}]
      <4>1. job'.got = {t}
        BY <1>1, <3>1 DEF JobRecords
      <4> QED BY <1>1, <1>2, <2>2, <2>3, <3>1, <4>1, StoredSettled DEF SettledInv
    <3>2. CASE docs' = docs
      BY <1>1, <2>2, <2>3, <3>2, FlagsStay DEF SettledInv
    <3> QED BY <2>1, <3>1, <3>2
  <2> QED BY <1>2, <2>4, <2>5 DEF SettledInv
<1> QED BY <1>3, <1>4, <1>5, <1>6

\* No two applications have the same name.
OwnNames == \A a, b \in Apps : NameOf[a] = NameOf[b] => a = b

\* runVectorize begins with the applications that have no flag.
LEMMA EnterVectorizeSettled ==
  ASSUME TypeInv, ConfigInv, WorkInv, WorkInv', SettledInv, EnterVectorize
  PROVE  SettledInv'
<1>1. Doing("vectorize", "enter") /\ UNCHANGED <<docs, tables, vec, config>> /\ PipeStep
  BY DEF EnterVectorize, PipeStep, store
<1>2. PICK n, todo : n = Named /\ todo = known \ flag'[n]
        /\ flag' \in {flag, [flag EXCEPT ![n] = {}]}
        /\ job' = [job EXCEPT !.phase = "next", !.col = n, !.todo = todo]
  BY DEF EnterVectorize
<1>3. job'.plan = job.plan /\ job'.phase = "next" /\ job'.col = n /\ job'.todo = todo
  BY <1>2, JobIs DEF JobRecords
<1>4. Embedder' = n
  BY <1>1, <1>3 DEF WorkInv, WorkSound, In, Doing
<1>5. PlanInv' /\ Piping(job.plan)
  BY <1>1, PipeStepPlans DEF SettledInv
<1>6. \A m \in Models : flag'[m] \subseteq flag[m]
  BY <1>2 DEF TypeInv, IndexTypes
<1>7. FlagInv'
  BY <1>1, <1>5, <1>6, FlagsStay DEF SettledInv, Doing
<1>8. TodoInv' /\ FetchInv'
  BY <1>2, <1>3, <1>4 DEF TodoInv, FetchInv, At, Embedding
<1> QED BY <1>5, <1>7, <1>8 DEF SettledInv

\* An application is taken with all its documents.
LEMMA VectorizeAppSettled ==
  ASSUME TypeInv, WorkInv, SettledInv, NEW a \in Apps, VectorizeApp(a)
  PROVE  SettledInv'
<1>1. Doing("vectorize", "next") /\ UNCHANGED <<docs, flag, tables, vec, config>> /\ PipeStep /\ a \in job.todo
  BY DEF VectorizeApp, PipeStep, store, index
<1>2. PICK words, left : words \subseteq {Intent} /\ left = Of(a, docs[a] \cup {Meta} \cup words)
        /\ job' = [job EXCEPT !.phase = "embed", !.todo = @ \ {a}, !.left = left]
  <2>1. PICK words : words = IF a \in keywords THEN {Intent} ELSE {}
    OBVIOUS
  <2>2. PICK left : left = Of(a, docs[a] \cup {Meta} \cup words)
    OBVIOUS
  <2>3. job' = [job EXCEPT !.phase = "embed", !.todo = @ \ {a}, !.left = left]
    BY <2>1, <2>2 DEF VectorizeApp
  <2> QED BY <2>1, <2>2, <2>3
<1>3. job'.plan = job.plan /\ job'.phase = "embed" /\ job'.todo = job.todo \ {a} /\ job'.left = left
      /\ job'.got = job.got
  BY <1>2, JobIs DEF JobRecords
<1>4. job.got = {} /\ In(job, "vectorize") /\ In(job', "vectorize")
  BY <1>1, <1>3 DEF WorkInv, WorkSound, Loose, Doing, In
<1>5. Embedder' = Embedder
  BY <1>1, <1>3, SameProcess
<1>6. PlanInv' /\ Piping(job.plan)
  BY <1>1, PipeStepPlans DEF SettledInv
<1>7. FlagInv'
  BY <1>1, <1>6, FlagsStay DEF SettledInv, Doing
<1>8. job.todo \cap flag[Embedder] = {}
  BY <1>4 DEF SettledInv, TodoInv
<1>9. OneApp(job', a, docs[a] \cup {Meta}, flag[Embedder])
  BY <1>1, <1>2, <1>3, <1>4, <1>8 DEF OneApp, Of
<1>10. TodoInv' /\ FetchInv'
  BY <1>1, <1>3, <1>5, <1>8, <1>9 DEF TodoInv, FetchInv, At
<1> QED BY <1>6, <1>7, <1>10 DEF SettledInv

\* Every text is embedded, so none is missing.
LEMMA EmbedSettled ==
  ASSUME TypeInv, SettledInv, Embed, "llm" \notin Env
  PROVE  SettledInv'
<1>1. job.phase = "embed" /\ UNCHANGED <<docs, flag, tables, vec, config>> /\ PipeStep
  BY DEF Embed, PipeStep, store, index
<1>2. PICK t \in job.left :
        job' = [job EXCEPT !.left = @ \ {t}, !.clean = @ /\ TRUE,
                           !.got = @ \cup {t}, !.by = @ \cup {Embedder},
                           !.phase = IF job.left = {t} THEN "save" ELSE "embed"]
  BY DEF Embed
<1>3. PICK left, got, by, clean, phase :
        /\ job' = [job EXCEPT !.left = left, !.clean = clean, !.got = got, !.by = by, !.phase = phase]
        /\ left = job.left \ {t} /\ got = job.got \cup {t}
        /\ phase = IF job.left = {t} THEN "save" ELSE "embed"
  <2>1. PICK clean : clean = (job.clean /\ TRUE)
    OBVIOUS
  <2>2. job' = [job EXCEPT !.left = job.left \ {t}, !.clean = clean, !.got = job.got \cup {t},
                           !.by = job.by \cup {Embedder},
                           !.phase = IF job.left = {t} THEN "save" ELSE "embed"]
    BY <1>2, <2>1
  <2> QED BY <2>2
<1>4. job'.plan = job.plan /\ job'.phase = phase /\ job'.todo = job.todo /\ job'.left = left /\ job'.got = got
  BY <1>3, JobIs DEF JobRecords
<1>5. Embedder' = Embedder
  BY <1>1, <1>4, SameProcess
<1>6. PlanInv' /\ Piping(job.plan)
  BY <1>1, PipeStepPlans DEF SettledInv
<1>7. FlagInv'
  BY <1>1, <1>6, FlagsStay DEF SettledInv
<1>8. phase \in {"embed", "save"} /\ (phase # "embed" => left = {})
  BY <1>3
<1>9. ASSUME In(job', "vectorize")
      PROVE  \E a \in Apps : OneApp(job', a, docs[a] \cup {Meta}, flag[Embedder])
  <2>1. In(job, "vectorize")
    BY <1>1, <1>4, <1>9 DEF In
  <2>2. PICK a \in Apps : OneApp(job, a, docs[a] \cup {Meta}, flag[Embedder])
    BY <1>1, <2>1 DEF SettledInv, TodoInv, Embedding
  <2>3. OneApp(job', a, docs[a] \cup {Meta}, flag[Embedder])
    BY <1>3, <1>4, <1>8, <2>2 DEF OneApp
  <2> QED BY <2>3
<1>10. In(job', "vectorize") => In(job, "vectorize")
  BY <1>1, <1>4 DEF In
<1>11. TodoInv'
  BY <1>1, <1>4, <1>5, <1>8, <1>9, <1>10 DEF SettledInv, TodoInv
<1>12. FetchInv'
  BY <1>4, <1>8 DEF FetchInv, At
<1> QED BY <1>6, <1>7, <1>11, <1>12 DEF SettledInv

\* An application that is given up gets no flag.
LEMMA AbandonSettled ==
  ASSUME TypeInv, SettledInv, Abandon \/ SaveNothing
  PROVE  SettledInv'
<1>1. job.phase \in {"embed", "save"} /\ UNCHANGED <<docs, flag, tables, vec, config>> /\ PipeStep
  BY DEF Abandon, SaveNothing, PipeStep, store, index
<1>2. PlanInv' /\ Piping(job.plan) /\ job.plan # <<>>
  BY <1>1, PipeStepPlans DEF SettledInv
<1>3. FlagInv'
  BY <1>1, <1>2, FlagsStay DEF SettledInv
<1>4. CASE job' = Then(job)
  BY <1>2, <1>3, <1>4, ThenNoTodo DEF SettledInv
<1>5. CASE ~Replacing /\ job' = [job EXCEPT !.phase = "save", !.left = {}]
  <2>1. job'.plan = job.plan /\ job'.phase = "save"
    BY <1>5, JobIs DEF JobRecords
  <2> QED BY <1>2, <1>3, <1>5, <2>1, NoTodo DEF SettledInv, In, At, Replacing
<1>6. CASE NextApp
  <2>1. job'.plan = job.plan /\ job'.phase = "next" /\ job'.todo = job.todo
    BY <1>6, JobIs DEF NextApp, JobRecords
  <2>2. Embedder' = Embedder
    BY <1>1, <2>1, SameProcess
  <2>3. In(job', "vectorize") => In(job, "vectorize")
    BY <1>1, <2>1 DEF In
  <2>4. TodoInv' /\ FetchInv'
    BY <1>1, <2>1, <2>2, <2>3 DEF SettledInv, TodoInv, FetchInv, At, Embedding
  <2> QED BY <1>2, <1>3, <2>4 DEF SettledInv
<1> QED BY <1>4, <1>5, <1>6 DEF Abandon, SaveNothing, Replacing

\* A job that only comes to another phase goes on with its application.
LEMMA PhaseTodo ==
  ASSUME TypeInv, SettledInv, NEW phase \in {"add", "unlist", "list", "flag"},
         job.phase \in {"save", "add", "unlist", "list"},
         job' = [job EXCEPT !.phase = phase], UNCHANGED <<config, docs, flag>>,
         phase \in {"unlist", "list", "flag"} /\ In(job, "vectorize") => Rows \subseteq vec'[Embedder]
  PROVE  TodoInv' /\ FetchInv'
<1>1. job'.plan = job.plan /\ job'.phase = phase /\ job'.left = job.left /\ job'.got = job.got
      /\ job'.todo = job.todo
  BY JobIs DEF JobRecords
<1>2. Embedder' = Embedder /\ Rows' = Rows
  BY <1>1, SameProcess, SameRows
<1>3. In(job', "vectorize") => In(job, "vectorize")
  BY <1>1 DEF In
<1>4. ASSUME In(job', "vectorize")
      PROVE  \E a \in Apps : OneApp(job', a, docs[a] \cup {Meta}, flag[Embedder])
  <2>1. PICK a \in Apps : OneApp(job, a, docs[a] \cup {Meta}, flag[Embedder])
    BY <1>3, <1>4 DEF SettledInv, TodoInv, Embedding
  <2>2. OneApp(job', a, docs[a] \cup {Meta}, flag[Embedder])
    BY <1>1, <2>1 DEF OneApp
  <2> QED BY <2>2
<1>5. TodoInv'
  BY <1>1, <1>2, <1>3, <1>4 DEF SettledInv, TodoInv
<1>6. FetchInv'
  BY <1>1 DEF FetchInv, At
<1> QED BY <1>5, <1>6

\* An operation that throws sets no flag.
LEMMA FailSettled ==
  ASSUME Fail
  PROVE  PlanInv' /\ TodoInv' /\ FetchInv'
<1>1. job'.plan = <<>> /\ job'.phase = "answer"
  BY DEF Fail, Idle
<1> QED BY <1>1, NoPlan, NoTodo DEF In, At

\* Past the loop of a pipeline no flag is unsettled.
LEMMA AllSettled ==
  ASSUME FlagInv, Piping(job.plan), job.phase # "pages", NEW m \in Models, NEW a \in flag[m]
  PROVE  m \in tables /\ \A i \in docs[a] \cup {Meta} : <<NameOf[a], i>> \in vec[m]
<1>1. ~Unsettled(m, a)
  BY DEF Unsettled, Piping, Pipe
<1>2. Settled(m, a)
  BY <1>1 DEF FlagInv
<1> QED BY <1>2, BodyIs DEF Settled

\* Flags whose table and rows stay are true as before.
LEMMA SettledAgain ==
  ASSUME UNCHANGED docs,
         \A m \in Models : \A a \in flag'[m] :
           m \in tables' /\ \A i \in docs[a] \cup {Meta} : <<NameOf[a], i>> \in vec'[m]
  PROVE  FlagInv'
<1>1. ASSUME NEW m \in Models, NEW a \in flag'[m]
      PROVE  Settled(m, a)'
  BY <1>1 DEF Settled, Body
<1> QED BY <1>1 DEF FlagInv

\* The table that is created was not there, so no flag says otherwise.
LEMMA CreateSettled ==
  ASSUME TypeInv, WorkInv, SettledInv, CreateTable
  PROVE  SettledInv'
<1>1. job.phase = "save" /\ UNCHANGED <<docs, flag, config>> /\ PipeStep
  BY DEF CreateTable, PipeStep, store
<1>2. PlanInv' /\ Piping(job.plan)
  BY <1>1, PipeStepPlans DEF SettledInv
<1>3. CASE Link.to \in tables
  <2>1. Fail /\ UNCHANGED <<tables, vec>>
    BY <1>3 DEF CreateTable
  <2>2. FlagInv'
    BY <1>1, <1>2, <2>1, FlagsStay DEF SettledInv
  <2> QED BY <2>1, <2>2, FailSettled DEF SettledInv
<1>4. CASE Link.to \notin tables
  <2>1. PICK m : m = Link.to
    OBVIOUS
  <2>2. m \in Models /\ m = Embedder /\ m \notin tables
    BY <1>4, <2>1, LinksAre DEF Links
  <2>3. /\ tables' = tables \cup {m} /\ vec' = [vec EXCEPT ![m] = Rows]
        /\ job' = [job EXCEPT !.phase = "unlist"]
    BY <1>4, <2>1 DEF CreateTable
  <2>4. \A n \in Models : \A a \in flag[n] :
          n \in tables /\ \A i \in docs[a] \cup {Meta} : <<NameOf[a], i>> \in vec[n]
    BY <1>1, <1>2, AllSettled DEF SettledInv
  <2>5. vec'[m] = Rows /\ \A n \in Models \ {m} : vec'[n] = vec[n]
    BY <2>2, <2>3 DEF TypeInv, IndexTypes
  <2>6. \A n \in Models : \A a \in flag'[n] :
          n \in tables' /\ \A i \in docs[a] \cup {Meta} : <<NameOf[a], i>> \in vec'[n]
    <3>1. \A n \in Models : n = m => flag[n] = {}
      BY <2>2, <2>4
    <3> QED BY <1>1, <2>3, <2>4, <2>5, <3>1
  <2>7. FlagInv'
    BY <1>1, <2>6, SettledAgain
  <2>8. TodoInv' /\ FetchInv'
    BY <1>1, <2>2, <2>3, <2>5, PhaseTodo
  <2> QED BY <1>2, <2>7, <2>8 DEF SettledInv
<1> QED BY <1>3, <1>4

\* The delete takes rows of an application that has no flag.
LEMMA DeleteSettled ==
  ASSUME TypeInv, WorkInv, SettledInv, OwnNames, DeleteRows
  PROVE  SettledInv'
<1>1. job.phase = "save" /\ job' = [job EXCEPT !.phase = "add"] /\ UNCHANGED <<docs, flag, tables, config>> /\ PipeStep
  BY DEF DeleteRows, PipeStep, store
<1>2. PlanInv' /\ Piping(job.plan)
  BY <1>1, PipeStepPlans DEF SettledInv
<1>3. PICK m : m = Embedder /\ vec' = [vec EXCEPT ![m] = Others(@)]
  BY AttachedAre, LinksAre DEF DeleteRows, WorkInv, Attached
<1>4. m \in Models
  BY <1>3, ModelsAre
<1>5. vec'[m] = Others(vec[m]) /\ \A n \in Models \ {m} : vec'[n] = vec[n]
  BY <1>3, <1>4 DEF TypeInv, IndexTypes
<1>6. \A n \in Models : \A a \in flag[n] :
        n \in tables /\ \A i \in docs[a] \cup {Meta} : <<NameOf[a], i>> \in vec[n]
  BY <1>1, <1>2, AllSettled DEF SettledInv
<1>7. ASSUME NEW b \in flag[m], NEW i \in docs[b] \cup {Meta}
      PROVE  <<NameOf[b], i>> \in vec'[m]
  <2>1. <<NameOf[b], i>> \in vec[m] /\ b \in Apps
    BY <1>4, <1>6, <1>7 DEF TypeInv, StoreTypes, IndexTypes
  <2>2. CASE ~Replacing
    BY <1>5, <2>1, <2>2 DEF Others
  <2>3. CASE Replacing
    <3>1. In(job, "vectorize")
      BY <1>1, <2>3, AtWork DEF Embedding
    <3>2. PICK a \in Apps : OneApp(job, a, docs[a] \cup {Meta}, flag[m])
      BY <1>1, <1>3, <3>1 DEF SettledInv, TodoInv, Embedding
    <3>3. b # a /\ \A t \in job.got : t[1] = a
      BY <1>7, <3>2 DEF OneApp
    <3>4. \A t \in job.got : NameOf[b] # NameOf[t[1]]
      BY <2>1, <3>2, <3>3 DEF OwnNames
    <3>5. <<NameOf[b], i>> \in Others(vec[m])
      BY <2>1, <2>3, <3>4 DEF Others
    <3> QED BY <1>5, <3>5
  <2> QED BY <2>2, <2>3
<1>8. FlagInv'
  <2>1. \A n \in Models : \A a \in flag'[n] :
          n \in tables' /\ \A i \in docs[a] \cup {Meta} : <<NameOf[a], i>> \in vec'[n]
    BY <1>1, <1>5, <1>6, <1>7
  <2> QED BY <1>1, <2>1, SettledAgain
<1>9. TodoInv' /\ FetchInv'
  BY <1>1, PhaseTodo
<1> QED BY <1>2, <1>8, <1>9 DEF SettledInv

\* The rows added are all of the application.
LEMMA AddSettled ==
  ASSUME TypeInv, WorkInv, SettledInv, AddRows
  PROVE  SettledInv'
<1>1. job.phase = "add" /\ UNCHANGED <<docs, flag, tables, config>> /\ PipeStep
  BY DEF AddRows, PipeStep, store
<1>2. PlanInv' /\ Piping(job.plan)
  BY <1>1, PipeStepPlans DEF SettledInv
<1>3. CASE Fail /\ UNCHANGED vec
  <2>1. FlagInv'
    BY <1>1, <1>2, <1>3, FlagsStay DEF SettledInv
  <2> QED BY <1>3, <2>1, FailSettled DEF SettledInv
<1>4. CASE ~(Fail /\ UNCHANGED vec)
  <2>1. PICK m : m = Embedder /\ m \in Models /\ m = Handle
    BY <1>1, ModelsAre DEF WorkInv, RoomInv
  <2>2. vec' = [vec EXCEPT ![m] = @ \cup Rows] /\ job' = [job EXCEPT !.phase = "unlist"]
    BY <1>4, <2>1 DEF AddRows
  <2>3. vec'[m] = vec[m] \cup Rows /\ \A n \in Models \ {m} : vec'[n] = vec[n]
    BY <2>1, <2>2 DEF TypeInv, IndexTypes
  <2>4. \A n \in Models : vec[n] \subseteq vec'[n]
    BY <2>3
  <2>5. FlagInv'
    BY <1>1, <1>2, <2>4, FlagsStay DEF SettledInv
  <2>6. TodoInv' /\ FetchInv'
    BY <1>1, <2>1, <2>2, <2>3, PhaseTodo
  <2> QED BY <1>2, <2>5, <2>6 DEF SettledInv
<1> QED BY <1>3, <1>4

\* The flag is set after the rows are in.
LEMMA ListSettled ==
  ASSUME TypeInv, WorkInv, SettledInv, Unlist \/ List
  PROVE  SettledInv'
<1>1. job.phase \in {"unlist", "list"} /\ UNCHANGED <<docs, flag, tables, vec, config>> /\ PipeStep
  BY DEF Unlist, List, PipeStep, store
<1>2. PlanInv' /\ Piping(job.plan)
  BY <1>1, PipeStepPlans DEF SettledInv
<1>3. FlagInv'
  BY <1>1, <1>2, FlagsStay DEF SettledInv
<1>4. CASE \E phase \in {"list", "flag"} : job' = [job EXCEPT !.phase = phase]
  <2>1. PICK phase \in {"list", "flag"} : job' = [job EXCEPT !.phase = phase]
    BY <1>4
  <2>2. In(job, "vectorize") => Rows \subseteq vec'[Embedder]
    BY <1>1 DEF SettledInv, TodoInv
  <2>3. TodoInv' /\ FetchInv'
    BY <1>1, <2>1, <2>2, PhaseTodo
  <2> QED BY <1>2, <1>3, <2>3 DEF SettledInv
<1>5. CASE NextApp
  <2>1. job'.plan = job.plan /\ job'.phase = "next" /\ job'.todo = job.todo
    BY <1>5, JobIs DEF NextApp, JobRecords
  <2>2. Embedder' = Embedder
    BY <1>1, <2>1, SameProcess
  <2>3. In(job', "vectorize") => In(job, "vectorize")
    BY <1>1, <2>1 DEF In
  <2>4. TodoInv' /\ FetchInv'
    BY <1>1, <2>1, <2>2, <2>3 DEF SettledInv, TodoInv, FetchInv, At, Embedding
  <2> QED BY <1>2, <1>3, <2>4 DEF SettledInv
<1> QED BY <1>4, <1>5 DEF Unlist, List

\* The flag comes last, when all it promises is there.
LEMMA SetFlagSettled ==
  ASSUME TypeInv, WorkInv, SettledInv, SetFlag
  PROVE  SettledInv'
<1>1. job.phase = "flag" /\ UNCHANGED <<docs, tables, vec, config>> /\ PipeStep /\ NextApp
  BY DEF SetFlag, PipeStep, store
<1>2. PlanInv' /\ Piping(job.plan)
  BY <1>1, PipeStepPlans DEF SettledInv
<1>3. In(job, "vectorize")
  BY <1>1, AtWork DEF Embedding
<1>4. PICK e : e = Embedder /\ e \in Models /\ e = job.col /\ e \in tables /\ Rows \subseteq vec[e]
  BY <1>1, <1>3, ModelsAre DEF WorkInv, WorkSound, RoomInv, Saving, SettledInv, TodoInv
<1>5. PICK a \in Apps : OneApp(job, a, docs[a] \cup {Meta}, flag[e])
  BY <1>1, <1>3, <1>4 DEF SettledInv, TodoInv, Embedding
<1>6. a \notin job.todo /\ (\A t \in job.got : t[1] = a) /\ \A i \in docs[a] \cup {Meta} : <<a, i>> \in job.got
  BY <1>1, <1>5 DEF OneApp
<1>7. {t[1] : t \in job.got} \subseteq {a}
  BY <1>6
<1>8. flag'[e] \subseteq flag[e] \cup {a} /\ \A n \in Models \ {e} : flag'[n] = flag[n]
  BY <1>4, <1>7 DEF SetFlag, TypeInv, IndexTypes
<1>9. \A i \in docs[a] \cup {Meta} : <<NameOf[a], i>> \in vec[e]
  <2>1. ASSUME NEW i \in docs[a] \cup {Meta}
        PROVE  <<NameOf[a], i>> \in Rows
    <3>1. PICK t \in job.got : t = <<a, i>>
      BY <1>6, <2>1
    <3> QED BY <3>1 DEF Rows
  <2> QED BY <1>4, <2>1
<1>10. \A n \in Models : \A b \in flag[n] :
         n \in tables /\ \A i \in docs[b] \cup {Meta} : <<NameOf[b], i>> \in vec[n]
  BY <1>1, <1>2, AllSettled DEF SettledInv
<1>11. FlagInv'
  <2>1. \A n \in Models : \A b \in flag'[n] :
          n \in tables' /\ \A i \in docs[b] \cup {Meta} : <<NameOf[b], i>> \in vec'[n]
    BY <1>1, <1>4, <1>8, <1>9, <1>10
  <2> QED BY <1>1, <2>1, SettledAgain
<1>12. TodoInv' /\ FetchInv'
  <2>1. job'.plan = job.plan /\ job'.phase = "next" /\ job'.todo = job.todo
    BY <1>1, JobIs DEF NextApp, JobRecords
  <2>2. Embedder' = e
    BY <1>1, <1>4, <2>1, SameProcess
  <2>3. job.todo \cap flag[e] = {}
    BY <1>3, <1>4 DEF SettledInv, TodoInv
  <2> QED BY <1>6, <1>8, <2>1, <2>2, <2>3 DEF TodoInv, FetchInv, At, Embedding
<1> QED BY <1>2, <1>11, <1>12 DEF SettledInv

\* The keywords taken out are no documents.
LEMMA IntentSettled ==
  ASSUME TypeInv, SettledInv, EnterIntents \/ UnlistIntents
  PROVE  SettledInv'
<1>1. /\ UNCHANGED <<docs, flag, tables, config>> /\ PipeStep
      /\ job.plan # <<>> /\ Head(job.plan).do = "intents" /\ job.phase # "pages"
  BY DEF EnterIntents, UnlistIntents, PipeStep, store, Doing
<1>2. PlanInv' /\ Piping(job.plan)
  BY <1>1, PipeStepPlans DEF SettledInv
<1>3. FlagInv'
  <2>1. CASE vec' = vec
    BY <1>1, <1>2, <2>1, FlagsStay DEF SettledInv
  <2>2. CASE vec' # vec
    <3>1. PICK m : vec' = [vec EXCEPT ![m] = {r \in @ : r[2] # Intent}]
      BY <2>2 DEF EnterIntents, UnlistIntents
    <3>2. \A n \in Models : \A a \in flag[n] :
            n \in tables /\ \A i \in docs[a] \cup {Meta} : <<NameOf[a], i>> \in vec[n]
      BY <1>1, <1>2, AllSettled DEF SettledInv
    <3>3. \A n \in Models : \A a \in flag[n] : \A i \in docs[a] \cup {Meta} : i # Intent
      BY IndexAssumption DEF TypeInv, StoreTypes, IndexTypes, Pages
    <3>4. \A n \in Models : \A a \in flag'[n] :
            n \in tables' /\ \A i \in docs[a] \cup {Meta} : <<NameOf[a], i>> \in vec'[n]
      BY <1>1, <3>1, <3>2, <3>3 DEF TypeInv, IndexTypes
    <3> QED BY <1>1, <3>4, SettledAgain
  <2> QED BY <2>1, <2>2
<1>4. CASE job' = Then(job)
  BY <1>1, <1>2, <1>3, <1>4, ThenNoTodo DEF SettledInv
<1>5. CASE job' # Then(job)
  <2>1. job'.plan = job.plan /\ job'.phase \in {"unintend", "embed"}
    BY <1>5, JobIs DEF EnterIntents, UnlistIntents, JobRecords
  <2> QED BY <1>1, <1>2, <1>3, <2>1, NoTodo DEF SettledInv, In, At
<1> QED BY <1>4, <1>5

\* db.clear keeps the flags true.
LEMMA ClearSettled ==
  ASSUME TypeInv, ConfigInv, SettledInv, ClearStep
  PROVE  SettledInv'
<1>1. PlanInv' /\ FlagInv'
  BY ClearPlanKeeps, ClearFlags DEF SettledInv
<1>2. job.plan # <<>> /\ job' = Then(job)
  BY DEF ClearStep, ClearApps, ClearLinks, ClearDocs, DropTable, ClearFts, ClearVectors, UnflagAffected,
         UnflagCurrent, ForgetKeywords, Statement, Doing
<1> QED BY <1>1, <1>2, ThenNoTodo DEF SettledInv

\* The configuration changes no flag and no vector.
LEMMA ConfigSettled ==
  ASSUME TypeInv, ConfigInv, SettledInv, "busy" \notin Env,
         \/ Reload \/ (\E m \in Models : UpdateModels(m))
         \/ \E r \in Runs : TestsBegin(r) \/ TestsEnd(r) \/ \E m \in Models : TestsMode(r, m)
  PROVE  SettledInv'
<1>1. job.phase = "idle" /\ job.plan = <<>> /\ UNCHANGED <<store, index, job>>
  BY QuietSteps
<1>2. UNCHANGED <<docs, flag, tables, vec>> /\ job'.plan = <<>> /\ job'.phase = "idle"
  BY <1>1 DEF store, index
<1>3. PlanInv' /\ TodoInv' /\ FetchInv'
  BY <1>2, NoPlan, NoTodo DEF In, At
<1>4. \A m \in Models : \A a \in flag[m] :
        m \in tables /\ \A i \in docs[a] \cup {Meta} : <<NameOf[a], i>> \in vec[m]
  <2>1. Piping(job.plan)
    BY <1>1 DEF Piping
  <2> QED BY <1>1, <2>1, AllSettled DEF SettledInv
<1>5. FlagInv'
  BY <1>2, <1>4, SettledAgain
<1> QED BY <1>3, <1>5 DEF SettledInv

\* Every step keeps SettledInv.
LEMMA SettledKeeps ==
  ASSUME TypeInv, ConfigInv, WorkInv, SettledInv, WorkInv', [Next]_vars, OwnNames,
         {"busy", "bare", "crash", "llm"} \cap Env = {}
  PROVE  SettledInv'
<1>1. CASE Operation
  <2>1. CASE \E a \in Apps : ScanApp(a) \/ Keyword(a) \/ FetchApp(a) \/ AskToc(a) \/ TocArrives(a) \/ LocalApp(a)
    BY <2>1, LoopSettled
  <2>2. CASE \E a \in Apps : VectorizeApp(a)
    BY <2>2, VectorizeAppSettled
  <2>3. CASE ChooseProcess \/ EndStage \/ KillChild
    BY <2>3, MovesSettled
  <2>4. CASE EnterScan \/ EnterFetch \/ EnterLocal \/ EnterKeywords
    BY <2>4, LoopSettled
  <2>5. CASE FetchPage \/ PagesDone \/ ReadFile \/ FileStored \/ FilesDone
    BY <2>5, PagesSettled
  <2>6. CASE EnterVectorize \/ EnterIntents \/ UnlistIntents
    BY <2>6, EnterVectorizeSettled, IntentSettled
  <2>7. CASE Embed \/ Abandon \/ SaveNothing
    BY <2>7, EmbedSettled, AbandonSettled
  <2>8. CASE CreateTable \/ DeleteRows \/ AddRows \/ Unlist \/ List \/ SetFlag
    BY <2>8, CreateSettled, DeleteSettled, AddSettled, ListSettled, SetFlagSettled
  <2>9. CASE \/ ClearApps \/ ClearLinks \/ ClearDocs \/ DropTable \/ ClearFts
             \/ ClearVectors \/ UnflagAffected \/ UnflagCurrent \/ ForgetKeywords
    BY <2>9, ClearSettled DEF ClearStep
  <2> QED BY <1>1, <2>1, <2>2, <2>3, <2>4, <2>5, <2>6, <2>7, <2>8, <2>9 DEF Operation
<1>2. CASE Sync \/ Single \/ Clear \/ Answer \/ Cancel
  BY <1>2, MovesSettled
<1>3. CASE \/ Reload \/ (\E m \in Models : UpdateModels(m))
           \/ \E r \in Runs : TestsBegin(r) \/ TestsEnd(r) \/ \E m \in Models : TestsMode(r, m)
  BY <1>3, ConfigSettled
<1>4. CASE UNCHANGED vars
  <2>1. UNCHANGED <<docs, flag, tables, vec, config, job>>
    BY <1>4 DEF vars
  <2>2. Embedder' = Embedder /\ Rows' = Rows
    BY <2>1, SameProcess, SameRows
  <2>3. PlanInv'
    BY <2>1 DEF SettledInv, PlanInv, SparedInv, Spared
  <2>4. FlagInv'
    BY <2>1, FlagsStay DEF SettledInv
  <2>5. TodoInv' /\ FetchInv'
    BY <2>1, <2>2 DEF SettledInv, TodoInv, FetchInv
  <2> QED BY <2>3, <2>4, <2>5 DEF SettledInv
<1>5. ~Crash
  BY DEF Crash
<1> QED BY <1>1, <1>2, <1>3, <1>4, <1>5 DEF Next, Client

\* The program starts without flags.
LEMMA SettledBegins == Init => SettledInv
<1> SUFFICES ASSUME Init PROVE SettledInv
  OBVIOUS
<1>1. job.plan = <<>> /\ job.phase = "idle" /\ \A m \in Models : flag[m] = {}
  BY DEF Init, Idle
<1>2. PlanInv
  BY <1>1 DEF PlanInv, PlanKind, Piping, SparedInv
<1>3. FlagInv /\ TodoInv /\ FetchInv
  BY <1>1 DEF FlagInv, TodoInv, FetchInv, In, At
<1> QED BY <1>2, <1>3 DEF SettledInv

\* The four invariants hold of the program.
LEMMA SettledCorrect ==
  ASSUME OwnNames, {"busy", "bare", "crash", "llm"} \cap Env = {}
  PROVE  Spec => [](TypeInv /\ ConfigInv /\ WorkInv /\ SettledInv)
<1>1. Init => TypeInv /\ ConfigInv /\ WorkInv /\ SettledInv
  BY TypesBegin, ConfigBegins, WorkBegins, SettledBegins
<1>2. TypeInv /\ ConfigInv /\ WorkInv /\ SettledInv /\ [Next]_vars
        => (TypeInv /\ ConfigInv /\ WorkInv /\ SettledInv)'
  BY TypesKeep, ConfigKeeps, WorkKeeps, SettledKeeps
<1> QED BY <1>1, <1>2, PTL DEF Spec

\* Between operations the flags tell the truth.
LEMMA FlagsMean ==
  ASSUME TypeInv, SettledInv
  PROVE  FlagMeansVectors
<1>1. SUFFICES ASSUME job.phase = "idle", NEW m \in Models, NEW a \in flag[m]
               PROVE  m \in tables /\ Body(a) \subseteq vec[m]
  BY DEF FlagMeansVectors
<1>2. Piping(job.plan)
  BY <1>1, JobIs DEF Piping
<1>3. m \in tables /\ \A i \in docs[a] \cup {Meta} : <<NameOf[a], i>> \in vec[m]
  BY <1>1, <1>2, AllSettled DEF SettledInv
<1> QED BY <1>3 DEF Body

\* Between operations an application marked as vectorized has every document it
\* has in the vector table of that model, and a vector is put only in the table
\* of the model that computed it, whatever is cancelled, cleared, killed or
\* could not be fetched.  Assumed is that the sidecar does not die, that Ollama
\* embeds every text, that no client switches the model meanwhile, that a
\* benchmark takes models that have vectors, and that no two applications have
\* one name: each of them breaks it.
THEOREM VectorsKept ==
  ASSUME OwnNames, {"busy", "bare", "crash", "llm"} \cap Env = {}
  PROVE  Spec => VectorsOfTheModel
<1>1. TypeInv /\ ConfigInv /\ WorkInv /\ SettledInv /\ [Next]_vars => FlagMeansVectors'
  <2> SUFFICES ASSUME TypeInv, ConfigInv, WorkInv, SettledInv, [Next]_vars
               PROVE  FlagMeansVectors'
    OBVIOUS
  <2>1. TypeInv' /\ SettledInv'
    BY TypesKeep, WorkKeeps, SettledKeeps
  <2> QED BY <2>1, FlagsMean, PTL
<1>2. TypeInv /\ ConfigInv /\ WorkInv /\ SettledInv /\ [Next]_vars =>
        [/\ \A m \in Models : vec'[m] \ vec[m] # {} => job.by = {m}
         /\ FlagMeansVectors']_vars
  BY <1>1, VectorsByModel
<1> QED BY <1>2, SettledCorrect, PTL DEF Spec, VectorsOfTheModel

-----------------------------------------------------------------------------
(* What a full sync rests on                                               *)

\* Targets that neither empty chunks_fts of what is flagged nor take links that
\* only a table of contents brings back; whole lists; and nothing but an
\* unreachable page that goes wrong.
Calm ==
  /\ Targets \subseteq {"all", "apps", "local", "intents", "web_documents"}
  /\ \A models \in ModelLists :
       models = <<>> \/ \A m \in Models : \E i \in DOMAIN models : models[i] = m
  /\ Env \cap {"toc", "llm", "crash", "kill", "bare", "busy"} = {}
  /\ OwnNames

\* What a plan leaves alone until it has removed the applications, and their
\* marks with them: the links a table of contents brought, and of chunks_fts
\* all but the keywords or what its vectors go with.
Harmless(plan) ==
  \A i \in DOMAIN plan :
    \/ \E k \in DOMAIN plan : k < i /\ plan[k].do = "apps"
    \/ /\ plan[i].do = "links" => plan[i].items \cap WebPages = {}
       /\ plan[i].do = "fts" =>
            \/ plan[i].items = {Intent}
            \/ \E k \in DOMAIN plan :
                 k > i /\ plan[k].do = "vectors" /\ plan[k].items = plan[i].items

\* So it is with the plan under way, or the applications are gone already.
HarmlessInv == Harmless(job.plan) \/ (known = {} /\ Purging(job.plan))

\* Only pages of an application are linked to it, and those of its guide are
\* once its table of contents is stored.
LinksInv ==
  /\ \A a \in Apps : links[a] \subseteq PagesOf[a]
  /\ \A a \in toc : Guide(a) \subseteq links[a]
  /\ At(job, "local", "pages") => \A t \in job.left : t[2] \in PagesOf[t[1]]

\* All documents of the application are in chunks_fts.
Listed(a) == Body(a) \subseteq fts

\* A flagged application is in chunks_fts, or about to be put back, or its
\* flags about to be reset.
ListedInv ==
  /\ \A m \in Models : \A a \in flag[m] :
       \/ job.phase = "pages" /\ \E t \in job.got : t[1] = a
       \/ Listed(a)
       \/ At(job, "vectorize", "list") /\ \E t \in job.got : t[1] = a
  /\ At(job, "vectorize", "flag") => Rows \subseteq fts

-----------------------------------------------------------------------------
(* The order of a full sync                                                *)

\* Where a stage comes in a full sync; the models come in the order of the list.
Rank(s) ==
  CASE s.do = "scan" -> 1 [] s.do = "fetch" -> 2 [] s.do = "local" -> 3
    [] s.do = "keywords" -> 4
    [] s.do = "intents" /\ s.model = NoModel -> 6
    [] OTHER -> 5

\* The stage a plan has come to, 7 at its end.
Step(plan) == IF plan = <<>> THEN 7 ELSE Rank(Head(plan))

\* No stage is left out, and the keywords come last.
Follows(s, t) == Rank(t) = Rank(s) + 1 \/ (Rank(s) = 5 /\ Rank(t) = 5)
InOrder(plan) ==
  \A i \in DOMAIN plan :
    IF i = Len(plan) THEN Rank(plan[i]) = 6 ELSE Follows(plan[i], plan[i + 1])

\* What will vectorize for this model in the process itself.
Own(s, m) ==
  (s.do = "vectorize" /\ s.model = NoModel) \/ (s.do = "model" /\ s.model = m)
OwnIn(plan, m) == \E i \in DOMAIN plan : Own(plan[i], m)

\* Children work for other models.
Foreign(s, m) == s.do \in {"vectorize", "intents"} => s.model # m

\* A full sync, or what is left of it, for the model of the process.
SyncOrder(plan, m) ==
  /\ \A i \in DOMAIN plan : plan[i].do \in Pipe /\ Foreign(plan[i], m)
  /\ InOrder(plan)
  /\ Step(plan) < 5 => OwnIn(plan, m)

-----------------------------------------------------------------------------
(* What a full sync has done                                               *)

\* The stage of this rank has begun.
Begun(rank) == Step(job.plan) > rank \/ (Step(job.plan) = rank /\ job.phase # "enter")

\* The vectors of the current model have still to come.
OwnAhead ==
  \E i \in DOMAIN job.plan : Own(job.plan[i], config.model) /\ (i # 1 \/ job.phase = "enter")

\* At work for the model of the process.
InOwn(what) == In(job, what) /\ Head(job.plan).model = NoModel

\* Every application is known, or about to be.
ScanDone ==
  Begun(1) => \A a \in Apps : a \in known \/ (In(job, "scan") /\ a \in job.todo)

\* A page of this application is in the loop of the stage.
InLoop(what, a, p) ==
  In(job, what) /\ (a \in job.todo \/ (job.phase = "pages" /\ <<a, p>> \in job.left))

\* Every page of every guide is stored, or about to be fetched.
FetchDone ==
  Begun(2) => \A a \in Apps : \A p \in Guide(a) : p \in docs[a] \/ InLoop("fetch", a, p)

\* Every help file is stored, or about to be read.
LocalDone ==
  Begun(3) => \A a \in Apps : \A p \in HelpFiles(a) : p \in docs[a] \/ InLoop("local", a, p)

\* The application is in hand, to be flagged for the current model.
ToFlag(a) ==
  /\ InOwn("vectorize")
  /\ a \in job.todo \/ (job.phase \in Embedding /\ <<a, Meta>> \in job.left \cup job.got)

\* Every application is flagged for the current model, or about to be.
VectorDone == OwnAhead \/ \A a \in Apps : a \in flag[config.model] \/ ToFlag(a)

\* The keywords of the application are in hand.
ToList(a) == job.phase \in Embedding /\ <<a, Intent>> \in job.left \cup job.got

\* The keywords are in both indexes, or about to be.
IntentDone ==
  /\ Begun(6) /\ ~(Step(job.plan) = 6 /\ job.phase = "unintend") =>
       \A a \in keywords : \/ <<NameOf[a], Intent>> \in vec[config.model] \cap fts
                           \/ Step(job.plan) = 6 /\ ToList(a)
  /\ Step(job.plan) = 6 /\ job.phase \in Saving \cup {"save"} => job.left = {}
  /\ Step(job.plan) = 6 /\ job.phase \in {"unlist", "list"} => Rows \subseteq vec[config.model]

\* Each stage has done its part, has it in hand or is still ahead.
SyncDone == ScanDone /\ FetchDone /\ LocalDone /\ VectorDone /\ IntentDone

\* A full sync under way, with all of this true of it.
Synced == job.phase # "idle" /\ ~job.cancelled /\ SyncOrder(job.plan, config.model) /\ SyncDone

\* So it is with one in which nothing failed.
SyncInv == job.clean => Synced

\* What SyncCompletes rests on; inductive with the four before it.
CleanInv == HarmlessInv /\ LinksInv /\ ListedInv /\ SyncInv

-----------------------------------------------------------------------------
(* Harmless plans                                                          *)

\* What the pipeline plans is harmless.
LEMMA PipingHarmless ==
  ASSUME NEW plan, Piping(plan)
  PROVE  Harmless(plan)
<1> QED BY DEF Piping, Pipe, Harmless

\* What is left of a harmless plan is harmless.
LEMMA HarmlessTail ==
  ASSUME NEW p \in Seq(Stages), p # <<>>, Harmless(p), Head(p).do # "apps"
  PROVE  Harmless(Tail(p))
<1>1. \A i \in DOMAIN Tail(p) : i \in Nat /\ i + 1 \in DOMAIN p /\ Tail(p)[i] = p[i + 1]
  BY TailIs
<1>2. ASSUME NEW i \in DOMAIN Tail(p), NEW k \in DOMAIN p, k < i + 1, p[k].do = "apps"
      PROVE  \E l \in DOMAIN Tail(p) : l < i /\ Tail(p)[l].do = "apps"
  <2>1. k \in Nat /\ (k = 1 \/ k > 1) /\ (k > 1 => k - 1 \in DOMAIN Tail(p) /\ Tail(p)[k - 1] = p[k])
        /\ i \in Nat /\ Head(p) = p[1]
    BY <1>1, TailIs
  <2>2. k > 1 /\ k - 1 < i
    BY <1>2, <2>1
  <2> QED BY <1>2, <2>1, <2>2
<1>3. ASSUME NEW i \in DOMAIN Tail(p), ~\E k \in DOMAIN p : k < i + 1 /\ p[k].do = "apps", Tail(p)[i].do = "fts", Tail(p)[i].items # {Intent}
      PROVE  \E k \in DOMAIN Tail(p) :
               k > i /\ Tail(p)[k].do = "vectors" /\ Tail(p)[k].items = Tail(p)[i].items
  <2>1. i \in Nat /\ i + 1 \in DOMAIN p /\ Tail(p)[i] = p[i + 1]
    BY <1>1
  <2>2. PICK k \in DOMAIN p : k > i + 1 /\ p[k].do = "vectors" /\ p[k].items = p[i + 1].items
    BY <1>3, <2>1 DEF Harmless
  <2>3. k \in Nat /\ (k > 1 => k - 1 \in DOMAIN Tail(p) /\ Tail(p)[k - 1] = p[k])
    BY TailIs
  <2>4. k > 1 /\ k - 1 > i
    BY <2>1, <2>2, <2>3
  <2> QED BY <2>1, <2>2, <2>3, <2>4
<1> SUFFICES ASSUME NEW i \in DOMAIN Tail(p), ~\E l \in DOMAIN Tail(p) : l < i /\ Tail(p)[l].do = "apps"
             PROVE  /\ Tail(p)[i].do = "links" => Tail(p)[i].items \cap WebPages = {}
                    /\ Tail(p)[i].do = "fts" =>
                         \/ Tail(p)[i].items = {Intent}
                         \/ \E k \in DOMAIN Tail(p) :
                              k > i /\ Tail(p)[k].do = "vectors" /\ Tail(p)[k].items = Tail(p)[i].items
  BY DEF Harmless
<1>4. ~\E k \in DOMAIN p : k < i + 1 /\ p[k].do = "apps"
  BY <1>2
<1>5. i + 1 \in DOMAIN p /\ Tail(p)[i] = p[i + 1]
  BY <1>1
<1>6. Tail(p)[i].do = "links" => Tail(p)[i].items \cap WebPages = {}
  BY <1>4, <1>5 DEF Harmless
<1> QED BY <1>3, <1>4, <1>6

\* The plans of these targets are harmless.
LEMMA ClearHarmless ==
  ASSUME NEW target \in {"all", "apps", "local", "intents", "web_documents"}
  PROVE  Harmless(ClearPlan(target))
<1>1. CASE target = "apps"
  BY <1>1 DEF ClearPlan, Harmless, Stage
<1>2. CASE target = "web_documents"
  BY <1>2 DEF ClearPlan, Harmless, Purge, Stage
<1>3. CASE target = "intents"
  BY <1>3 DEF ClearPlan, Harmless, Purge, Stage
<1>4. CASE target = "local"
  <2>1. PICK p : p = ClearPlan(target)
    OBVIOUS
  <2>2. p = <<Purge("unflag", LocalPages), Purge("fts", LocalPages), Purge("vectors", LocalPages),
              Purge("docs", LocalPages), Purge("links", LocalPages)>>
    BY <1>4, <2>1 DEF ClearPlan, ClearType
  <2>3. DOMAIN p = 1 .. 5
    BY <2>2
  <2>4. /\ p[1].do = "unflag" /\ p[2].do = "fts" /\ p[3].do = "vectors" /\ p[4].do = "docs"
        /\ p[5].do = "links" /\ p[2].items = LocalPages /\ p[3].items = LocalPages /\ p[5].items = LocalPages
    BY <2>2 DEF Purge, Stage
  <2>5. \A i \in DOMAIN p : i = 1 \/ i = 2 \/ i = 3 \/ i = 4 \/ i = 5
    BY <2>3
  <2>6. LocalPages \cap WebPages = {} /\ 3 \in DOMAIN p /\ 3 > 2
    BY <2>3, IndexAssumption
  <2>7. Harmless(p)
    BY <2>4, <2>5, <2>6 DEF Harmless
  <2> QED BY <2>1, <2>7
<1>5. CASE target = "all"
  <2>1. PICK p, q :
          p = <<Stage("apps"), Purge("links", Pages), Purge("docs", Pages)>> /\ q = DropVectors
    OBVIOUS
  <2>2. PICK S : S = {p[1], p[2], p[3], q[1], q[2], q[3]}
    OBVIOUS
  <2>3. p \in Seq(S) /\ q \in Seq(S) /\ Len(p) = 3 /\ Len(q) = 3 /\ p[1] = Stage("apps")
    <3>1. PICK s1, s2, s3, t1, t2, t3 : p = <<s1, s2, s3>> /\ q = <<t1, t2, t3>> /\ s1 = Stage("apps")
      BY <2>1 DEF DropVectors
    <3> QED BY <2>2, <3>1
  <2>4. /\ p \o q \in Seq(S) /\ Len(p \o q) = Len(p) + Len(q)
        /\ \A i \in 1 .. Len(p) + Len(q) : (p \o q)[i] = IF i <= Len(p) THEN p[i] ELSE q[i - Len(p)]
    BY <2>3, ConcatProperties
  <2>5. PICK r : r = p \o q
    OBVIOUS
  <2>6. DOMAIN r = 1 .. 6 /\ r[1] = Stage("apps")
    BY <2>3, <2>4, <2>5
  <2>7. 1 \in DOMAIN r /\ r[1].do = "apps" /\ \A i \in DOMAIN r : i = 1 \/ 1 < i
    BY <2>6 DEF Stage
  <2>8. Harmless(r)
    BY <2>7 DEF Harmless
  <2>9. ClearPlan(target) = r
    BY <1>5, <2>1, <2>5 DEF ClearPlan
  <2> QED BY <2>8, <2>9
<1> QED BY <1>1, <1>2, <1>3, <1>4, <1>5

\* The statements db.clear runs, and those still to come, stay harmless; the
\* pipeline's stages are.
LEMMA HarmlessKeeps ==
  ASSUME TypeInv, PlanInv, HarmlessInv, Calm,
         \/ PipeStep \/ ClearStep \/ EndStage \/ Answer \/ Cancel \/ KillChild \/ ChooseProcess
         \/ Sync \/ Single \/ Clear \/ UNCHANGED <<job, known>>
  PROVE  HarmlessInv'
<1>1. job \in JobRecords /\ GoodPlan(job.plan) /\ job.plan \in Seq(Stages)
  BY JobIs DEF GoodPlan
<1>2. CASE PipeStep
  <2>1. job.plan # <<>> /\ Head(job.plan).do \in Pipe
        /\ (job'.plan = job.plan \/ job' = Then(job) \/ job'.plan = <<>>)
    BY <1>2, PipeSteps
  <2> QED BY <2>1, PipePlan, PipingHarmless DEF HarmlessInv
<1>3. CASE ClearStep
  <2>1. /\ job.plan # <<>> /\ Purging(job.plan) /\ job'.plan = Tail(job.plan) /\ Purging(Tail(job.plan))
    BY <1>1, <1>3, ClearIs, TailKinds
  <2>2. known' = known \/ known' = {}
    BY <1>3 DEF ClearStep, ClearApps, ClearLinks, ClearDocs, DropTable, ClearFts, ClearVectors, UnflagAffected,
       UnflagCurrent, ForgetKeywords, store
  <2>3. Head(job.plan).do = "apps" => known' = {}
    BY <1>3 DEF ClearStep, ClearApps, ClearLinks, ClearDocs, DropTable, ClearFts, ClearVectors, UnflagAffected,
       UnflagCurrent, ForgetKeywords, Statement, Doing
  <2>4. CASE known' = {}
    BY <2>1, <2>4 DEF HarmlessInv
  <2>5. CASE known' # {}
    <3>1. Harmless(job.plan) /\ Head(job.plan).do # "apps"
      BY <2>2, <2>3, <2>5 DEF HarmlessInv
    <3>2. Harmless(Tail(job.plan))
      BY <1>1, <2>1, <3>1, HarmlessTail
    <3> QED BY <2>1, <3>2 DEF HarmlessInv
  <2> QED BY <2>4, <2>5
<1>4. CASE EndStage \/ KillChild
  <2>1. job.phase = "next" /\ job' = Then(job) /\ job.plan # <<>>
    BY <1>4, JobIs DEF EndStage, KillChild, Calm
  <2>2. Head(job.plan).do \in Pipe
    BY <2>1, JobIs DEF StagesWith, Pipe
  <2>3. Piping(job'.plan)
    BY <2>1, <2>2, PipePlan
  <2> QED BY <2>3, PipingHarmless DEF HarmlessInv
<1>5. CASE Answer
  BY <1>5 DEF Answer, Idle, Harmless, HarmlessInv
<1>6. CASE Cancel
  <2>1. job'.plan = job.plan /\ known' = known
    BY <1>1, <1>6 DEF Cancel, JobRecords, store
  <2> QED BY <2>1 DEF HarmlessInv
<1>7. CASE ChooseProcess
  <2>1. job.plan # <<>> /\ Head(job.plan).do = "model"
    BY <1>7 DEF ChooseProcess, Doing
  <2>2. PlanInv'
    BY <1>7, MovesPlan
  <2>3. PICK p : p = job'.plan
    OBVIOUS
  <2>4. Piping(p) \/ Purging(p)
    BY <2>2, <2>3 DEF PlanInv, PlanKind
  <2>5. \E q \in Seq(Stages) : p = <<Stage("vectorize")>> \o q \/
          \E m \in Models : p = <<Child("vectorize", m), Child("intents", m)>> \o q
    <3>1. Tail(job.plan) \in Seq(Stages) /\ Head(job.plan).model \in Models
      BY <1>1, <2>1, JobIs DEF GoodStage, Stages
    <3>2. p = (IF Head(job.plan).model = config.model THEN <<Stage("vectorize")>>
               ELSE <<Child("vectorize", Head(job.plan).model), Child("intents", Head(job.plan).model)>>)
              \o Tail(job.plan)
      BY <1>1, <1>7, <2>3 DEF ChooseProcess, JobRecords
    <3> QED BY <3>1, <3>2
  <2>6. 1 \in DOMAIN p /\ p[1].do = "vectorize"
    <3>1. PICK q \in Seq(Stages) : p = <<Stage("vectorize")>> \o q \/
            \E m \in Models : p = <<Child("vectorize", m), Child("intents", m)>> \o q
      BY <2>5
    <3>2. CASE p = <<Stage("vectorize")>> \o q
      BY <3>1, <3>2 DEF Stage
    <3>3. CASE \E m \in Models : p = <<Child("vectorize", m), Child("intents", m)>> \o q
      BY <3>1, <3>3 DEF Child, Stage
    <3> QED BY <3>1, <3>2, <3>3
  <2>7. Piping(p)
    BY <2>4, <2>6 DEF Purging, Pipe
  <2> QED BY <2>3, <2>7, PipingHarmless DEF HarmlessInv
<1>8. CASE Sync
  <2>1. PICK models \in ModelLists : Start(FullSync(models), TRUE)
    BY <1>8 DEF Sync
  <2>2. job'.plan = FullSync(models)
    BY <2>1 DEF Start, Idle
  <2> QED BY <2>2, SyncPipes, PipingHarmless DEF HarmlessInv
<1>9. CASE Single
  <2>1. PICK what \in {"scan", "fetch", "local", "keywords", "vectorize", "intents"} :
          Start(<<Stage(what)>>, FALSE)
    BY <1>9 DEF Single
  <2>2. job'.plan = <<Stage(what)>>
    BY <2>1 DEF Start, Idle
  <2>3. Piping(<<Stage(what)>>)
    BY DEF Piping, Pipe, Stage
  <2> QED BY <2>2, <2>3, PipingHarmless DEF HarmlessInv
<1>10. CASE Clear
  <2>1. PICK target \in Targets : Start(ClearPlan(target), FALSE)
    BY <1>10 DEF Clear
  <2>2. job'.plan = ClearPlan(target)
    BY <2>1 DEF Start, Idle
  <2> QED BY <2>2, ClearHarmless DEF Calm, HarmlessInv
<1>11. CASE UNCHANGED <<job, known>>
  BY <1>11 DEF HarmlessInv
<1> QED BY <1>2, <1>3, <1>4, <1>5, <1>6, <1>7, <1>8, <1>9, <1>10, <1>11

-----------------------------------------------------------------------------
(* Plans in order                                                          *)

\* A rank is one of six.
LEMMA RankIs ==
  ASSUME NEW s
  PROVE  /\ Rank(s) \in 1 .. 6
         /\ Rank(s) = 1 <=> s.do = "scan"
         /\ Rank(s) = 2 <=> s.do = "fetch"
         /\ Rank(s) = 3 <=> s.do = "local"
         /\ Rank(s) = 4 <=> s.do = "keywords"
         /\ Rank(s) = 6 <=> (s.do = "intents" /\ s.model = NoModel)
<1> QED BY DEF Rank

\* The ranks of the stages a full sync is made of.
LEMMA RanksAre ==
  /\ Rank(Stage("scan")) = 1 /\ Rank(Stage("fetch")) = 2 /\ Rank(Stage("local")) = 3
  /\ Rank(Stage("keywords")) = 4 /\ Rank(Stage("vectorize")) = 5 /\ Rank(Stage("intents")) = 6
  /\ \A what \in {"model", "vectorize", "intents"}, m \in Models : Rank(Child(what, m)) = 5
<1> QED BY IndexAssumption DEF Rank, Stage, Child

\* What vectorizes comes at rank five.
LEMMA OwnRank ==
  ASSUME NEW s, NEW m, Own(s, m)
  PROVE  Rank(s) = 5
<1> QED BY DEF Own, Rank

\* The step a plan has come to.
LEMMA StepIs ==
  ASSUME NEW p
  PROVE  /\ Step(p) \in 1 .. 7 /\ (Step(p) = 7 <=> p = <<>>)
         /\ p # <<>> => Step(p) = Rank(Head(p))
<1> QED BY RankIs DEF Step

\* When a stage is done, the next in order has come.
LEMMA SyncTail ==
  ASSUME NEW p \in Seq(Stages), p # <<>>, NEW m, SyncOrder(p, m)
  PROVE  /\ SyncOrder(Tail(p), m)
         /\ IF Step(p) = 5 THEN Step(Tail(p)) \in {5, 6} ELSE Step(Tail(p)) = Step(p) + 1
         /\ OwnIn(p, m) => Own(Head(p), m) \/ OwnIn(Tail(p), m)
<1>1. Len(p) \in Nat /\ Len(p) > 0 /\ DOMAIN p = 1 .. Len(p) /\ Head(p) = p[1]
  OBVIOUS
<1>2. PICK q : q = Tail(p)
  OBVIOUS
<1>3. q \in Seq(Stages) /\ Len(q) = Len(p) - 1 /\ DOMAIN q = 1 .. Len(p) - 1
      /\ \A i \in 1 .. Len(p) - 1 : q[i] = p[i + 1]
  BY <1>1, <1>2
<1>4. \A i \in DOMAIN q : i \in Nat /\ i + 1 \in DOMAIN p /\ q[i] = p[i + 1]
  BY <1>1, <1>3
<1>5. \A i \in DOMAIN q : q[i].do \in Pipe /\ Foreign(q[i], m)
  BY <1>4 DEF SyncOrder
<1>6. InOrder(q)
  <2> SUFFICES ASSUME NEW i \in DOMAIN q
               PROVE  IF i = Len(q) THEN Rank(q[i]) = 6 ELSE Follows(q[i], q[i + 1])
    BY DEF InOrder
  <2>1. IF i + 1 = Len(p) THEN Rank(p[i + 1]) = 6 ELSE Follows(p[i + 1], p[i + 2])
    <3>1. i + 1 \in DOMAIN p /\ (i + 1) + 1 = i + 2
      BY <1>1, <1>3
    <3> QED BY <3>1 DEF SyncOrder, InOrder
  <2>2. i # Len(q) => i + 1 \in DOMAIN q /\ q[i + 1] = p[i + 2]
    BY <1>1, <1>3
  <2>3. i = Len(q) <=> i + 1 = Len(p)
    BY <1>1, <1>3
  <2> QED BY <1>4, <2>1, <2>2, <2>3
<1>7. IF Step(p) = 5 THEN Step(q) \in {5, 6} ELSE Step(q) = Step(p) + 1
  <2>1. IF 1 = Len(p) THEN Rank(p[1]) = 6 ELSE Follows(p[1], p[2])
    <3>1. 1 \in DOMAIN p /\ 1 + 1 = 2
      BY <1>1
    <3> QED BY <3>1 DEF SyncOrder, InOrder
  <2>2. Step(p) = Rank(p[1])
    BY <1>1 DEF Step
  <2>3. CASE Len(p) = 1
    <3>1. q = <<>>
      BY <1>3, <2>3
    <3> QED BY <2>1, <2>2, <2>3, <3>1 DEF Step
  <2>4. CASE Len(p) # 1
    <3>1. q # <<>> /\ Head(q) = p[2]
      BY <1>1, <1>3, <2>4
    <3>2. Step(q) = Rank(p[2]) /\ (Rank(p[2]) = Rank(p[1]) + 1 \/ (Rank(p[1]) = 5 /\ Rank(p[2]) = 5))
      BY <2>1, <2>4, <3>1 DEF Step, Follows
    <3> QED BY <2>2, <3>2, RankIs
  <2> QED BY <2>3, <2>4
<1>8. OwnIn(p, m) => Own(Head(p), m) \/ OwnIn(q, m)
  <2> SUFFICES ASSUME OwnIn(p, m), ~Own(p[1], m)
               PROVE  OwnIn(q, m)
    BY <1>1
  <2>1. PICK i \in DOMAIN p : Own(p[i], m)
    BY DEF OwnIn
  <2>2. i # 1
    BY <2>1
  <2>3. i - 1 \in DOMAIN q /\ q[i - 1] = p[i]
    BY <1>1, <1>2, <2>2, TailIs
  <2> QED BY <2>1, <2>3 DEF OwnIn
<1>9. Step(q) < 5 => OwnIn(q, m)
  <2> SUFFICES ASSUME Step(q) < 5
               PROVE  OwnIn(q, m)
    OBVIOUS
  <2>1. Step(p) < 5
    BY <1>7, StepIs
  <2>2. OwnIn(p, m)
    BY <2>1 DEF SyncOrder
  <2>3. ~Own(Head(p), m)
    BY <2>1, OwnRank, StepIs
  <2> QED BY <1>8, <2>2, <2>3
<1> QED BY <1>2, <1>5, <1>6, <1>7, <1>8, <1>9 DEF SyncOrder

\* Two parts of a plan in order make a plan in order.
LEMMA OrderJoined ==
  ASSUME NEW p \in Seq(Stages), NEW q \in Seq(Stages), p # <<>>, q # <<>>, InOrder(q),
         \A i \in DOMAIN p : i # Len(p) => Follows(p[i], p[i + 1]),
         Follows(p[Len(p)], q[1])
  PROVE  InOrder(p \o q)
<1>1. /\ Len(p) \in Nat /\ Len(q) \in Nat /\ DOMAIN p = 1 .. Len(p) /\ DOMAIN q = 1 .. Len(q)
      /\ Len(p) > 0 /\ Len(q) > 0
  OBVIOUS
<1>2. PICK r : r = p \o q
  OBVIOUS
<1>3. /\ Len(r) = Len(p) + Len(q) /\ DOMAIN r = 1 .. Len(p) + Len(q)
      /\ \A i \in 1 .. Len(p) + Len(q) : r[i] = IF i <= Len(p) THEN p[i] ELSE q[i - Len(p)]
  BY <1>1, <1>2
<1> SUFFICES ASSUME NEW i \in DOMAIN r
             PROVE  IF i = Len(r) THEN Rank(r[i]) = 6 ELSE Follows(r[i], r[i + 1])
  BY <1>2 DEF InOrder
<1>4. CASE i < Len(p)
  <2>1. i \in DOMAIN p /\ i # Len(p) /\ r[i] = p[i] /\ r[i + 1] = p[i + 1] /\ i # Len(r)
    BY <1>1, <1>3, <1>4
  <2> QED BY <2>1
<1>5. CASE i = Len(p)
  <2>1. i + 1 \in 1 .. Len(p) + Len(q) /\ ~(i + 1 <= Len(p)) /\ (i + 1) - Len(p) = 1 /\ i # Len(r)
    <3>1. PICK l, n : l = Len(p) /\ n = Len(q)
      OBVIOUS
    <3>2. l \in Nat /\ n \in Nat /\ n > 0
      BY <1>1, <3>1
    <3>3. l + 1 \in 1 .. l + n /\ ~(l + 1 <= l) /\ (l + 1) - l = 1 /\ l # l + n
      BY <3>2
    <3> QED BY <1>3, <1>5, <3>1, <3>3
  <2>2. r[i] = p[Len(p)]
    BY <1>1, <1>3, <1>5
  <2>3. r[i + 1] = q[1]
    BY <1>3, <2>1
  <2> QED BY <2>1, <2>2, <2>3
<1>6. CASE i > Len(p)
  <2>1. PICK k : k = i - Len(p)
    OBVIOUS
  <2>2. k \in DOMAIN q /\ r[i] = q[k] /\ (i = Len(r) <=> k = Len(q))
    BY <1>1, <1>3, <1>6, <2>1
  <2>3. i # Len(r) => r[i + 1] = q[k + 1]
    BY <1>1, <1>3, <1>6, <2>1
  <2> QED BY <2>2, <2>3 DEF InOrder
<1> QED BY <1>1, <1>3, <1>4, <1>5, <1>6

\* A plan has the stages of these two, in this order.
MadeOf(r, p, q) ==
  /\ \A i \in DOMAIN r : (\E k \in DOMAIN p : r[i] = p[k]) \/ \E k \in DOMAIN q : r[i] = q[k]
  /\ \A k \in DOMAIN p : \E i \in DOMAIN r : r[i] = p[k]
  /\ \A k \in DOMAIN q : \E i \in DOMAIN r : r[i] = q[k]
  /\ p # <<>> => r # <<>> /\ Head(r) = p[1]

\* The elements of two plans joined.
LEMMA JoinedElements ==
  ASSUME NEW p \in Seq(Stages), NEW q \in Seq(Stages), NEW r, r = p \o q
  PROVE  MadeOf(r, p, q)
<1>1. Len(p) \in Nat /\ Len(q) \in Nat /\ DOMAIN p = 1 .. Len(p) /\ DOMAIN q = 1 .. Len(q)
  OBVIOUS
<1>3. /\ r \in Seq(Stages) /\ Len(r) = Len(p) + Len(q) /\ DOMAIN r = 1 .. Len(p) + Len(q)
      /\ \A i \in 1 .. Len(p) + Len(q) : r[i] = IF i <= Len(p) THEN p[i] ELSE q[i - Len(p)]
  BY <1>1
<1>4. ASSUME NEW i \in DOMAIN r
      PROVE  (\E k \in DOMAIN p : r[i] = p[k]) \/ \E k \in DOMAIN q : r[i] = q[k]
  <2>1. CASE i <= Len(p)
    <3>1. i \in DOMAIN p /\ r[i] = p[i]
      BY <1>1, <1>3, <1>4, <2>1
    <3> QED BY <3>1
  <2>2. CASE ~(i <= Len(p))
    <3>1. i - Len(p) \in DOMAIN q /\ r[i] = q[i - Len(p)]
      BY <1>1, <1>3, <1>4, <2>2
    <3> QED BY <3>1
  <2> QED BY <2>1, <2>2
<1>5. ASSUME NEW k \in DOMAIN p
      PROVE  \E i \in DOMAIN r : r[i] = p[k]
  <2>1. k \in DOMAIN r /\ r[k] = p[k]
    BY <1>1, <1>3
  <2> QED BY <2>1
<1>6. ASSUME NEW k \in DOMAIN q
      PROVE  \E i \in DOMAIN r : r[i] = q[k]
  <2>1. k + Len(p) \in DOMAIN r /\ r[k + Len(p)] = q[k]
    BY <1>1, <1>3
  <2> QED BY <2>1
<1>7. p # <<>> => r # <<>> /\ Head(r) = p[1]
  <2> SUFFICES ASSUME p # <<>>
               PROVE  r # <<>> /\ Head(r) = p[1]
    OBVIOUS
  <2>1. Len(p) > 0 /\ Len(r) > 0
    BY <1>1, <1>3
  <2>2. r # <<>> /\ Head(r) = r[1]
    BY <1>3, <2>1
  <2> QED BY <1>1, <1>3, <2>1, <2>2
<1> QED BY <1>4, <1>5, <1>6, <1>7 DEF MadeOf

\* pipeline.sync plans a full sync.
LEMMA SyncOrders ==
  ASSUME NEW models \in ModelLists, NEW m \in Models,
         models = <<>> \/ \E i \in DOMAIN models : models[i] = m
  PROVE  SyncOrder(FullSync(models), m) /\ Step(FullSync(models)) = 1 /\ OwnIn(FullSync(models), m)
<1>1. PICK first : first = <<Stage("scan"), Stage("fetch"), Stage("local"), Stage("keywords")>>
  OBVIOUS
<1>2. PICK middle : middle = IF models = <<>> THEN <<Stage("vectorize")>>
                             ELSE [i \in DOMAIN models |-> Child("model", models[i])]
  OBVIOUS
<1>3. PICK last : last = <<Stage("intents")>>
  OBVIOUS
<1>4. FullSync(models) = (first \o middle) \o last
  BY <1>1, <1>2, <1>3 DEF FullSync
<1>5. \A what \in {"scan", "fetch", "local", "keywords", "vectorize", "intents"} : Stage(what) \in Stages
  BY StagesAreGood DEF Kinds, GoodStage
<1>6. models \in Seq(Models) /\ Len(models) \in Nat /\ DOMAIN models = 1 .. Len(models)
      /\ \A i \in DOMAIN models : models[i] \in Models
  BY IndexAssumption
<1>7. middle \in Seq(Stages) /\ middle # <<>>
      /\ \A i \in DOMAIN middle : middle[i] = Stage("vectorize") \/ \E x \in Models : middle[i] = Child("model", x)
  <2>1. CASE models = <<>>
    <3>1. middle = <<Stage("vectorize")>>
      BY <1>2, <2>1
    <3> QED BY <1>5, <3>1
  <2>2. CASE models # <<>>
    <3>1. middle = [i \in 1 .. Len(models) |-> Child("model", models[i])] /\ Len(models) > 0
      BY <1>2, <1>6, <2>2
    <3>2. \A i \in 1 .. Len(models) : Child("model", models[i]) \in Stages
      BY <1>6, StagesAreGood DEF InChildren, GoodStage
    <3>3. middle \in [1 .. Len(models) -> Stages]
      BY <3>1, <3>2
    <3>4. middle \in Seq(Stages) /\ DOMAIN middle = 1 .. Len(models) /\ 1 \in DOMAIN middle
      BY <1>6, <3>1, <3>3, SeqDef
    <3>5. middle # <<>>
      BY <3>4
    <3>6. \A i \in DOMAIN middle : \E x \in Models : middle[i] = Child("model", x)
      BY <1>6, <3>1, <3>4
    <3> QED BY <3>4, <3>5, <3>6
  <2> QED BY <2>1, <2>2
<1>8. \E i \in DOMAIN middle : Own(middle[i], m)
  <2>1. CASE models = <<>>
    <3>1. middle = <<Stage("vectorize")>> /\ Own(Stage("vectorize"), m)
      BY <1>2, <2>1 DEF Own, Stage
    <3>2. 1 \in DOMAIN middle /\ middle[1] = Stage("vectorize")
      BY <3>1
    <3> QED BY <3>1, <3>2
  <2>2. CASE models # <<>>
    <3>1. PICK i \in DOMAIN models : models[i] = m
      BY <2>2
    <3>2. i \in DOMAIN middle /\ middle[i] = Child("model", m)
      BY <1>2, <2>2, <3>1
    <3>3. Own(Child("model", m), m)
      BY DEF Own, Child, Stage
    <3> QED BY <3>2, <3>3
  <2> QED BY <2>1, <2>2
<1>9. \A i \in DOMAIN middle : Rank(middle[i]) = 5 /\ middle[i].do \in Pipe /\ Foreign(middle[i], m)
  <2>1. Rank(Stage("vectorize")) = 5 /\ Stage("vectorize").do \in Pipe /\ Foreign(Stage("vectorize"), m)
    BY RanksAre, IndexAssumption DEF Stage, Pipe, Foreign
  <2>2. \A x \in Models : Rank(Child("model", x)) = 5 /\ Child("model", x).do \in Pipe
                          /\ Foreign(Child("model", x), m)
    <3> SUFFICES ASSUME NEW x \in Models
                 PROVE  Rank(Child("model", x)) = 5 /\ Child("model", x).do \in Pipe
                        /\ Foreign(Child("model", x), m)
      OBVIOUS
    <3>1. Child("model", x).do = "model"
      BY DEF Child, Stage
    <3> QED BY <3>1, RanksAre DEF Pipe, Foreign
  <2> QED BY <1>7, <2>1, <2>2
<1>10. /\ first \in Seq(Stages) /\ first # <<>> /\ Len(first) = 4 /\ DOMAIN first = 1 .. 4
       /\ first[1] = Stage("scan") /\ first[2] = Stage("fetch") /\ first[3] = Stage("local")
       /\ first[4] = Stage("keywords")
  BY <1>1, <1>5
<1>11. /\ last \in Seq(Stages) /\ last # <<>> /\ Len(last) = 1 /\ DOMAIN last = {1} /\ last[1] = Stage("intents")
  BY <1>3, <1>5
<1>12. PICK rest : rest = middle \o last
  OBVIOUS
<1>13. rest \in Seq(Stages) /\ rest # <<>> /\ Head(rest) = middle[1] /\ rest[1] = middle[1]
  <2>1. rest \in Seq(Stages)
    BY <1>7, <1>11, <1>12
  <2>2. rest # <<>> /\ Head(rest) = middle[1]
    BY <1>7, <1>11, <1>12, JoinedElements DEF MadeOf
  <2> QED BY <2>1, <2>2
<1>14. /\ 1 \in DOMAIN middle /\ Len(middle) \in DOMAIN middle
       /\ \A i \in DOMAIN middle : i # Len(middle) => i + 1 \in DOMAIN middle
  <2>1. Len(middle) \in Nat /\ Len(middle) > 0 /\ DOMAIN middle = 1 .. Len(middle)
    BY <1>7
  <2> QED BY <2>1
<1>15. InOrder(rest)
  <2>1. InOrder(last)
    BY <1>11, RanksAre DEF InOrder
  <2>2. \A i \in DOMAIN middle : i # Len(middle) => Follows(middle[i], middle[i + 1])
    BY <1>9, <1>14 DEF Follows
  <2>3. Follows(middle[Len(middle)], last[1])
    BY <1>9, <1>11, <1>14, RanksAre DEF Follows
  <2> QED BY <1>7, <1>11, <1>12, <2>1, <2>2, <2>3, OrderJoined
<1>16. FullSync(models) = first \o rest
  BY <1>4, <1>7, <1>10, <1>11, <1>12, ConcatAssociative
<1>17. InOrder(first \o rest)
  <2>1. ASSUME NEW i \in DOMAIN first, i # Len(first)
        PROVE  Follows(first[i], first[i + 1])
    <3>1. i = 1 \/ i = 2 \/ i = 3
      BY <1>10, <2>1
    <3>2. Follows(first[1], first[2]) /\ Follows(first[2], first[3]) /\ Follows(first[3], first[4])
      BY <1>10, RanksAre DEF Follows
    <3> QED BY <3>1, <3>2
  <2>2. Follows(first[Len(first)], rest[1])
    BY <1>9, <1>10, <1>13, <1>14, RanksAre DEF Follows
  <2> QED BY <1>10, <1>13, <1>15, <2>1, <2>2, OrderJoined
<1>18. PICK p : p = FullSync(models) /\ p = first \o rest
  BY <1>16
<1>22. /\ \A i \in DOMAIN p : (\E k \in DOMAIN first : p[i] = first[k]) \/ \E k \in DOMAIN rest : p[i] = rest[k]
       /\ \A k \in DOMAIN rest : \E i \in DOMAIN p : p[i] = rest[k]
       /\ p # <<>> /\ Head(p) = first[1]
  <2>1. MadeOf(p, first, rest)
    BY <1>10, <1>13, <1>18, JoinedElements
  <2> QED BY <2>1, <1>10, <1>13, <1>18 DEF MadeOf
<1>23. /\ \A i \in DOMAIN rest : \/ \E k \in DOMAIN middle : rest[i] = middle[k]
                                \/ \E k \in DOMAIN last : rest[i] = last[k]
       /\ \A k \in DOMAIN middle : \E i \in DOMAIN rest : rest[i] = middle[k]
  <2>1. MadeOf(rest, middle, last)
    BY <1>7, <1>11, <1>12, JoinedElements
  <2> QED BY <2>1, <1>7, <1>11, <1>12 DEF MadeOf
<1>19. \A i \in DOMAIN p : p[i].do \in Pipe /\ Foreign(p[i], m)
  <2> SUFFICES ASSUME NEW i \in DOMAIN p
               PROVE  p[i].do \in Pipe /\ Foreign(p[i], m)
    OBVIOUS
  <2>1. (\E k \in DOMAIN first : p[i] = first[k]) \/ (\E k \in DOMAIN rest : p[i] = rest[k])
    BY <1>22
  <2>2. ASSUME NEW k \in DOMAIN first
        PROVE  first[k].do \in Pipe /\ Foreign(first[k], m)
    <3>1. k = 1 \/ k = 2 \/ k = 3 \/ k = 4
      BY <1>10
    <3> QED BY <1>10, <3>1 DEF Stage, Pipe, Foreign
  <2>3. last[1].do \in Pipe /\ Foreign(last[1], m)
    BY <1>11, IndexAssumption DEF Stage, Pipe, Foreign
  <2>4. ASSUME NEW k \in DOMAIN rest
        PROVE  rest[k].do \in Pipe /\ Foreign(rest[k], m)
    <3>1. (\E j \in DOMAIN middle : rest[k] = middle[j]) \/ (\E j \in DOMAIN last : rest[k] = last[j])
      BY <1>23
    <3> QED BY <1>9, <1>11, <2>3, <3>1
  <2> QED BY <2>1, <2>2, <2>4
<1>20. Step(p) = 1
  <2>1. p # <<>> /\ Head(p) = first[1]
    BY <1>22
  <2> QED BY <1>10, <2>1, RanksAre DEF Step
<1>21. OwnIn(p, m)
  <2>1. PICK i \in DOMAIN middle : Own(middle[i], m)
    BY <1>8
  <2>2. PICK k \in DOMAIN rest : rest[k] = middle[i]
    BY <1>23
  <2>3. PICK j \in DOMAIN p : p[j] = rest[k]
    BY <1>22
  <2> QED BY <2>1, <2>2, <2>3 DEF OwnIn
<1> QED BY <1>16, <1>17, <1>18, <1>19, <1>20, <1>21 DEF SyncOrder

\* A model of the list becomes stages for it, here or in a child process.
LEMMA ChooseOrders ==
  ASSUME TypeInv, NEW m \in Models, SyncOrder(job.plan, m), job.plan # <<>>, Head(job.plan).do = "model",
         NEW n, n = Head(job.plan).model, NEW first,
         first = IF n = m THEN <<Stage("vectorize")>> ELSE <<Child("vectorize", n), Child("intents", n)>>
  PROVE  /\ SyncOrder(first \o Tail(job.plan), m) /\ Step(job.plan) = 5 /\ Step(first \o Tail(job.plan)) = 5
         /\ OwnIn(job.plan, m) => OwnIn(first \o Tail(job.plan), m)
<1>1. PICK q : q = Tail(job.plan)
  OBVIOUS
<1>2. job.plan \in Seq(Stages) /\ q \in Seq(Stages) /\ n \in Models
  BY <1>1, JobIs DEF GoodPlan, GoodStage, Stages
<1>3. Step(job.plan) = 5
  BY DEF Step, Rank
<1>4. SyncOrder(q, m) /\ Step(q) \in {5, 6}
      /\ (OwnIn(job.plan, m) => Own(Head(job.plan), m) \/ OwnIn(q, m))
  BY <1>1, <1>2, <1>3, SyncTail
<1>5. q # <<>> /\ Rank(q[1]) \in {5, 6}
  BY <1>2, <1>4, StepIs
<1>6. /\ first \in Seq(Stages) /\ first # <<>>
      /\ \A i \in DOMAIN first : Rank(first[i]) = 5 /\ first[i].do \in Pipe /\ Foreign(first[i], m)
      /\ \A i \in DOMAIN first : i # Len(first) => i + 1 \in DOMAIN first
      /\ 1 \in DOMAIN first /\ Len(first) \in DOMAIN first
      /\ n = m => Own(first[1], m)
  <2>1. CASE n = m
    <3>1. first = <<Stage("vectorize")>> /\ Stage("vectorize") \in Stages
      BY <2>1, StagesAreGood DEF Kinds, GoodStage
    <3>2. Len(first) = 1 /\ DOMAIN first = {1} /\ first[1] = Stage("vectorize")
      BY <3>1
    <3>3. Own(first[1], m) /\ Foreign(first[1], m) /\ first[1].do \in Pipe /\ Rank(first[1]) = 5
      BY <3>2, RanksAre, IndexAssumption DEF Own, Foreign, Stage, Pipe
    <3> QED BY <3>1, <3>2, <3>3
  <2>2. CASE n # m
    <3>1. /\ first = <<Child("vectorize", n), Child("intents", n)>>
          /\ Child("vectorize", n) \in Stages /\ Child("intents", n) \in Stages
      BY <1>2, <2>2, StagesAreGood DEF InChildren, GoodStage
    <3>2. /\ Len(first) = 2 /\ DOMAIN first = {1, 2}
          /\ first[1] = Child("vectorize", n) /\ first[2] = Child("intents", n)
      BY <3>1
    <3>3. \A i \in {1, 2} : Rank(first[i]) = 5 /\ first[i].do \in Pipe /\ Foreign(first[i], m)
      <4>1. Rank(first[1]) = 5 /\ Rank(first[2]) = 5
        BY <1>2, <3>2, RanksAre
      <4>2. first[1].do = "vectorize" /\ first[2].do = "intents" /\ first[1].model = n /\ first[2].model = n
        BY <3>2 DEF Child, Stage
      <4> QED BY <2>2, <4>1, <4>2 DEF Foreign, Pipe
    <3> QED BY <2>2, <3>1, <3>2, <3>3
  <2> QED BY <2>1, <2>2
<1>7. PICK p : p = first \o q
  OBVIOUS
<1>12. /\ \A i \in DOMAIN p : (\E k \in DOMAIN first : p[i] = first[k]) \/ \E k \in DOMAIN q : p[i] = q[k]
       /\ \A k \in DOMAIN first : \E i \in DOMAIN p : p[i] = first[k]
       /\ \A k \in DOMAIN q : \E i \in DOMAIN p : p[i] = q[k]
       /\ p # <<>> /\ Head(p) = first[1]
  <2>1. MadeOf(p, first, q)
    BY <1>2, <1>6, <1>7, JoinedElements
  <2> QED BY <2>1, <1>2, <1>6, <1>7 DEF MadeOf
<1>8. InOrder(p)
  <2>1. \A i \in DOMAIN first : i # Len(first) => Follows(first[i], first[i + 1])
    BY <1>6 DEF Follows
  <2>2. Follows(first[Len(first)], q[1])
    BY <1>5, <1>6 DEF Follows
  <2> QED BY <1>2, <1>4, <1>5, <1>6, <1>7, <2>1, <2>2, OrderJoined DEF SyncOrder
<1>9. \A i \in DOMAIN p : p[i].do \in Pipe /\ Foreign(p[i], m)
  <2>1. \A i \in DOMAIN p : (\E k \in DOMAIN first : p[i] = first[k]) \/ \E k \in DOMAIN q : p[i] = q[k]
    BY <1>12
  <2> QED BY <1>4, <1>6, <2>1 DEF SyncOrder
<1>10. Step(p) = 5
  <2>1. p # <<>> /\ Head(p) = first[1]
    BY <1>12
  <2> QED BY <1>6, <2>1 DEF Step
<1>11. OwnIn(job.plan, m) => OwnIn(p, m)
  <2> SUFFICES ASSUME OwnIn(job.plan, m)
               PROVE  OwnIn(p, m)
    OBVIOUS
  <2>1. CASE Own(Head(job.plan), m)
    <3>1. n = m
      BY <2>1 DEF Own
    <3>2. Own(first[1], m) /\ 1 \in DOMAIN first
      BY <1>6, <3>1
    <3>3. PICK i \in DOMAIN p : p[i] = first[1]
      BY <1>12, <3>2
    <3> QED BY <3>2, <3>3 DEF OwnIn
  <2>2. CASE OwnIn(q, m)
    <3>1. PICK k \in DOMAIN q : Own(q[k], m)
      BY <2>2 DEF OwnIn
    <3>2. PICK i \in DOMAIN p : p[i] = q[k]
      BY <1>12
    <3> QED BY <3>1, <3>2 DEF OwnIn
  <2> QED BY <1>4, <2>1, <2>2
<1> QED BY <1>1, <1>3, <1>7, <1>8, <1>9, <1>10, <1>11 DEF SyncOrder

-----------------------------------------------------------------------------
(* Links                                                                   *)

\* The help files in hand are those of LocalApp.
LEMMA LocalAt ==
  ASSUME TypeInv, PipeStep, At(job', "local", "pages")
  PROVE  \/ \E a \in Apps : LocalApp(a)
         \/ (ReadFile \/ FileStored) /\ job'.left \subseteq job.left /\ At(job, "local", "pages")
<1>1. job \in JobRecords /\ GoodPlan(job.plan)
  BY JobIs
<1>2. job.plan # <<>> /\ (job'.plan = job.plan \/ job' = Then(job) \/ job'.plan = <<>>)
  BY PipeSteps
<1>3. job' # Then(job)
  <2>1. job' = Then(job) => job'.phase \in {"enter", "answer"}
    BY <1>1, <1>2, ThenSound
  <2> QED BY <2>1 DEF At
<1>4. job'.plan = job.plan /\ Head(job.plan).do = "local" /\ job'.phase = "pages"
  BY <1>2, <1>3 DEF At
<1>5. CASE Embed \/ Abandon \/ SaveNothing \/ CreateTable \/ DeleteRows \/ AddRows \/ Unlist \/ List \/ SetFlag
  <2>1. job.phase \in {"embed", "save", "add", "unlist", "list", "flag"}
    BY <1>5 DEF Embed, Abandon, SaveNothing, CreateTable, DeleteRows, AddRows, Unlist, List, SetFlag
  <2> QED BY <1>4, <2>1, PhaseStage
<1>6. CASE EnterVectorize \/ EnterIntents \/ UnlistIntents \/ FetchPage \/ PagesDone
  BY <1>4, <1>6 DEF EnterVectorize, EnterIntents, UnlistIntents, FetchPage, PagesDone, Doing
<1>7. CASE EnterScan \/ EnterFetch \/ EnterLocal \/ EnterKeywords \/ FilesDone
  BY <1>1, <1>4, <1>7 DEF EnterScan, EnterFetch, EnterLocal, EnterKeywords, FilesDone, Loop, Doing, JobRecords
<1>8. CASE \E a \in Apps : ScanApp(a) \/ Keyword(a) \/ FetchApp(a) \/ AskToc(a) \/ TocArrives(a)
                           \/ LocalApp(a) \/ VectorizeApp(a)
  <2>1. PICK a \in Apps : ScanApp(a) \/ Keyword(a) \/ FetchApp(a) \/ AskToc(a) \/ TocArrives(a)
                          \/ LocalApp(a) \/ VectorizeApp(a)
    BY <1>8
  <2>2. LocalApp(a)
    BY <1>4, <2>1 DEF ScanApp, Keyword, FetchApp, AskToc, TocArrives, VectorizeApp, Doing
  <2> QED BY <2>2
<1>9. CASE ReadFile \/ FileStored
  <2>1. At(job, "local", "pages")
    BY <1>9 DEF ReadFile, FileStored, Doing, At
  <2>2. job'.left \subseteq job.left
    BY <1>1, <1>9 DEF ReadFile, FileStored, JobRecords
  <2> QED BY <1>9, <2>1, <2>2
<1> QED BY <1>5, <1>6, <1>7, <1>8, <1>9 DEF PipeStep

\* Links are of pages of the application, and complete where the table of
\* contents is stored, if no request for one fails.
LEMMA LinksKeep ==
  ASSUME TypeInv, ConfigInv, PlanInv, HarmlessInv, LinksInv, [Next]_vars, Calm
  PROVE  LinksInv'
<1>1. job \in JobRecords /\ GoodPlan(job.plan) /\ job.plan \in Seq(Stages)
  BY JobIs DEF GoodPlan
<1>2. /\ links \in [Apps -> SUBSET Pages] /\ toc \subseteq Apps
      /\ \A a \in Apps : PagesOf[a] \in SUBSET Pages
      /\ \A a \in Apps : Guide(a) \subseteq PagesOf[a] /\ HelpFiles(a) \subseteq PagesOf[a]
      /\ \A a \in Apps : Guide(a) \subseteq WebPages
  BY IndexAssumption DEF TypeInv, StoreTypes, Pages, Guide, HelpFiles
<1>3. ASSUME UNCHANGED <<links, toc>>,
             At(job', "local", "pages") => At(job, "local", "pages") /\ job'.left \subseteq job.left
      PROVE  LinksInv'
  BY <1>3 DEF LinksInv
<1>4. CASE PipeStep
  <2>1. CASE \E a \in Apps : LocalApp(a)
    <3>1. PICK a \in Apps : LocalApp(a)
      BY <2>1
    <3>2. UNCHANGED <<links, toc>> /\ job'.left = Pending(a, HelpFiles(a))
      BY <1>1, <3>1 DEF LocalApp, JobRecords, store
    <3>3. \A t \in job'.left : t[2] \in PagesOf[t[1]]
      BY <1>2, <3>2 DEF Pending, Of
    <3> QED BY <3>2, <3>3 DEF LinksInv
  <2>2. CASE \E a \in Apps : TocArrives(a)
    <3>1. PICK a \in Apps : TocArrives(a)
      BY <2>2
    <3>2. ~At(job', "local", "pages")
      <4>1. CASE job' = Then(job)
        <5>1. job.plan # <<>>
          BY <3>1 DEF TocArrives, Doing
        <5> QED BY <1>1, <4>1, <5>1, ThenSound DEF At
      <4>2. CASE job' # Then(job)
        <5>1. job'.plan = job.plan /\ Head(job.plan).do = "fetch"
          <6>1. \E todo, left, got : job' = [job EXCEPT !.phase = "pages", !.todo = todo, !.left = left, !.got = got]
            BY <3>1, <4>2, TocStored
          <6> QED BY <1>1, <3>1, <6>1 DEF TocArrives, Doing, JobRecords
        <5> QED BY <5>1 DEF At
      <4> QED BY <4>1, <4>2
    <3>3. UNCHANGED <<links, toc>> \/ (links' = [links EXCEPT ![a] = @ \cup Guide(a)] /\ toc' = toc \cup {a})
      BY <3>1 DEF TocArrives, Calm
    <3>4. \A b \in Apps : links'[b] \subseteq PagesOf[b] /\ links[b] \subseteq links'[b]
      BY <1>2, <3>3 DEF LinksInv
    <3>5. \A b \in toc' : Guide(b) \subseteq links'[b]
      BY <1>2, <3>3, <3>4 DEF LinksInv
    <3> QED BY <3>2, <3>4, <3>5 DEF LinksInv
  <2>3. CASE ReadFile
    <3>1. At(job, "local", "pages") /\ toc' = toc
      BY <2>3 DEF ReadFile, Doing, At
    <3>2. PICK t \in job.left : links' = [links EXCEPT ![t[1]] = @ \cup {t[2]}] \/ links' = links
      BY <2>3 DEF ReadFile
    <3>3. t[2] \in PagesOf[t[1]]
      BY <3>1 DEF LinksInv
    <3>4. \A b \in Apps : links'[b] \subseteq PagesOf[b] /\ links[b] \subseteq links'[b]
      BY <1>2, <3>2, <3>3 DEF LinksInv
    <3>5. \A b \in toc' : Guide(b) \subseteq links'[b]
      BY <1>2, <3>1, <3>4 DEF LinksInv
    <3>6. job'.left \subseteq job.left
      BY <1>1, <2>3 DEF ReadFile, JobRecords
    <3> QED BY <3>1, <3>4, <3>5, <3>6 DEF LinksInv
  <2>4. CASE /\ ~\E a \in Apps : LocalApp(a) \/ TocArrives(a)
             /\ ~ReadFile
    <3>1. UNCHANGED <<links, toc>>
      BY <1>4, <2>4 DEF PipeStep, EnterScan, EnterFetch, EnterLocal, EnterKeywords, ScanApp, Keyword, FetchApp,
         AskToc, VectorizeApp, FetchPage, PagesDone, FileStored, FilesDone, EnterVectorize, EnterIntents,
         UnlistIntents, Embed, Abandon, SaveNothing, CreateTable, DeleteRows, AddRows, Unlist, List, SetFlag, store
    <3> QED BY <1>3, <1>4, <2>4, <3>1, LocalAt
  <2> QED BY <2>1, <2>2, <2>3, <2>4
<1>5. CASE ClearStep
  <2>1. job'.phase # "pages" /\ job.plan # <<>>
    BY <1>5, ClearIs
  <2>2. CASE ClearLinks
    <3>1. Head(job.plan).do = "links" /\ toc' = toc /\ links' = [a \in Apps |-> links[a] \ Purged]
      BY <2>2 DEF ClearLinks, Statement, Doing
    <3>2. Purged \cap WebPages = {} \/ known = {}
      <4>1. 1 \in DOMAIN job.plan /\ Head(job.plan) = job.plan[1] /\ \A k \in DOMAIN job.plan : ~(k < 1)
        BY <1>1, <2>1, TailIs
      <4> QED BY <3>1, <4>1 DEF HarmlessInv, Harmless, Purged
    <3>3. \A a \in toc : Guide(a) \subseteq links'[a]
      BY <1>2, <3>1, <3>2 DEF LinksInv, TypeInv, StoreTypes
    <3>4. \A a \in Apps : links'[a] \subseteq PagesOf[a]
      BY <1>2, <3>1 DEF LinksInv
    <3> QED BY <2>1, <3>1, <3>3, <3>4 DEF LinksInv, At
  <2>3. CASE ~ClearLinks
    <3>1. links' = links /\ (toc' = toc \/ toc' = {})
      BY <1>5, <2>3 DEF ClearStep, ClearApps, ClearDocs, DropTable, ClearFts, ClearVectors, UnflagAffected,
         UnflagCurrent, ForgetKeywords, store
    <3> QED BY <2>1, <3>1 DEF LinksInv, At
  <2> QED BY <2>2, <2>3
<1>6. CASE EndStage \/ Answer \/ Cancel \/ KillChild \/ ChooseProcess \/ Sync \/ Single \/ Clear
  <2>1. UNCHANGED <<links, toc>>
    BY <1>6 DEF EndStage, Answer, Cancel, KillChild, ChooseProcess, Sync, Single, Clear, Start, store
  <2>2. CASE EndStage \/ KillChild
    <3>1. job.plan # <<>> /\ job' = Then(job)
      BY <2>2, JobIs DEF EndStage, KillChild, InChild
    <3> QED BY <1>1, <1>3, <2>1, <3>1, ThenSound DEF At
  <2>3. CASE Answer \/ Sync \/ Single \/ Clear
    <3>1. job' = Idle \/ \E plan, clean : Start(plan, clean)
      BY <2>3 DEF Answer, Sync, Single, Clear
    <3>2. job'.phase # "pages"
      <4>1. CASE job' = Idle
        BY <4>1 DEF Idle
      <4>2. CASE \E plan, clean : Start(plan, clean)
        <5>1. PICK plan, clean : job' = [Idle EXCEPT !.plan = plan, !.phase = "enter", !.clean = clean]
          BY <4>2 DEF Start
        <5> QED BY <5>1 DEF Idle
      <4> QED BY <3>1, <4>1, <4>2
    <3> QED BY <1>3, <2>1, <3>2 DEF At
  <2>4. CASE Cancel
    <3>1. job'.plan = job.plan /\ job'.phase = job.phase /\ job'.left = job.left
      BY <1>1, <2>4 DEF Cancel, JobRecords
    <3> QED BY <1>3, <2>1, <3>1 DEF At
  <2>5. CASE ChooseProcess
    <3>1. job'.phase = "enter"
      BY <1>1, <2>5 DEF ChooseProcess, Doing, JobRecords
    <3> QED BY <1>3, <2>1, <3>1 DEF At
  <2> QED BY <1>6, <2>2, <2>3, <2>4, <2>5
<1>7. CASE \/ Reload \/ (\E m \in Models : UpdateModels(m))
           \/ \E r \in Runs : TestsBegin(r) \/ TestsEnd(r) \/ \E m \in Models : TestsMode(r, m)
  <2>1. UNCHANGED <<store, job>>
    BY <1>7, QuietSteps DEF Calm
  <2> QED BY <1>3, <2>1 DEF store
<1>8. CASE UNCHANGED vars
  BY <1>3, <1>8 DEF vars
<1>9. ~Crash
  BY DEF Crash, Calm
<1> QED BY <1>4, <1>5, <1>6, <1>7, <1>8, <1>9 DEF Next, Operation, Client, PipeStep, ClearStep

-----------------------------------------------------------------------------
(* chunks_fts and the flags                                                *)

\* Where the flags and the documents of this application are about to part, or
\* its rows of chunks_fts about to be put back.
Unlisted(j, a) ==
  \/ j.phase = "pages" /\ \E t \in j.got : t[1] = a
  \/ At(j, "vectorize", "list") /\ \E t \in j.got : t[1] = a

\* A step after which flagged applications are listed as they were.
LEMMA ListedStays ==
  ASSUME TypeInv, ListedInv,
         \A m \in Models : flag'[m] \subseteq flag[m],
         \A a \in Apps : docs'[a] \subseteq docs[a],
         \A m \in Models : \A a \in flag'[m] :
           Unlisted(job, a) => Unlisted(job', a) \/ \A i \in docs[a] \cup {Meta} : <<NameOf[a], i>> \in fts',
         \A m \in Models : \A a \in flag'[m] :
           ~Unlisted(job', a) => \A i \in docs[a] \cup {Meta} : <<NameOf[a], i>> \in fts => <<NameOf[a], i>> \in fts',
         At(job', "vectorize", "flag") => Rows' \subseteq fts'
  PROVE  ListedInv'
<1>1. SUFFICES ASSUME NEW m \in Models, NEW a \in flag'[m], ~Unlisted(job', a)
               PROVE  Listed(a)'
  BY DEF ListedInv, Unlisted
<1>2. a \in flag[m] /\ a \in Apps
  BY DEF TypeInv, StoreTypes, IndexTypes
<1>3. \A i \in docs[a] \cup {Meta} : <<NameOf[a], i>> \in fts'
  <2>1. CASE Unlisted(job, a)
    BY <1>1, <2>1
  <2>2. CASE ~Unlisted(job, a)
    <3>1. Listed(a)
      BY <1>2, <2>2 DEF ListedInv, Unlisted
    <3>2. \A i \in docs[a] \cup {Meta} : <<NameOf[a], i>> \in fts
      BY <3>1 DEF Listed, Body
    <3> QED BY <1>1, <3>2
  <2> QED BY <2>1, <2>2
<1>4. docs'[a] \subseteq docs[a]
  BY <1>2
<1>5. \A i \in docs'[a] \cup {Meta} : <<NameOf[a], i>> \in fts'
  BY <1>3, <1>4
<1> QED BY <1>5 DEF Listed, Body

\* A step that leaves chunks_fts, the documents and the flags.
LEMMA ListedSame ==
  ASSUME TypeInv, ListedInv, UNCHANGED <<flag, docs, fts>>,
         \A a \in Apps : Unlisted(job, a) => Unlisted(job', a),
         ~At(job', "vectorize", "flag")
  PROVE  ListedInv'
<1>1. \A m \in Models : flag'[m] \subseteq Apps
  BY DEF TypeInv, StoreTypes, IndexTypes
<1> QED BY <1>1, ListedStays

\* Nothing is unlisted away from where pages are stored and rows put back.
LEMMA NotUnlisted ==
  ASSUME NEW j, j.phase # "pages", j.phase # "list"
  PROVE  \A a : ~Unlisted(j, a)
<1> QED BY DEF Unlisted, At

\* Operations that begin, choose a process, are cancelled and end.
LEMMA MovesListed ==
  ASSUME TypeInv, ListedInv, "kill" \notin Env,
         \/ EndStage \/ Answer \/ Cancel \/ KillChild \/ ChooseProcess \/ Sync \/ Single \/ Clear
  PROVE  ListedInv'
<1>1. UNCHANGED <<flag, docs, fts>>
  BY DEF EndStage, Answer, Cancel, KillChild, ChooseProcess, Sync, Single, Clear, Start, store, index
<1>2. job \in JobRecords /\ GoodPlan(job.plan)
  BY JobIs
<1>3. CASE Cancel
  <2>1. job'.plan = job.plan /\ job'.phase = job.phase /\ job'.got = job.got
    BY <1>2, <1>3 DEF Cancel, JobRecords
  <2>2. \A a \in Apps : Unlisted(job, a) => Unlisted(job', a)
    BY <2>1 DEF Unlisted, At
  <2>3. At(job', "vectorize", "flag") => Rows' \subseteq fts'
    BY <1>1, <2>1, SameRows DEF ListedInv, At
  <2>4. \A m \in Models : flag'[m] \subseteq Apps
    BY <1>1 DEF TypeInv, StoreTypes, IndexTypes
  <2> QED BY <1>1, <2>2, <2>3, <2>4, ListedStays
<1>4. CASE ~Cancel
  <2>1. job.phase \in {"idle", "enter", "next", "answer"} /\ job'.phase \in {"idle", "enter", "answer"}
    <3>1. CASE EndStage
      <4>1. job.plan # <<>> /\ job' = Then(job) /\ job.phase = "next"
        BY <3>1, JobIs DEF EndStage
      <4> QED BY <1>2, <4>1, ThenSound
    <3>2. CASE ChooseProcess
      BY <1>2, <3>2 DEF ChooseProcess, Doing, JobRecords
    <3>3. CASE Answer \/ Sync \/ Single \/ Clear
      <4>1. (Answer /\ job' = Idle) \/ \E plan, clean : Start(plan, clean)
        BY <3>3 DEF Answer, Sync, Single, Clear
      <4>2. CASE Answer /\ job' = Idle
        BY <4>2 DEF Answer, Idle
      <4>3. CASE \E plan, clean : Start(plan, clean)
        <5>1. PICK plan, clean : /\ job.phase = "idle"
                                 /\ job' = [Idle EXCEPT !.plan = plan, !.phase = "enter", !.clean = clean]
          BY <4>3 DEF Start
        <5> QED BY <5>1 DEF Idle
      <4> QED BY <4>1, <4>2, <4>3
    <3> QED BY <1>4, <3>1, <3>2, <3>3 DEF KillChild
  <2> QED BY <1>1, <2>1, NotUnlisted, ListedSame DEF At
<1> QED BY <1>3, <1>4

\* A document comes for an application whose flags are still to be reset.
LEMMA StoredListed ==
  ASSUME TypeInv, ListedInv, NEW t, docs' = [docs EXCEPT ![t[1]] = @ \cup {t[2]}],
         UNCHANGED <<flag, fts>>, job.phase = "pages",
         job'.phase = "pages", job.got \subseteq job'.got, t \in job'.got
  PROVE  ListedInv'
<1>1. SUFFICES ASSUME NEW m \in Models, NEW a \in flag[m], ~Unlisted(job', a)
               PROVE  Listed(a)'
  BY DEF ListedInv, Unlisted, At
<1>2. a \in Apps /\ a # t[1] /\ ~Unlisted(job, a)
  BY <1>1 DEF TypeInv, StoreTypes, IndexTypes, Unlisted, At
<1>3. docs'[a] = docs[a]
  BY <1>2 DEF TypeInv, StoreTypes
<1>4. Listed(a)
  BY <1>2 DEF ListedInv, Unlisted
<1> QED BY <1>3, <1>4 DEF Listed, Body

\* Pages and files, and the flags they reset.
LEMMA PagesListed ==
  ASSUME TypeInv, SettledInv, ListedInv, FetchPage \/ PagesDone \/ ReadFile \/ FileStored \/ FilesDone
  PROVE  ListedInv'
<1>1. fts' = fts /\ job.phase = "pages" /\ job \in JobRecords
      /\ job.plan # <<>> /\ Head(job.plan).do \in {"fetch", "local"}
  BY JobIs DEF FetchPage, PagesDone, ReadFile, FileStored, FilesDone, Doing, index
<1>2. \A m \in Models : flag[m] \subseteq Apps
  BY DEF TypeInv, StoreTypes, IndexTypes
<1>3. CASE FetchPage
  <2>1. PICK t \in job.left, ok \in BOOLEAN :
          /\ docs' = IF ok THEN [docs EXCEPT ![t[1]] = @ \cup {t[2]}] ELSE docs
          /\ job' = [job EXCEPT !.left = @ \ {t}, !.clean = @ /\ ok]
    BY <1>3 DEF FetchPage
  <2>2. PICK clean : clean = (job.clean /\ ok)
    OBVIOUS
  <2>3. job' = [job EXCEPT !.left = job.left \ {t}, !.clean = clean] /\ flag' = flag /\ At(job, "fetch", "pages")
    BY <1>3, <2>1, <2>2 DEF FetchPage, index, Doing, At
  <2>4. job'.plan = job.plan /\ job'.phase = "pages" /\ job'.got = job.got
    BY <1>1, <2>3 DEF JobRecords
  <2>5. job.left \subseteq job.got
    BY <2>3 DEF SettledInv, FetchInv
  <2>6. CASE ok
    BY <1>1, <2>1, <2>3, <2>4, <2>5, <2>6, StoredListed
  <2>7. CASE ~ok
    <3>1. \A a \in Apps : Unlisted(job, a) => Unlisted(job', a)
      BY <1>1, <2>4 DEF Unlisted, At
    <3> QED BY <1>1, <2>1, <2>3, <2>4, <2>7, <3>1, ListedSame DEF At
  <2> QED BY <2>6, <2>7
<1>4. CASE PagesDone \/ FileStored
  <2>1. /\ flag' = [m \in Models |-> flag[m] \ {t[1] : t \in job.got}] /\ docs' = docs
        /\ job'.phase \in {"next", "pages"}
    BY <1>1, <1>4 DEF PagesDone, FileStored, Unflag, JobRecords, store
  <2>2. \A m \in Models : flag'[m] \subseteq flag[m] /\ \A a \in flag'[m] : ~Unlisted(job, a)
    BY <1>1, <2>1 DEF Unlisted, At
  <2> QED BY <1>1, <2>1, <2>2, ListedStays DEF At
<1>5. CASE FilesDone
  <2>1. /\ UNCHANGED <<flag, docs>> /\ job.got = {} /\ job'.phase = "next"
    BY <1>1, <1>5 DEF FilesDone, JobRecords, store, index
  <2>2. \A a \in Apps : ~Unlisted(job, a)
    BY <1>1, <2>1 DEF Unlisted, At
  <2> QED BY <1>1, <2>1, <2>2, ListedSame DEF At
<1>6. CASE ReadFile
  <2>1. PICK t \in job.left :
          \/ /\ docs' = [docs EXCEPT ![t[1]] = @ \cup {t[2]}]
             /\ job' = [job EXCEPT !.left = @ \ {t}, !.got = {t}]
          \/ /\ job' = [job EXCEPT !.left = @ \ {t}, !.clean = FALSE]
             /\ docs' = docs
    BY <1>6 DEF ReadFile
  <2>2. flag' = flag /\ job.got = {}
    BY <1>6 DEF ReadFile, index
  <2>3. job'.plan = job.plan /\ job'.phase = "pages"
    BY <1>1, <2>1 DEF JobRecords
  <2>4. CASE docs' = [docs EXCEPT ![t[1]] = @ \cup {t[2]}] /\ job' = [job EXCEPT !.left = @ \ {t}, !.got = {t}]
    <3>1. job'.got = {t}
      BY <1>1, <2>4 DEF JobRecords
    <3> QED BY <1>1, <2>2, <2>3, <2>4, <3>1, StoredListed
  <2>5. CASE docs' = docs
    <3>1. \A a \in Apps : ~Unlisted(job, a)
      BY <1>1, <2>2 DEF Unlisted, At
    <3> QED BY <1>1, <2>2, <2>3, <2>5, <3>1, ListedSame DEF At
  <2> QED BY <2>1, <2>4, <2>5
<1> QED BY <1>3, <1>4, <1>5, <1>6

\* Up to the rows being saved, runVectorize leaves chunks_fts and the flags of
\* applications that are listed.
LEMMA EarlyListed ==
  ASSUME TypeInv, ListedInv,
         \/ EnterScan \/ EnterFetch \/ EnterLocal \/ EnterKeywords
         \/ \E a \in Apps : ScanApp(a) \/ Keyword(a) \/ FetchApp(a) \/ AskToc(a) \/ TocArrives(a)
                            \/ LocalApp(a) \/ VectorizeApp(a)
         \/ EnterVectorize \/ EnterIntents \/ Embed \/ Abandon \/ SaveNothing \/ CreateTable \/ DeleteRows
         \/ AddRows
  PROVE  ListedInv'
<1>1. job \in JobRecords /\ GoodPlan(job.plan)
  BY JobIs
<1>2. UNCHANGED <<docs, fts>> /\ job.phase \in {"enter", "next", "toc", "embed", "save", "add"} /\ PipeStep
  BY DEF EnterScan, EnterFetch, EnterLocal, EnterKeywords, ScanApp, Keyword, FetchApp, AskToc, TocArrives,
         LocalApp, VectorizeApp, EnterVectorize, EnterIntents, Embed, Abandon, SaveNothing, CreateTable,
         DeleteRows, AddRows, Doing, store, index, PipeStep
<1>3. \A m \in Models : flag'[m] \subseteq flag[m]
  <2>1. flag' = flag \/ flag' = [flag EXCEPT ![Named] = {}]
    BY DEF EnterScan, EnterFetch, EnterLocal, EnterKeywords, ScanApp, Keyword, FetchApp, AskToc, TocArrives,
         LocalApp, VectorizeApp, EnterVectorize, EnterIntents, Embed, Abandon, SaveNothing, CreateTable,
         DeleteRows, AddRows, store, index
  <2>2. flag \in [Models -> SUBSET known]
    BY DEF TypeInv, IndexTypes
  <2> QED BY <2>1, <2>2
<1>4. job'.phase # "flag"
  <2>1. CASE Embed
    <3>1. \E left, got, by, clean : \E phase \in {"save", "embed"} :
            job' = [job EXCEPT !.left = left, !.clean = clean, !.got = got, !.by = by, !.phase = phase]
      <4>1. PICK t, ok : job' = [job EXCEPT !.left = @ \ {t}, !.clean = @ /\ ok,
                           !.got = IF ok THEN @ \cup {t} ELSE @,
                           !.by = IF ok THEN @ \cup {Embedder} ELSE @,
                           !.phase = IF job.left = {t} THEN "save" ELSE "embed"]
        BY <2>1 DEF Embed
      <4>2. job' = [job EXCEPT !.left = job.left \ {t}, !.clean = job.clean /\ ok,
                           !.got = IF ok THEN job.got \cup {t} ELSE job.got,
                           !.by = IF ok THEN job.by \cup {Embedder} ELSE job.by,
                           !.phase = IF job.left = {t} THEN "save" ELSE "embed"]
        BY <4>1
      <4> QED BY <4>2
    <3> QED BY <1>1, <3>1 DEF JobRecords
  <2>2. ASSUME job' = Then(job)
        PROVE  job'.phase # "flag"
    <3>1. job.plan # <<>>
      BY <1>2, PipeSteps
    <3> QED BY <1>1, <2>2, <3>1, ThenSound
  <2>3. ASSUME \E phase \in {"save", "add", "unlist", "unintend"} : job' = [job EXCEPT !.phase = phase]
        PROVE  job'.phase # "flag"
    BY <1>1, <2>3 DEF JobRecords
  <2>4. ASSUME Fail \/ NextApp
        PROVE  job'.phase # "flag"
    BY <2>4, NextAppIs DEF Fail, Idle
  <2>5. CASE Abandon
    <3>1. CASE job' = Then(job)
      BY <2>2, <3>1
    <3>2. CASE job' # Then(job)
      <4>1. job' = [job EXCEPT !.phase = "save", !.left = {}]
        BY <2>5, <3>2 DEF Abandon
      <4> QED BY <1>1, <4>1 DEF JobRecords
    <3> QED BY <3>1, <3>2
  <2>6. CASE EnterIntents \/ SaveNothing \/ CreateTable \/ DeleteRows \/ AddRows
    <3>1. \/ job' = Then(job) \/ Fail \/ NextApp
          \/ \E phase \in {"save", "add", "unlist", "unintend"} : job' = [job EXCEPT !.phase = phase]
      BY <2>6 DEF EnterIntents, SaveNothing, CreateTable, DeleteRows, AddRows
    <3> QED BY <2>2, <2>3, <2>4, <3>1
  <2>7. CASE EnterVectorize \/ EnterScan \/ EnterFetch \/ EnterLocal \/ EnterKeywords
    BY <1>1, <2>7 DEF EnterVectorize, EnterScan, EnterFetch, EnterLocal, EnterKeywords, Loop, JobRecords
  <2>8. CASE \E a \in Apps : ScanApp(a) \/ Keyword(a) \/ FetchApp(a) \/ AskToc(a) \/ TocArrives(a)
                            \/ LocalApp(a) \/ VectorizeApp(a)
    <3>1. PICK a \in Apps : ScanApp(a) \/ Keyword(a) \/ FetchApp(a) \/ AskToc(a) \/ TocArrives(a)
                            \/ LocalApp(a) \/ VectorizeApp(a)
      BY <2>8
    <3>2. CASE ScanApp(a) \/ FetchApp(a) \/ AskToc(a) \/ LocalApp(a)
      BY <1>1, <3>2 DEF ScanApp, FetchApp, AskToc, LocalApp, Doing, JobRecords
    <3>3. CASE Keyword(a)
      <4>1. \E todo, clean : job' = [job EXCEPT !.todo = todo, !.clean = clean]
        BY <3>3 DEF Keyword
      <4> QED BY <1>1, <1>2, <4>1 DEF JobRecords
    <3>4. CASE VectorizeApp(a)
      <4>1. \E todo, left : job' = [job EXCEPT !.phase = "embed", !.todo = todo, !.left = left]
        BY <3>4 DEF VectorizeApp
      <4> QED BY <1>1, <4>1 DEF JobRecords
    <3>5. CASE TocArrives(a)
      <4>1. job' = Then(job) \/ \E todo, left, got :
              job' = [job EXCEPT !.phase = "pages", !.todo = todo, !.left = left, !.got = got]
        BY <3>5, TocStored
      <4>2. CASE \E todo, left, got : job' = [job EXCEPT !.phase = "pages", !.todo = todo, !.left = left, !.got = got]
        BY <1>1, <4>2 DEF JobRecords
      <4> QED BY <2>2, <4>1, <4>2
    <3> QED BY <3>1, <3>2, <3>3, <3>4, <3>5
  <2> QED BY <2>1, <2>5, <2>6, <2>7, <2>8
<1>5. \A a : ~Unlisted(job, a)
  BY <1>2, NotUnlisted
<1> QED BY <1>2, <1>3, <1>4, <1>5, ListedStays DEF At

\* The rows of the application taken out of chunks_fts, put back, and then its
\* flag set.
LEMMA RowsListed ==
  ASSUME TypeInv, WorkInv, SettledInv, ListedInv, OwnNames, Unlist \/ List \/ SetFlag
  PROVE  ListedInv'
<1>1. job \in JobRecords
  BY JobIs
<1>2. docs' = docs /\ job.phase \in {"unlist", "list", "flag"}
  BY DEF Unlist, List, SetFlag, store
<1>3. \A m \in Models : flag[m] \subseteq Apps
  BY DEF TypeInv, StoreTypes, IndexTypes
<1>4. CASE Unlist
  <2>1. /\ job'.plan = job.plan /\ job'.phase = "list" /\ job'.got = job.got /\ flag' = flag /\ fts' = Others(fts)
        /\ job.phase = "unlist"
    BY <1>4, PhaseIs DEF Unlist
  <2>2. \A a : ~Unlisted(job, a)
    BY <2>1, NotUnlisted
  <2>3. ASSUME NEW m \in Models, NEW a \in flag[m], ~Unlisted(job', a), NEW i \in docs[a] \cup {Meta},
               <<NameOf[a], i>> \in fts
        PROVE  <<NameOf[a], i>> \in fts'
    <3>1. CASE ~Replacing
      BY <2>1, <2>3, <3>1 DEF Others
    <3>2. CASE Replacing
      <4>1. At(job', "vectorize", "list")
        BY <2>1, <3>2, AtWork DEF Replacing, At, Embedding
      <4>2. \A t \in job.got : t[1] # a /\ t[1] \in Apps
        BY <2>1, <2>3, <4>1, JobIs DEF Unlisted
      <4>3. \A t \in job.got : NameOf[a] # NameOf[t[1]]
        BY <1>3, <2>3, <4>2 DEF OwnNames
      <4> QED BY <2>1, <2>3, <3>2, <4>3 DEF Others
    <3> QED BY <3>1, <3>2
  <2> QED BY <1>2, <1>3, <2>1, <2>2, <2>3, ListedStays DEF At
<1>5. CASE List
  <2>1. flag' = flag /\ fts' = fts \cup Rows /\ job.phase = "list"
    BY <1>5 DEF List
  <2>2. /\ job'.plan = job.plan /\ job'.phase \in {"flag", "next"} /\ (job'.phase = "flag" => job'.got = job.got)
    <3>1. CASE Replacing
      BY <1>5, <3>1, PhaseIs DEF List
    <3>2. CASE ~Replacing
      BY <1>5, <3>2, NextAppIs DEF List
    <3> QED BY <3>1, <3>2
  <2>3. ASSUME NEW m \in Models, NEW a \in flag[m], Unlisted(job, a)
        PROVE  \A i \in docs[a] \cup {Meta} : <<NameOf[a], i>> \in fts'
    <3>1. In(job, "vectorize") /\ \E t \in job.got : t[1] = a
      BY <2>1, <2>3 DEF Unlisted, At, In
    <3>2. PICK b \in Apps : OneApp(job, b, docs[b] \cup {Meta}, flag[Embedder])
      BY <2>1, <3>1 DEF SettledInv, TodoInv, Embedding
    <3>3. a = b /\ job.left = {}
      BY <2>1, <3>1, <3>2 DEF OneApp
    <3>4. \A i \in docs[a] \cup {Meta} : <<a, i>> \in job.got
      BY <3>2, <3>3 DEF OneApp
    <3>5. \A i \in docs[a] \cup {Meta} : <<NameOf[a], i>> \in Rows
      <4> SUFFICES ASSUME NEW i \in docs[a] \cup {Meta}
                   PROVE  <<NameOf[a], i>> \in Rows
        OBVIOUS
      <4>1. PICK t \in job.got : t = <<a, i>>
        BY <3>4
      <4> QED BY <4>1 DEF Rows
    <3> QED BY <2>1, <3>5
  <2>4. At(job', "vectorize", "flag") => Rows' \subseteq fts'
    BY <2>1, <2>2, SameRows DEF At
  <2> QED BY <1>2, <2>1, <2>3, <2>4, ListedStays
<1>6. CASE SetFlag
  <2>1. job.phase = "flag" /\ fts' = fts /\ NextApp
    BY <1>6 DEF SetFlag
  <2>2. job'.phase = "next" /\ In(job, "vectorize") /\ At(job, "vectorize", "flag")
    BY <2>1, NextAppIs, AtWork DEF Embedding, At, In
  <2>3. PICK e : e = job.col /\ e \in Models /\ e = Embedder
    BY <2>2, ModelsAre DEF WorkInv, WorkSound
  <2>4. flag' = [flag EXCEPT ![e] = @ \cup {t[1] : t \in job.got}]
    BY <1>6, <2>3 DEF SetFlag
  <2>5. PICK b \in Apps : OneApp(job, b, docs[b] \cup {Meta}, flag[e])
    BY <2>1, <2>2, <2>3 DEF SettledInv, TodoInv, Embedding
  <2>6. \A i \in docs[b] \cup {Meta} : <<NameOf[b], i>> \in fts
    <3> SUFFICES ASSUME NEW i \in docs[b] \cup {Meta}
                 PROVE  <<NameOf[b], i>> \in fts
      OBVIOUS
    <3>1. <<b, i>> \in job.got
      BY <2>1, <2>5 DEF OneApp
    <3>2. PICK t \in job.got : t = <<b, i>>
      BY <3>1
    <3>3. <<NameOf[b], i>> \in Rows
      BY <3>2 DEF Rows
    <3> QED BY <2>2, <3>3 DEF ListedInv
  <2>7. \A m \in Models : \A a \in flag'[m] : a \in flag[m] \/ a = b
    <3>1. \A t \in job.got : t[1] = b
      BY <2>5 DEF OneApp
    <3>2. flag \in [Models -> SUBSET known]
      BY DEF TypeInv, IndexTypes
    <3> QED BY <2>4, <3>1, <3>2
  <2>8. ASSUME NEW m \in Models, NEW a \in flag'[m]
        PROVE  Listed(a)'
    <3>1. \A i \in docs[a] \cup {Meta} : <<NameOf[a], i>> \in fts
      <4>1. CASE a = b
        BY <2>6, <4>1
      <4>2. CASE a \in flag[m]
        <5>1. Listed(a)
          BY <2>1, <4>2 DEF ListedInv, At
        <5> QED BY <5>1 DEF Listed, Body
      <4> QED BY <2>7, <2>8, <4>1, <4>2
    <3> QED BY <1>2, <2>1, <3>1 DEF Listed, Body
  <2> QED BY <2>2, <2>8 DEF ListedInv, At
<1> QED BY <1>4, <1>5, <1>6

\* The keywords taken out are no documents.
LEMMA IntentListed ==
  ASSUME TypeInv, ListedInv, UnlistIntents
  PROVE  ListedInv'
<1>1. /\ UNCHANGED <<docs, flag>> /\ fts' = {r \in fts : r[2] # Intent} /\ job.phase = "unintend"
  BY DEF UnlistIntents, store, Doing
<1>2. job'.phase = "embed"
  BY JobIs DEF UnlistIntents, JobRecords
<1>3. \A m \in Models : \A a \in flag[m] : \A i \in docs[a] \cup {Meta} : i # Intent
  BY IndexAssumption DEF TypeInv, StoreTypes, IndexTypes, Pages
<1>4. \A m \in Models : \A a \in flag[m] : \A i \in docs[a] \cup {Meta} :
        <<NameOf[a], i>> \in fts => <<NameOf[a], i>> \in fts'
  BY <1>1, <1>3
<1>5. \A a : ~Unlisted(job, a)
  BY <1>1, NotUnlisted
<1> QED BY <1>1, <1>2, <1>4, <1>5, ListedStays DEF At

\* A harmless db.clear takes nothing out of chunks_fts that a flag promises.
LEMMA ClearListed ==
  ASSUME TypeInv, PlanInv, HarmlessInv, ListedInv, ClearStep
  PROVE  ListedInv'
<1>1. /\ job.plan # <<>> /\ job.phase = "enter" /\ job.plan \in Seq(Stages)
      /\ job'.phase \in {"enter", "answer"}
  BY ClearIs
<1>2. /\ \A m \in Models : flag'[m] \subseteq flag[m]
      /\ \A a \in Apps : docs'[a] \subseteq docs[a]
  BY ClearTakes
<1>3. \A a : ~Unlisted(job, a)
  BY <1>1, NotUnlisted
<1>4. \A m \in Models : \A a \in flag[m] : \A i \in docs[a] \cup {Meta} :
        <<NameOf[a], i>> \in fts => <<NameOf[a], i>> \in fts'
  <2>1. CASE ClearFts
    <3>1. PICK items : items = Purged
      OBVIOUS
    <3>2. Head(job.plan).do = "fts" /\ Head(job.plan).items = items /\ fts' = {r \in fts : r[2] \notin items}
      BY <2>1, <3>1 DEF ClearFts, Statement, Doing, Purged
    <3>3. 1 \in DOMAIN job.plan /\ Head(job.plan) = job.plan[1] /\ \A k \in DOMAIN job.plan : ~(k < 1)
      BY <1>1, TailIs
    <3>4. CASE items = {Intent}
      <4>1. \A m \in Models : \A a \in flag[m] : \A i \in docs[a] \cup {Meta} : i # Intent
        BY IndexAssumption DEF TypeInv, StoreTypes, IndexTypes, Pages
      <4> QED BY <3>2, <3>4, <4>1
    <3>5. CASE known = {}
      BY <3>5 DEF TypeInv, IndexTypes
    <3>6. CASE items # {Intent} /\ known # {}
      <4>1. PICK k \in DOMAIN job.plan : job.plan[k].do = "vectors" /\ job.plan[k].items = items
        BY <3>2, <3>3, <3>6 DEF HarmlessInv, Harmless
      <4>2. items \in SUBSET Items
        <5>1. Head(job.plan) \in Stages
          BY <1>1
        <5> QED BY <3>2, <5>1 DEF Stages
      <4>3. Spared(items)
        BY <3>2, <4>1, <4>2 DEF PlanInv, SparedInv
      <4> QED BY <3>2, <4>3 DEF Spared
    <3> QED BY <3>4, <3>5, <3>6
  <2>2. CASE ~ClearFts
    <3>1. fts' = fts
      BY <2>2 DEF ClearStep, ClearApps, ClearLinks, ClearDocs, DropTable, ClearVectors, UnflagAffected,
         UnflagCurrent, ForgetKeywords, index
    <3> QED BY <3>1
  <2> QED BY <2>1, <2>2
<1>5. \A m \in Models : \A a \in flag'[m] : \A i \in docs[a] \cup {Meta} :
        <<NameOf[a], i>> \in fts => <<NameOf[a], i>> \in fts'
  BY <1>2, <1>4
<1> QED BY <1>1, <1>2, <1>3, <1>5, ListedStays DEF At

\* Every step keeps what is flagged in chunks_fts.
LEMMA ListedKeeps ==
  ASSUME TypeInv, ConfigInv, WorkInv, SettledInv, HarmlessInv, ListedInv, [Next]_vars, Calm
  PROVE  ListedInv'
<1>1. CASE Operation
  <2>1. CASE \/ EnterScan \/ EnterFetch \/ EnterLocal \/ EnterKeywords
             \/ \E a \in Apps : ScanApp(a) \/ Keyword(a) \/ FetchApp(a) \/ AskToc(a) \/ TocArrives(a)
                                \/ LocalApp(a) \/ VectorizeApp(a)
             \/ EnterVectorize \/ EnterIntents \/ Embed \/ Abandon \/ SaveNothing \/ CreateTable \/ DeleteRows
             \/ AddRows
    BY <2>1, EarlyListed
  <2>2. CASE ChooseProcess \/ EndStage \/ KillChild
    BY <2>2, MovesListed DEF Calm
  <2>3. CASE FetchPage \/ PagesDone \/ ReadFile \/ FileStored \/ FilesDone
    BY <2>3, PagesListed
  <2>4. CASE UnlistIntents \/ Unlist \/ List \/ SetFlag
    BY <2>4, IntentListed, RowsListed DEF Calm
  <2>5. CASE ClearStep
    BY <2>5, ClearListed DEF SettledInv
  <2> QED BY <1>1, <2>1, <2>2, <2>3, <2>4, <2>5 DEF Operation, ClearStep
<1>2. CASE Sync \/ Single \/ Clear \/ Answer \/ Cancel
  BY <1>2, MovesListed DEF Calm
<1>3. CASE \/ Reload \/ (\E m \in Models : UpdateModels(m))
           \/ \E r \in Runs : TestsBegin(r) \/ TestsEnd(r) \/ \E m \in Models : TestsMode(r, m)
  <2>1. UNCHANGED <<docs, flag, fts, job>> /\ job.phase = "idle"
    BY <1>3, QuietSteps DEF Calm, store, index
  <2> QED BY <2>1, ListedSame DEF At
<1>4. CASE UNCHANGED vars
  <2>1. UNCHANGED <<docs, flag, fts, job>>
    BY <1>4 DEF vars
  <2>2. Rows' = Rows
    BY <2>1, SameRows
  <2>3. \A a : Listed(a)' = Listed(a)
    BY <2>1 DEF Listed, Body
  <2> QED BY <2>1, <2>2, <2>3 DEF ListedInv
<1>5. ~Crash
  BY DEF Crash, Calm
<1> QED BY <1>1, <1>2, <1>3, <1>4, <1>5 DEF Next, Client

-----------------------------------------------------------------------------
(* A full sync, step by step                                               *)

\* What is known of a full sync under way.
LEMMA SyncedIs ==
  ASSUME TypeInv, Synced
  PROVE  /\ job \in JobRecords /\ GoodPlan(job.plan) /\ job.plan \in Seq(Stages) /\ config.model \in Models
         /\ (job.plan = <<>>) = (job.phase = "answer")
         /\ job.plan # <<>> =>
              /\ Head(job.plan).do \in Pipe /\ Foreign(Head(job.plan), config.model)
              /\ Step(job.plan) = Rank(Head(job.plan)) /\ Head(job.plan) \in Stages
         /\ \A i \in DOMAIN job.plan : i \in Nat
<1>1. job \in JobRecords /\ GoodPlan(job.plan) /\ job.plan \in Seq(Stages) /\ config.model \in Models
  BY JobIs, ModelsAre DEF GoodPlan, TypeInv, ConfigTypes
<1>2. (job.plan = <<>>) = (job.phase = "answer")
  BY JobIs DEF Synced
<1>3. job.plan # <<>> =>
        /\ Head(job.plan).do \in Pipe /\ Foreign(Head(job.plan), config.model)
        /\ Step(job.plan) = Rank(Head(job.plan)) /\ Head(job.plan) \in Stages
  <2> SUFFICES ASSUME job.plan # <<>>
               PROVE  /\ Head(job.plan).do \in Pipe /\ Foreign(Head(job.plan), config.model)
                      /\ Step(job.plan) = Rank(Head(job.plan)) /\ Head(job.plan) \in Stages
    OBVIOUS
  <2>1. 1 \in DOMAIN job.plan /\ Head(job.plan) = job.plan[1] /\ Head(job.plan) \in Stages
    BY <1>1, TailIs
  <2> QED BY <2>1, StepIs DEF Synced, SyncOrder
<1>4. \A i \in DOMAIN job.plan : i \in Nat
  BY <1>1
<1> QED BY <1>1, <1>2, <1>3, <1>4

\* A stage without a model of its own works for the model of the process, one
\* with a model for that.
LEMMA StageModel ==
  ASSUME TypeInv, ConfigInv, job.phase # "idle", job.plan # <<>>
  PROVE  IF Head(job.plan).model = NoModel
           THEN ~InChild /\ Embedder = config.model /\ Named = config.model
           ELSE InChild /\ Embedder = Head(job.plan).model /\ Named = Head(job.plan).model
<1>1. config.model = config.file
  BY DEF ConfigInv
<1> QED BY <1>1 DEF InChild, Embedder, Named, Reached

\* What vectorizes for the model of the process is still to come until its
\* stage.
LEMMA AheadIs ==
  ASSUME TypeInv, Synced, Step(job.plan) < 5
  PROVE  OwnAhead
<1>1. PICK i \in DOMAIN job.plan : Own(job.plan[i], config.model)
  BY DEF Synced, SyncOrder, OwnIn
<1>2. Rank(job.plan[i]) = 5
  BY <1>1, OwnRank
<1>3. job.plan # <<>> /\ Rank(Head(job.plan)) < 5 /\ Head(job.plan) = job.plan[1]
  BY <1>1, SyncedIs, StepIs, TailIs
<1>4. i # 1
  BY <1>2, <1>3
<1> QED BY <1>1, <1>4 DEF OwnAhead

\* A step within one of the first four stages, in which rows and documents are
\* only added.
LEMMA EarlySync ==
  ASSUME TypeInv, Synced, job.plan # <<>>, Head(job.plan).do \in {"scan", "fetch", "local", "keywords"},
         job'.plan = job.plan, job'.phase \notin {"idle", "enter"}, ~job'.cancelled, UNCHANGED config,
         known \subseteq known', \A a \in Apps : docs[a] \subseteq docs'[a],
         Head(job.plan).do = "scan" => \A a \in Apps : a \in known' \/ a \in job'.todo,
         Head(job.plan).do = "fetch" => \A a \in Apps : \A p \in Guide(a) :
           p \in docs'[a] \/ a \in job'.todo \/ (job'.phase = "pages" /\ <<a, p>> \in job'.left),
         Head(job.plan).do = "local" => \A a \in Apps : \A p \in HelpFiles(a) :
           p \in docs'[a] \/ a \in job'.todo \/ (job'.phase = "pages" /\ <<a, p>> \in job'.left)
  PROVE  Synced'
<1>1. PICK p, m, k : p = job.plan /\ m = config.model /\ k = Step(p)
  OBVIOUS
<1>2. SyncOrder(p, m) /\ k = Rank(Head(p)) /\ k \in 1 .. 4 /\ job'.plan = p /\ config'.model = m
  BY <1>1, SyncedIs, RankIs DEF Synced
<1>3. SyncOrder(job'.plan, config'.model)
  BY <1>2
<1>4. /\ k = 1 <=> Head(p).do = "scan"
      /\ k = 2 <=> Head(p).do = "fetch"
      /\ k = 3 <=> Head(p).do = "local"
  BY <1>2, RankIs
<1>5. ScanDone'
  <2>1. ASSUME NEW a \in Apps, ~(In(job', "scan") /\ a \in job'.todo)
        PROVE  a \in known'
    <3>1. CASE k = 1
      BY <1>1, <1>4, <2>1, <3>1 DEF In
    <3>2. CASE k # 1
      <4>1. Begun(1) /\ ~In(job, "scan")
        BY <1>1, <1>2, <1>4, <3>2 DEF Begun, In
      <4> QED BY <4>1 DEF Synced, SyncDone, ScanDone
    <3> QED BY <3>1, <3>2
  <2> QED BY <2>1 DEF ScanDone
<1>6. FetchDone'
  <2>1. ASSUME Begun(2)', NEW a \in Apps, NEW q \in Guide(a),
               ~(In(job', "fetch") /\ (a \in job'.todo \/ (job'.phase = "pages" /\ <<a, q>> \in job'.left)))
        PROVE  q \in docs'[a]
    <3>1. CASE k = 2
      BY <1>1, <1>4, <2>1, <3>1 DEF In
    <3>2. CASE k # 2
      <4>1. Begun(2) /\ ~In(job, "fetch")
        BY <1>1, <1>2, <1>4, <2>1, <3>2 DEF Begun, In
      <4>2. q \in docs[a]
        BY <4>1 DEF Synced, SyncDone, FetchDone, InLoop
      <4> QED BY <4>2
    <3> QED BY <3>1, <3>2
  <2> QED BY <2>1 DEF FetchDone, InLoop
<1>7. LocalDone'
  <2>1. ASSUME Begun(3)', NEW a \in Apps, NEW q \in HelpFiles(a),
               ~(In(job', "local") /\ (a \in job'.todo \/ (job'.phase = "pages" /\ <<a, q>> \in job'.left)))
        PROVE  q \in docs'[a]
    <3>1. CASE k = 3
      BY <1>1, <1>4, <2>1, <3>1 DEF In
    <3>2. CASE k # 3
      <4>1. Begun(3) /\ ~In(job, "local")
        BY <1>1, <1>2, <1>4, <2>1, <3>2 DEF Begun, In
      <4>2. q \in docs[a]
        BY <4>1 DEF Synced, SyncDone, LocalDone, InLoop
      <4> QED BY <4>2
    <3> QED BY <3>1, <3>2
  <2> QED BY <2>1 DEF LocalDone, InLoop
<1>8. VectorDone'
  <2>1. PICK i \in DOMAIN p : Own(p[i], m)
    BY <1>1, <1>2 DEF SyncOrder, OwnIn
  <2>2. i # 1
    <3>1. p \in Seq(Stages) /\ Head(p) = p[1] /\ Rank(p[i]) = 5
      BY <1>1, <2>1, SyncedIs, OwnRank
    <3> QED BY <1>2, <3>1
  <2>3. OwnAhead'
    BY <1>2, <2>1, <2>2 DEF OwnAhead
  <2> QED BY <2>3 DEF VectorDone
<1>9. IntentDone'
  <2>1. Step(job'.plan) = k /\ k < 6
    BY <1>1, <1>2
  <2>2. ~Begun(6)' /\ ~(Step(job'.plan) = 6)
    BY <1>2, <2>1 DEF Begun
  <2> QED BY <2>2 DEF IntentDone
<1> QED BY <1>3, <1>5, <1>6, <1>7, <1>8, <1>9 DEF Synced, SyncDone

\* A step within one of the later stages: rows and documents are as they were.
LEMMA LateSync ==
  ASSUME TypeInv, Synced, job.plan # <<>>, Step(job.plan) \in {5, 6},
         job'.plan = job.plan, job'.phase \notin {"idle", "enter"}, ~job'.cancelled,
         UNCHANGED <<config, known, docs>>, VectorDone', IntentDone'
  PROVE  Synced'
<1>1. PICK p, m, k : p = job.plan /\ m = config.model /\ k = Step(p)
  OBVIOUS
<1>2. SyncOrder(p, m) /\ k = Rank(Head(p)) /\ k \in {5, 6} /\ job'.plan = p /\ config'.model = m
  BY <1>1, SyncedIs, RankIs DEF Synced
<1>3. SyncOrder(job'.plan, config'.model)
  BY <1>2
<1>4. Head(p).do \notin {"scan", "fetch", "local"}
  BY <1>2, RankIs
<1>5. Begun(1) /\ Begun(2) /\ Begun(3) /\ ~In(job, "scan") /\ ~In(job, "fetch") /\ ~In(job, "local")
  BY <1>1, <1>2, <1>4 DEF Begun, In
<1>6. ScanDone'
  BY <1>5 DEF Synced, SyncDone, ScanDone
<1>7. FetchDone'
  BY <1>5 DEF Synced, SyncDone, FetchDone, InLoop
<1>8. LocalDone'
  BY <1>5 DEF Synced, SyncDone, LocalDone, InLoop
<1> QED BY <1>3, <1>6, <1>7, <1>8 DEF Synced, SyncDone

\* At the end of a stage that has nothing left in hand the next one comes.
LEMMA EndSync ==
  ASSUME TypeInv, Synced, job.plan # <<>>, job' = Then(job),
         UNCHANGED <<config, known, docs, keywords, flag, vec, fts>>,
         \/ job.phase = "next" /\ job.todo = {}
         \/ job.phase = "enter" /\ Head(job.plan).do = "intents" /\ keywords = {}
  PROVE  Synced'
<1>1. PICK p, m, k : p = job.plan /\ m = config.model /\ k = Step(p)
  OBVIOUS
<1>2. PICK q, n : q = Tail(p) /\ n = Step(q)
  OBVIOUS
<1>3. /\ SyncOrder(p, m) /\ k = Rank(Head(p)) /\ p \in Seq(Stages) /\ p # <<>> /\ config'.model = m
      /\ k \in 1 .. 6
  BY <1>1, SyncedIs, RankIs DEF Synced
<1>4. /\ SyncOrder(q, m) /\ (IF k = 5 THEN n \in {5, 6} ELSE n = k + 1)
      /\ OwnIn(p, m) => Own(Head(p), m) \/ OwnIn(q, m)
  BY <1>1, <1>2, <1>3, SyncTail
<1>5. /\ job'.plan = q /\ job'.phase \in {"enter", "answer"} /\ (job'.phase = "answer") = (q = <<>>)
      /\ ~job'.cancelled
  <2>1. ~job.cancelled
    BY DEF Synced
  <2>2. job' = [Idle EXCEPT !.plan = q, !.clean = job.clean, !.cancelled = job.cancelled,
                  !.phase = IF q = <<>> THEN "answer" ELSE "enter"]
    BY <1>1, <1>2, <2>1 DEF Then
  <2> QED BY <2>1, <2>2 DEF Idle
<1>6. n \in 1 .. 7 /\ (n = 7 <=> q = <<>>)
  BY <1>2, StepIs
<1>7. \A r \in 1 .. 6 : Begun(r)' => n > r
  BY <1>2, <1>5, <1>6 DEF Begun
<1>8. ASSUME NEW r \in 1 .. 6, r \in {1, 2, 3}, Begun(r)'
      PROVE  Begun(r)
  <2>1. n > r
    BY <1>7, <1>8
  <2>2. k > r \/ k = r
    BY <1>3, <1>4, <2>1
  <2>3. k = r => job.phase # "enter"
    BY <1>3, <1>8, RankIs, <1>1
  <2> QED BY <1>1, <2>2, <2>3 DEF Begun
<1>9. job.phase # "pages" /\ (job.phase # "enter" => job.todo = {})
  OBVIOUS
<1>10. ScanDone'
  <2>1. ASSUME Begun(1)', NEW a \in Apps
        PROVE  a \in known'
    BY <1>8, <1>9, <2>1 DEF Synced, SyncDone, ScanDone, In
  <2> QED BY <2>1 DEF ScanDone
<1>11. FetchDone'
  <2>1. ASSUME Begun(2)', NEW a \in Apps, NEW t \in Guide(a)
        PROVE  t \in docs'[a]
    <3>1. Begun(2) /\ ~InLoop("fetch", a, t)
      BY <1>8, <1>9, <2>1 DEF InLoop, In
    <3>2. t \in docs[a]
      BY <2>1, <3>1 DEF Synced, SyncDone, FetchDone
    <3> QED BY <3>2
  <2> QED BY <2>1 DEF FetchDone
<1>12. LocalDone'
  <2>1. ASSUME Begun(3)', NEW a \in Apps, NEW t \in HelpFiles(a)
        PROVE  t \in docs'[a]
    <3>1. Begun(3) /\ ~InLoop("local", a, t)
      BY <1>8, <1>9, <2>1 DEF InLoop, In
    <3>2. t \in docs[a]
      BY <2>1, <3>1 DEF Synced, SyncDone, LocalDone
    <3> QED BY <3>2
  <2> QED BY <2>1 DEF LocalDone
<1>13. VectorDone'
  <2>1. CASE OwnIn(q, m)
    <3>1. PICK i \in DOMAIN q : Own(q[i], m)
      BY <2>1 DEF OwnIn
    <3>2. q # <<>>
      BY <3>1
    <3>3. OwnAhead'
      BY <1>3, <1>5, <3>1, <3>2 DEF OwnAhead
    <3> QED BY <3>3 DEF VectorDone
  <2>2. CASE ~OwnIn(q, m)
    <3>1. ~OwnAhead
      <4> SUFFICES ASSUME NEW i \in DOMAIN p, Own(p[i], m), i # 1 \/ job.phase = "enter"
                   PROVE  FALSE
        BY <1>1 DEF OwnAhead
      <4>1. i \in Nat /\ (i = 1 \/ i > 1) /\ (i > 1 => i - 1 \in DOMAIN q /\ q[i - 1] = p[i]) /\ p[1] = Head(p)
        BY <1>2, <1>3, TailIs
      <4>2. i = 1
        BY <2>2, <4>1 DEF OwnIn
      <4>3. Head(p).do = "intents"
        BY <1>1, <4>2
      <4> QED BY <4>1, <4>2, <4>3 DEF Own
    <3>2. \A a \in Apps : ~ToFlag(a)
      BY <1>9 DEF ToFlag, InOwn, In, Embedding
    <3>3. \A a \in Apps : a \in flag[m]
      BY <1>1, <3>1, <3>2 DEF Synced, SyncDone, VectorDone
    <3> QED BY <1>3, <3>3 DEF VectorDone
  <2> QED BY <2>1, <2>2
<1>14. IntentDone'
  <2>1. job'.phase \notin Saving \cup {"save", "unlist", "list"}
    BY <1>5 DEF Saving
  <2>2. ASSUME Begun(6)', NEW a \in keywords'
        PROVE  <<NameOf[a], Intent>> \in vec'[config'.model] \cap fts'
    <3>1. k = 6
      BY <1>3, <1>4, <1>7, <2>2
    <3>2. job.phase = "next"
      BY <2>2
    <3>3. Begun(6) /\ job.phase # "unintend" /\ ~ToList(a)
      BY <1>1, <3>1, <3>2 DEF Begun, ToList, Embedding
    <3> QED BY <2>2, <3>3 DEF Synced, SyncDone, IntentDone
  <2> QED BY <2>1, <2>2 DEF IntentDone
<1>15. SyncOrder(job'.plan, config'.model)
  BY <1>3, <1>4, <1>5
<1> QED BY <1>5, <1>10, <1>11, <1>12, <1>13, <1>14, <1>15 DEF Synced, SyncDone

\* What the stages before have done of the current one.
LEMMA EarlyDone ==
  ASSUME TypeInv, Synced, job.plan # <<>>
  PROVE  /\ Head(job.plan).do = "scan" /\ job.phase # "enter" => \A a \in Apps : a \in known \/ a \in job.todo
         /\ Head(job.plan).do \in {"fetch", "local"} => Apps \subseteq known
         /\ Head(job.plan).do = "fetch" /\ job.phase # "enter" => \A a \in Apps : \A p \in Guide(a) :
              p \in docs[a] \/ a \in job.todo \/ (job.phase = "pages" /\ <<a, p>> \in job.left)
         /\ Head(job.plan).do = "local" /\ job.phase # "enter" => \A a \in Apps : \A p \in HelpFiles(a) :
              p \in docs[a] \/ a \in job.todo \/ (job.phase = "pages" /\ <<a, p>> \in job.left)
<1>1. PICK k : k = Step(job.plan)
  OBVIOUS
<1>2. /\ k = 1 <=> Head(job.plan).do = "scan"
      /\ k = 2 <=> Head(job.plan).do = "fetch"
      /\ k = 3 <=> Head(job.plan).do = "local"
  BY <1>1, SyncedIs, RankIs
<1>3. k = 1 /\ job.phase # "enter" => Begun(1)
  BY <1>1 DEF Begun
<1>4. k \in {2, 3} => Begun(1) /\ ~In(job, "scan")
  BY <1>1, <1>2 DEF Begun, In
<1>5. k = 2 /\ job.phase # "enter" => Begun(2)
  BY <1>1 DEF Begun
<1>6. k = 3 /\ job.phase # "enter" => Begun(3)
  BY <1>1 DEF Begun
<1>7. Head(job.plan).do = "scan" /\ job.phase # "enter" => \A a \in Apps : a \in known \/ a \in job.todo
  BY <1>2, <1>3 DEF Synced, SyncDone, ScanDone
<1>8. Head(job.plan).do \in {"fetch", "local"} => Apps \subseteq known
  BY <1>2, <1>4 DEF Synced, SyncDone, ScanDone
<1>9. Head(job.plan).do = "fetch" /\ job.phase # "enter" => \A a \in Apps : \A p \in Guide(a) :
        p \in docs[a] \/ a \in job.todo \/ (job.phase = "pages" /\ <<a, p>> \in job.left)
  BY <1>2, <1>5 DEF Synced, SyncDone, FetchDone, InLoop
<1>10. Head(job.plan).do = "local" /\ job.phase # "enter" => \A a \in Apps : \A p \in HelpFiles(a) :
         p \in docs[a] \/ a \in job.todo \/ (job.phase = "pages" /\ <<a, p>> \in job.left)
  BY <1>2, <1>6 DEF Synced, SyncDone, LocalDone, InLoop
<1> QED BY <1>7, <1>8, <1>9, <1>10

\* What is not stored yet of these pages is pending.
LEMMA PendingOrStored ==
  ASSUME NEW a, NEW linked, NEW p \in linked
  PROVE  p \in docs[a] \/ <<a, p>> \in Pending(a, linked)
<1> QED BY DEF Pending, Of

\* The scan makes every application known; the keywords wait for the documents.
LEMMA ScanSync ==
  ASSUME TypeInv, Synced,
         EnterScan \/ EnterKeywords \/ \E a \in Apps : ScanApp(a) \/ Keyword(a)
  PROVE  Synced'
<1>1. job \in JobRecords /\ ~job.cancelled
  BY SyncedIs DEF Synced
<1>2. CASE EnterScan
  <2>1. /\ job.plan # <<>> /\ Head(job.plan).do = "scan" /\ UNCHANGED <<known, docs, config>>
        /\ job'.plan = job.plan /\ job'.phase = "next" /\ job'.todo = Apps /\ ~job'.cancelled
    BY <1>1, <1>2 DEF EnterScan, Doing, Loop, JobRecords, store
  <2> QED BY <2>1, EarlySync
<1>3. CASE EnterKeywords
  <2>1. /\ job.plan # <<>> /\ Head(job.plan).do = "keywords" /\ UNCHANGED <<known, docs, config>>
        /\ job'.plan = job.plan /\ job'.phase = "next" /\ ~job'.cancelled
    BY <1>1, <1>3 DEF EnterKeywords, Doing, Loop, JobRecords, store
  <2> QED BY <2>1, EarlySync
<1>4. CASE \E a \in Apps : ScanApp(a)
  <2>1. PICK a \in Apps : ScanApp(a)
    BY <1>4
  <2>2. /\ job.plan # <<>> /\ Head(job.plan).do = "scan" /\ UNCHANGED <<docs, config>>
        /\ known' = known \cup {a} /\ job.phase = "next"
        /\ job'.plan = job.plan /\ job'.phase = "next" /\ job'.todo = job.todo \ {a} /\ ~job'.cancelled
    BY <1>1, <2>1 DEF ScanApp, Doing, JobRecords
  <2>3. \A b \in Apps : b \in known' \/ b \in job'.todo
    BY <2>2, EarlyDone
  <2> QED BY <2>2, <2>3, EarlySync
<1>5. CASE \E a \in Apps : Keyword(a)
  <2>1. PICK a \in Apps : Keyword(a)
    BY <1>5
  <2>2. \E todo, clean : job' = [job EXCEPT !.todo = todo, !.clean = clean]
    BY <2>1 DEF Keyword
  <2>3. /\ job.plan # <<>> /\ Head(job.plan).do = "keywords" /\ UNCHANGED <<known, docs, config>>
        /\ job'.plan = job.plan /\ job'.phase = "next" /\ ~job'.cancelled
    BY <1>1, <2>1, <2>2 DEF Keyword, Doing, JobRecords
  <2> QED BY <2>3, EarlySync
<1> QED BY <1>2, <1>3, <1>4, <1>5

\* Every page of a guide whose table of contents is stored is fetched or left;
\* where it is not stored it is asked for.
LEMMA FetchSync ==
  ASSUME TypeInv, Synced, LinksInv, Calm, job'.clean,
         \/ EnterFetch \/ FetchPage \/ PagesDone
         \/ \E a \in Apps : FetchApp(a) \/ AskToc(a) \/ TocArrives(a)
  PROVE  Synced'
<1>1. job \in JobRecords /\ ~job.cancelled
  BY SyncedIs DEF Synced
<1>2. job.plan # <<>> /\ Head(job.plan).do = "fetch" /\ UNCHANGED <<known, config>>
  BY DEF EnterFetch, FetchPage, PagesDone, FetchApp, AskToc, TocArrives, Doing, store
<1>3. ASSUME job'.plan = job.plan, job'.phase \notin {"idle", "enter"}, ~job'.cancelled,
             \A a \in Apps : docs[a] \subseteq docs'[a],
             \A a \in Apps : \A p \in Guide(a) :
               p \in docs'[a] \/ a \in job'.todo \/ (job'.phase = "pages" /\ <<a, p>> \in job'.left)
      PROVE  Synced'
  BY <1>2, <1>3, EarlySync
<1>4. job.phase # "enter" => \A a \in Apps : \A p \in Guide(a) :
        p \in docs[a] \/ a \in job.todo \/ (job.phase = "pages" /\ <<a, p>> \in job.left)
  BY <1>2, EarlyDone
<1>5. CASE EnterFetch
  <2>1. /\ docs' = docs /\ job'.plan = job.plan /\ job'.phase = "next" /\ ~job'.cancelled
        /\ job'.todo = {a \in known : Guide(a) # {}}
    BY <1>1, <1>5 DEF EnterFetch, Loop, JobRecords, store
  <2>2. Apps \subseteq known
    BY <1>2, EarlyDone
  <2>3. \A a \in Apps : \A p \in Guide(a) : a \in job'.todo
    BY <2>1, <2>2
  <2> QED BY <1>3, <2>1, <2>3
<1>6. ASSUME NEW a \in Apps, NEW linked, Guide(a) \subseteq linked, docs' = docs, job.phase \in {"next", "toc"},
             job'.plan = job.plan, job'.phase = "pages", ~job'.cancelled, job'.todo = job.todo \ {a},
             job'.left = Pending(a, linked)
      PROVE  Synced'
  <2>1. ASSUME NEW b \in Apps, NEW p \in Guide(b)
        PROVE  p \in docs'[b] \/ b \in job'.todo \/ (job'.phase = "pages" /\ <<b, p>> \in job'.left)
    <3>1. CASE a = b
      <4>1. p \in docs[a] \/ <<a, p>> \in Pending(a, linked)
        BY <1>6, <2>1, <3>1, PendingOrStored
      <4> QED BY <1>6, <3>1, <4>1
    <3>2. CASE a # b
      BY <1>4, <1>6, <2>1, <3>2
    <3> QED BY <3>1, <3>2
  <2> QED BY <1>3, <1>6, <2>1
<1>7. CASE \E a \in Apps : FetchApp(a)
  <2>1. PICK a \in Apps : FetchApp(a)
    BY <1>7
  <2>2. /\ docs' = docs /\ job.phase = "next" /\ a \in toc
        /\ job' = [job EXCEPT !.phase = "pages", !.todo = job.todo \ {a},
                              !.left = Pending(a, links[a]), !.got = Pending(a, links[a])]
    BY <2>1 DEF FetchApp, Doing, store
  <2>3. job'.plan = job.plan /\ job'.phase = "pages" /\ ~job'.cancelled /\ job'.todo = job.todo \ {a}
        /\ job'.left = Pending(a, links[a])
    BY <1>1, <2>2 DEF JobRecords
  <2>4. Guide(a) \subseteq links[a]
    BY <2>2 DEF LinksInv
  <2> QED BY <1>6, <2>2, <2>3, <2>4
<1>8. CASE \E a \in Apps : AskToc(a)
  <2>1. PICK a \in Apps : AskToc(a)
    BY <1>8
  <2>2. docs' = docs /\ job.phase = "next" /\ \E left : job' = [job EXCEPT !.phase = "toc", !.left = left]
    BY <2>1 DEF AskToc, Doing, store
  <2>3. job'.plan = job.plan /\ job'.phase = "toc" /\ ~job'.cancelled /\ job'.todo = job.todo
    BY <1>1, <2>2 DEF JobRecords
  <2> QED BY <1>3, <1>4, <2>2, <2>3
<1>9. CASE \E a \in Apps : TocArrives(a)
  <2>1. PICK a \in Apps : TocArrives(a)
    BY <1>9
  <2>2. docs' = docs /\ job.phase = "toc"
    BY <2>1 DEF TocArrives, Doing
  <2>3. /\ links' = [links EXCEPT ![a] = @ \cup Guide(a)]
        /\ job' = [job EXCEPT !.phase = "pages", !.todo = @ \ {a},
                              !.left = Pending(a, links'[a]), !.got = Pending(a, links'[a])]
    BY <1>1, <2>1 DEF TocArrives, Calm
  <2>4. PICK linked : linked = links'[a]
    OBVIOUS
  <2>5. job' = [job EXCEPT !.phase = "pages", !.todo = job.todo \ {a},
                           !.left = Pending(a, linked), !.got = Pending(a, linked)]
    BY <2>3, <2>4
  <2>6. job'.plan = job.plan /\ job'.phase = "pages" /\ ~job'.cancelled /\ job'.todo = job.todo \ {a}
        /\ job'.left = Pending(a, linked)
    BY <1>1, <2>5 DEF JobRecords
  <2>7. Guide(a) \subseteq linked
    BY <2>3, <2>4 DEF TypeInv, StoreTypes
  <2> QED BY <1>6, <2>2, <2>6, <2>7
<1>10. CASE FetchPage
  <2>1. PICK t \in job.left, ok \in BOOLEAN :
          /\ docs' = IF ok THEN [docs EXCEPT ![t[1]] = @ \cup {t[2]}] ELSE docs
          /\ job' = [job EXCEPT !.left = @ \ {t}, !.clean = @ /\ ok]
    BY <1>10 DEF FetchPage
  <2>2. PICK clean : clean = (job.clean /\ ok)
    OBVIOUS
  <2>3. job' = [job EXCEPT !.left = job.left \ {t}, !.clean = clean]
    BY <2>1, <2>2
  <2>4. /\ job'.plan = job.plan /\ job'.phase = job.phase /\ ~job'.cancelled /\ job'.todo = job.todo
        /\ job'.left = job.left \ {t} /\ job'.clean = clean
    BY <1>1, <2>3 DEF JobRecords
  <2>5. ok /\ docs' = [docs EXCEPT ![t[1]] = @ \cup {t[2]}]
    BY <2>1, <2>2, <2>4
  <2>6. job.phase = "pages" /\ t[1] \in Apps /\ t \in Texts /\ docs \in [Apps -> SUBSET Pages]
    BY <1>10, JobIs DEF FetchPage, Doing, TypeInv, StoreTypes
  <2>7. \A b \in Apps : docs[b] \subseteq docs'[b]
    BY <2>5, <2>6
  <2>8. \A b, p : <<b, p>> = t /\ b \in Apps => p \in docs'[b]
    BY <2>5, <2>6
  <2>9. ASSUME NEW b \in Apps, NEW p \in Guide(b)
        PROVE  p \in docs'[b] \/ b \in job'.todo \/ (job'.phase = "pages" /\ <<b, p>> \in job'.left)
    BY <1>4, <2>4, <2>6, <2>7, <2>8, <2>9
  <2> QED BY <1>3, <2>4, <2>6, <2>7, <2>9
<1>11. CASE PagesDone
  <2>1. /\ job.phase = "pages" /\ job.left = {} /\ docs' = docs
        /\ job' = [job EXCEPT !.phase = "next", !.left = {}, !.got = {}]
    BY <1>1, <1>11 DEF PagesDone, Doing, store
  <2>2. job'.plan = job.plan /\ job'.phase = "next" /\ ~job'.cancelled /\ job'.todo = job.todo
    BY <1>1, <2>1 DEF JobRecords
  <2> QED BY <1>3, <1>4, <2>1, <2>2
<1> QED BY <1>5, <1>7, <1>8, <1>9, <1>10, <1>11

\* Every help file is stored, or is left to be read.
LEMMA LocalSync ==
  ASSUME TypeInv, Synced, job'.clean,
         \/ EnterLocal \/ ReadFile \/ FileStored \/ FilesDone
         \/ \E a \in Apps : LocalApp(a)
  PROVE  Synced'
<1>1. job \in JobRecords /\ ~job.cancelled
  BY SyncedIs DEF Synced
<1>2. job.plan # <<>> /\ Head(job.plan).do = "local" /\ UNCHANGED <<known, config>>
  BY DEF EnterLocal, ReadFile, FileStored, FilesDone, LocalApp, Doing, store
<1>3. ASSUME job'.plan = job.plan, job'.phase \notin {"idle", "enter"}, ~job'.cancelled,
             \A a \in Apps : docs[a] \subseteq docs'[a],
             \A a \in Apps : \A p \in HelpFiles(a) :
               p \in docs'[a] \/ a \in job'.todo \/ (job'.phase = "pages" /\ <<a, p>> \in job'.left)
      PROVE  Synced'
  BY <1>2, <1>3, EarlySync
<1>4. job.phase # "enter" => \A a \in Apps : \A p \in HelpFiles(a) :
        p \in docs[a] \/ a \in job.todo \/ (job.phase = "pages" /\ <<a, p>> \in job.left)
  BY <1>2, EarlyDone
<1>5. CASE EnterLocal
  <2>1. /\ docs' = docs /\ job'.plan = job.plan /\ job'.phase = "next" /\ ~job'.cancelled /\ job'.todo = known
    BY <1>1, <1>5 DEF EnterLocal, Loop, JobRecords, store
  <2>2. Apps \subseteq known
    BY <1>2, EarlyDone
  <2> QED BY <1>3, <2>1, <2>2
<1>6. CASE \E a \in Apps : LocalApp(a)
  <2>1. PICK a \in Apps : LocalApp(a)
    BY <1>6
  <2>2. /\ docs' = docs /\ job.phase = "next"
        /\ job' = [job EXCEPT !.phase = "pages", !.todo = job.todo \ {a}, !.left = Pending(a, HelpFiles(a))]
    BY <2>1 DEF LocalApp, Doing, store
  <2>3. job'.plan = job.plan /\ job'.phase = "pages" /\ ~job'.cancelled /\ job'.todo = job.todo \ {a}
        /\ job'.left = Pending(a, HelpFiles(a))
    BY <1>1, <2>2 DEF JobRecords
  <2>4. ASSUME NEW b \in Apps, NEW p \in HelpFiles(b)
        PROVE  p \in docs'[b] \/ b \in job'.todo \/ (job'.phase = "pages" /\ <<b, p>> \in job'.left)
    <3>1. CASE a = b
      <4>1. p \in docs[a] \/ <<a, p>> \in Pending(a, HelpFiles(a))
        BY <2>4, <3>1, PendingOrStored
      <4> QED BY <2>2, <2>3, <3>1, <4>1
    <3>2. CASE a # b
      BY <1>4, <2>2, <2>3, <2>4, <3>2
    <3> QED BY <3>1, <3>2
  <2> QED BY <1>3, <2>2, <2>3, <2>4
<1>7. CASE ReadFile
  <2>1. PICK t \in job.left :
          \/ docs' = [docs EXCEPT ![t[1]] = @ \cup {t[2]}] /\ job' = [job EXCEPT !.left = @ \ {t}, !.got = {t}]
          \/ job' = [job EXCEPT !.left = @ \ {t}, !.clean = FALSE]
    BY <1>7 DEF ReadFile
  <2>2. job' # [job EXCEPT !.left = @ \ {t}, !.clean = FALSE]
    <3>1. [job EXCEPT !.left = @ \ {t}, !.clean = FALSE].clean = FALSE
      BY <1>1 DEF JobRecords
    <3> QED BY <3>1
  <2>3. docs' = [docs EXCEPT ![t[1]] = @ \cup {t[2]}] /\ job' = [job EXCEPT !.left = job.left \ {t}, !.got = {t}]
    BY <2>1, <2>2
  <2>4. /\ job'.plan = job.plan /\ job'.phase = job.phase /\ ~job'.cancelled /\ job'.todo = job.todo
        /\ job'.left = job.left \ {t}
    BY <1>1, <2>3 DEF JobRecords
  <2>6. job.phase = "pages" /\ t[1] \in Apps /\ t \in Texts /\ docs \in [Apps -> SUBSET Pages]
    BY <1>7, JobIs DEF ReadFile, Doing, TypeInv, StoreTypes
  <2>7. \A b \in Apps : docs[b] \subseteq docs'[b]
    BY <2>3, <2>6
  <2>8. \A b, p : <<b, p>> = t /\ b \in Apps => p \in docs'[b]
    BY <2>3, <2>6
  <2>9. ASSUME NEW b \in Apps, NEW p \in HelpFiles(b)
        PROVE  p \in docs'[b] \/ b \in job'.todo \/ (job'.phase = "pages" /\ <<b, p>> \in job'.left)
    BY <1>4, <2>4, <2>6, <2>7, <2>8, <2>9
  <2> QED BY <1>3, <2>4, <2>6, <2>7, <2>9
<1>8. CASE FileStored
  <2>1. docs' = docs /\ job.phase = "pages" /\ job' = [job EXCEPT !.got = {}]
    BY <1>8 DEF FileStored, Doing, store
  <2>2. job'.plan = job.plan /\ job'.phase = "pages" /\ ~job'.cancelled /\ job'.todo = job.todo
        /\ job'.left = job.left
    BY <1>1, <2>1 DEF JobRecords
  <2> QED BY <1>3, <1>4, <2>1, <2>2
<1>9. CASE FilesDone
  <2>1. /\ job.phase = "pages" /\ job.left = {} /\ docs' = docs
        /\ job' = [job EXCEPT !.phase = "next", !.left = {}]
    BY <1>1, <1>9 DEF FilesDone, Doing, store
  <2>2. job'.plan = job.plan /\ job'.phase = "next" /\ ~job'.cancelled /\ job'.todo = job.todo
    BY <1>1, <2>1 DEF JobRecords
  <2> QED BY <1>3, <1>4, <2>1, <2>2
<1> QED BY <1>5, <1>6, <1>7, <1>8, <1>9

-----------------------------------------------------------------------------
(* Vectors and keywords                                                    *)

\* The steps of runVectorize and runVectorizeIntents while nothing fails.
LateStep ==
  \/ EnterVectorize \/ \E a \in Apps : VectorizeApp(a)
  \/ Embed \/ SaveNothing \/ CreateTable \/ DeleteRows \/ AddRows \/ Unlist \/ List \/ SetFlag
  \/ (EnterIntents /\ keywords # {}) \/ UnlistIntents

\* Where these steps run.
LEMMA LateAt ==
  ASSUME TypeInv, Synced, LateStep
  PROVE  /\ job.plan # <<>> /\ Head(job.plan).do \in {"vectorize", "intents"} /\ Step(job.plan) \in {5, 6}
         /\ Step(job.plan) = 6 <=> (Head(job.plan).do = "intents" /\ Head(job.plan).model = NoModel)
         /\ UNCHANGED <<config, known, docs, keywords>> /\ ~job.cancelled
<1>1. job.phase \in {"embed", "save", "add", "unlist", "list", "flag"} =>
        job.plan # <<>> /\ Head(job.plan).do \in {"vectorize", "intents"}
  BY PhaseStage
<1>2. job.plan # <<>> /\ Head(job.plan).do \in {"vectorize", "intents"}
  BY <1>1 DEF LateStep, EnterVectorize, VectorizeApp, Embed, SaveNothing, CreateTable, DeleteRows, AddRows, Unlist,
     List, SetFlag, EnterIntents, UnlistIntents, Doing
<1>3. UNCHANGED <<config, known, docs, keywords>>
  BY DEF LateStep, EnterVectorize, VectorizeApp, Embed, SaveNothing, CreateTable, DeleteRows, AddRows, Unlist,
     List, SetFlag, EnterIntents, UnlistIntents, store
<1>4. PICK s : s = Head(job.plan)
  OBVIOUS
<1>5. Rank(s) = Step(job.plan) /\ Rank(s) \in {5, 6} /\ (Rank(s) = 6 <=> (s.do = "intents" /\ s.model = NoModel))
  BY <1>2, <1>4, SyncedIs, RankIs
<1> QED BY <1>2, <1>3, <1>4, <1>5 DEF Synced

\* A text is embedded.
LEMMA EmbedMoves ==
  ASSUME TypeInv, "llm" \notin Env, Embed
  PROVE  /\ job.phase = "embed" /\ job'.plan = job.plan /\ job'.phase \in {"embed", "save"}
         /\ job'.todo = job.todo /\ job'.cancelled = job.cancelled
         /\ job'.left \cup job'.got = job.left \cup job.got
         /\ job'.phase = "save" => job'.left = {}
         /\ UNCHANGED <<flag, vec, fts>>
<1>1. job \in JobRecords
  BY JobIs
<1>2. PICK t \in job.left :
        job' = [job EXCEPT !.left = @ \ {t}, !.clean = @ /\ TRUE, !.got = @ \cup {t},
                  !.by = @ \cup {Embedder}, !.phase = IF job.left = {t} THEN "save" ELSE "embed"]
  BY DEF Embed
<1>3. PICK left, got, by, clean, phase :
        /\ left = job.left \ {t} /\ got = job.got \cup {t} /\ by = job.by \cup {Embedder}
        /\ clean = (job.clean /\ TRUE) /\ phase = IF job.left = {t} THEN "save" ELSE "embed"
  OBVIOUS
<1>4. job' = [job EXCEPT !.left = left, !.clean = clean, !.got = got, !.by = by, !.phase = phase]
  BY <1>2, <1>3
<1>5. /\ job'.plan = job.plan /\ job'.phase = phase /\ job'.todo = job.todo /\ job'.cancelled = job.cancelled
      /\ job'.left = left /\ job'.got = got
  BY <1>1, <1>4 DEF JobRecords
<1>6. left \cup got = job.left \cup job.got /\ (phase = "save" => left = {}) /\ phase \in {"embed", "save"}
  BY <1>2, <1>3
<1>7. job.phase = "embed" /\ UNCHANGED <<flag, vec, fts>>
  BY DEF Embed, index
<1> QED BY <1>5, <1>6, <1>7

\* A step to another phase, with the same in hand.
LEMMA PhaseMoves ==
  ASSUME TypeInv, NEW phase, job' = [job EXCEPT !.phase = phase]
  PROVE  /\ job'.plan = job.plan /\ job'.phase = phase /\ job'.left = job.left /\ job'.got = job.got
         /\ job'.todo = job.todo /\ job'.cancelled = job.cancelled
<1> QED BY JobIs DEF JobRecords

\* The rows are saved: another phase, with the same in hand, unless it throws.
LEMMA SaveMoves ==
  ASSUME TypeInv, job'.clean, CreateTable \/ DeleteRows \/ AddRows \/ Unlist \/ (List /\ Replacing)
  PROVE  /\ job.phase \in Embedding /\ job'.phase \in Embedding /\ job'.plan = job.plan
         /\ job'.left = job.left /\ job'.got = job.got /\ job'.todo = job.todo /\ job'.cancelled = job.cancelled
         /\ flag' = flag
<1>1. ~Fail
  BY DEF Fail, Idle
<1>2. \E phase \in {"add", "unlist", "list", "flag"} : job' = [job EXCEPT !.phase = phase]
  BY <1>1 DEF CreateTable, DeleteRows, AddRows, Unlist, List
<1>3. job.phase \in Embedding /\ flag' = flag
  BY DEF CreateTable, DeleteRows, AddRows, Unlist, List, Embedding
<1> QED BY <1>2, <1>3, PhaseMoves DEF Embedding

\* The application done with.
LEMMA NextMoves ==
  ASSUME TypeInv, NextApp
  PROVE  /\ job'.plan = job.plan /\ job'.phase = "next" /\ job'.left = {} /\ job'.got = {}
         /\ job'.todo = job.todo /\ job'.cancelled = job.cancelled
<1> QED BY JobIs DEF NextApp, JobRecords

\* Each of them stays in its stage.
LEMMA LateMoves ==
  ASSUME TypeInv, Synced, "llm" \notin Env, job'.clean, LateStep
  PROVE  job'.plan = job.plan /\ job'.phase \notin {"idle", "enter"} /\ ~job'.cancelled
<1>1. job \in JobRecords /\ ~job.cancelled
  BY JobIs, LateAt
<1>2. CASE Embed
  BY <1>1, <1>2, EmbedMoves
<1>3. CASE CreateTable \/ DeleteRows \/ AddRows \/ Unlist \/ (List /\ Replacing)
  BY <1>1, <1>3, SaveMoves DEF Embedding
<1>4. CASE SaveNothing \/ SetFlag \/ (List /\ ~Replacing)
  BY <1>1, <1>4, NextMoves DEF SaveNothing, SetFlag, List
<1>5. CASE EnterIntents /\ keywords # {}
  BY <1>1, <1>5, PhaseMoves DEF EnterIntents
<1>6. CASE EnterVectorize
  <2>1. \E col, todo : job' = [job EXCEPT !.phase = "next", !.col = col, !.todo = todo]
    BY <1>6 DEF EnterVectorize
  <2> QED BY <1>1, <2>1 DEF JobRecords
<1>7. CASE UnlistIntents \/ \E a \in Apps : VectorizeApp(a)
  <2>1. \E todo, left : job' = [job EXCEPT !.phase = "embed", !.todo = todo, !.left = left]
    <3>1. CASE UnlistIntents
      <4>1. job' = [job EXCEPT !.phase = "embed", !.left = keywords \X {Intent}]
        BY <3>1 DEF UnlistIntents
      <4>2. job' = [job EXCEPT !.phase = "embed", !.todo = job.todo, !.left = keywords \X {Intent}]
        BY <1>1, <4>1 DEF JobRecords
      <4> QED BY <4>2
    <3>2. CASE \E a \in Apps : VectorizeApp(a)
      BY <3>2 DEF VectorizeApp
    <3> QED BY <1>7, <3>1, <3>2
  <2> QED BY <1>1, <2>1 DEF JobRecords
<1> QED BY <1>2, <1>3, <1>4, <1>5, <1>6, <1>7 DEF LateStep

\* While another model or the keywords are at work, the flags of the model of
\* the process stay.
LEMMA VectorStays ==
  ASSUME TypeInv, Synced, job.plan # <<>>, ~Own(Head(job.plan), config.model),
         job'.plan = job.plan, UNCHANGED config, \A m \in Models : m = config.model => flag[m] \subseteq flag'[m]
  PROVE  VectorDone'
<1>1. PICK p, m : p = job.plan /\ m = config.model
  OBVIOUS
<1>2. m \in Models /\ p \in Seq(Stages) /\ 1 \in DOMAIN p /\ Head(p) = p[1] /\ job'.plan = p /\ config'.model = m
  BY <1>1, SyncedIs, TailIs
<1>3. ASSUME ~OwnAhead'
      PROVE  \A a \in Apps : a \in flag'[m]
  <2>1. \A i \in DOMAIN p : i # 1 => ~Own(p[i], m)
    BY <1>2, <1>3 DEF OwnAhead
  <2>2. ~OwnAhead
    BY <1>1, <1>2, <2>1 DEF OwnAhead
  <2>3. ASSUME NEW a \in Apps
        PROVE  ~ToFlag(a)
    BY <1>1 DEF ToFlag, InOwn, In, Own
  <2> QED BY <1>1, <1>2, <2>2, <2>3 DEF Synced, SyncDone, VectorDone
<1> QED BY <1>2, <1>3 DEF VectorDone

\* A child at work for another model leaves the flags of this one.
LEMMA ChildSync ==
  ASSUME TypeInv, ConfigInv, WorkInv, Synced, "llm" \notin Env, job'.clean, LateStep,
         Head(job.plan).model # NoModel
  PROVE  Synced'
<1>1. PICK m : m = config.model
  OBVIOUS
<1>2. /\ job.plan # <<>> /\ Head(job.plan).do \in {"vectorize", "intents"} /\ Step(job.plan) = 5
      /\ UNCHANGED <<config, known, docs, keywords>>
  BY LateAt
<1>3. job'.plan = job.plan /\ job'.phase \notin {"idle", "enter"} /\ ~job'.cancelled
  BY LateMoves
<1>4. job.phase # "idle" /\ Head(job.plan).model # m
  <2>1. Foreign(Head(job.plan), m)
    BY <1>1, <1>2, SyncedIs
  <2> QED BY <1>2, <2>1 DEF Foreign, Synced
<1>5. Embedder # m /\ Named # m
  BY <1>2, <1>4, StageModel
<1>6. flag \in [Models -> SUBSET known] /\ m \in Models
  BY <1>1, SyncedIs DEF TypeInv, IndexTypes
<1>7. flag[m] \subseteq flag'[m]
  <2>1. CASE EnterVectorize
    <3>1. flag' = flag \/ flag' = [flag EXCEPT ![Named] = {}]
      BY <2>1 DEF EnterVectorize
    <3> QED BY <1>5, <1>6, <3>1
  <2>2. CASE SetFlag
    <3>1. flag' = [flag EXCEPT ![job.col] = @ \cup {t[1] : t \in job.got}]
      BY <2>2 DEF SetFlag
    <3> QED BY <1>6, <3>1
  <2>3. CASE ~EnterVectorize /\ ~SetFlag
    <3>1. flag' = flag
      BY <2>3 DEF LateStep, VectorizeApp, Embed, SaveNothing, CreateTable, DeleteRows, AddRows, Unlist, List,
         EnterIntents, UnlistIntents, index
    <3> QED BY <3>1
  <2> QED BY <2>1, <2>2, <2>3
<1>8. ~Own(Head(job.plan), m)
  BY <1>2, <1>4 DEF Own
<1>9. VectorDone'
  BY <1>1, <1>2, <1>3, <1>7, <1>8, VectorStays
<1>10. IntentDone'
  <2>1. Step(job'.plan) = 5
    BY <1>2, <1>3
  <2> QED BY <2>1 DEF IntentDone, Begun
<1> QED BY <1>2, <1>3, <1>9, <1>10, LateSync

\* In the process itself every application is flagged, or still to be taken.
LEMMA OwnSync ==
  ASSUME TypeInv, ConfigInv, WorkInv, SettledInv, Synced, "llm" \notin Env, job'.clean, LateStep,
         Head(job.plan).do = "vectorize", Head(job.plan).model = NoModel
  PROVE  Synced'
<1>1. PICK m : m = config.model
  OBVIOUS
<1>2. /\ job.plan # <<>> /\ Step(job.plan) = 5 /\ UNCHANGED <<config, known, docs, keywords>>
  BY LateAt
<1>3. job'.plan = job.plan /\ job'.phase \notin {"idle", "enter"} /\ ~job'.cancelled
  BY LateMoves
<1>4. Embedder = m /\ Named = m
  BY <1>1, <1>2, StageModel DEF Synced
<1>5. job \in JobRecords /\ flag \in [Models -> SUBSET known] /\ m \in Models
  BY <1>1, SyncedIs DEF TypeInv, IndexTypes
<1>6. job.phase # "enter" /\ ~OwnAhead' => \A a \in Apps :
        a \in flag[m] \/ a \in job.todo \/ (job.phase \in Embedding /\ <<a, Meta>> \in job.left \cup job.got)
  <2> SUFFICES ASSUME job.phase # "enter", ~OwnAhead', NEW a \in Apps
               PROVE  \/ a \in flag[m] \/ a \in job.todo
                      \/ job.phase \in Embedding /\ <<a, Meta>> \in job.left \cup job.got
    OBVIOUS
  <2>1. ~OwnAhead
    BY <1>2, <1>3 DEF OwnAhead
  <2>2. a \in flag[m] \/ ToFlag(a)
    BY <1>1, <2>1 DEF Synced, SyncDone, VectorDone
  <2> QED BY <2>2 DEF ToFlag
<1>7. ASSUME ~OwnAhead' => \A a \in Apps :
               \/ a \in flag'[m] \/ a \in job'.todo
               \/ job'.phase \in Embedding /\ <<a, Meta>> \in job'.left \cup job'.got
      PROVE  Synced'
  <2>1. In(job', "vectorize") /\ Head(job'.plan).model = NoModel
    BY <1>2, <1>3 DEF In
  <2>2. \A a \in Apps : ToFlag(a)' <=>
          a \in job'.todo \/ (job'.phase \in Embedding /\ <<a, Meta>> \in job'.left \cup job'.got)
    BY <2>1 DEF ToFlag, InOwn
  <2>3. VectorDone'
    BY <1>1, <1>2, <1>7, <2>2 DEF VectorDone
  <2>4. IntentDone'
    <3>1. Step(job'.plan) = 5
      BY <1>2, <1>3
    <3> QED BY <3>1 DEF IntentDone, Begun
  <2> QED BY <1>2, <1>3, <2>3, <2>4, LateSync
<1>8. CASE EnterVectorize
  <2>1. PICK todo : todo = known \ flag'[Named]
    OBVIOUS
  <2>2. job' = [job EXCEPT !.phase = "next", !.col = Named, !.todo = todo]
    BY <1>8, <2>1 DEF EnterVectorize
  <2>3. job'.todo = known \ flag'[m]
    BY <1>4, <1>5, <2>1, <2>2 DEF JobRecords
  <2>4. Apps \subseteq known
    <3>1. Begun(1) /\ ~In(job, "scan")
      BY <1>2 DEF Begun, In
    <3> QED BY <3>1 DEF Synced, SyncDone, ScanDone
  <2> QED BY <1>7, <2>3, <2>4
<1>9. CASE \E a \in Apps : VectorizeApp(a)
  <2>1. PICK a \in Apps : VectorizeApp(a)
    BY <1>9
  <2>2. PICK left : left = Of(a, docs[a] \cup {Meta} \cup IF a \in keywords THEN {Intent} ELSE {})
    OBVIOUS
  <2>3. /\ job.phase = "next" /\ flag' = flag
        /\ job' = [job EXCEPT !.phase = "embed", !.todo = job.todo \ {a}, !.left = left]
    BY <2>1, <2>2 DEF VectorizeApp, Doing, index
  <2>4. job'.phase = "embed" /\ job'.todo = job.todo \ {a} /\ job'.left = left
    BY <1>5, <2>3 DEF JobRecords
  <2>5. <<a, Meta>> \in left
    BY <2>2 DEF Of
  <2>6. \A b \in Apps : b # a => b \in job.todo <=> b \in job'.todo
    BY <2>4
  <2> QED BY <1>6, <1>7, <2>3, <2>4, <2>5, <2>6 DEF Embedding
<1>10. CASE Embed
  <2>1. job.phase = "embed" /\ job'.phase \in {"embed", "save"} /\ job'.todo = job.todo /\ flag' = flag
        /\ job'.left \cup job'.got = job.left \cup job.got
    BY <1>10, EmbedMoves
  <2> QED BY <1>6, <1>7, <2>1 DEF Embedding
<1>11. CASE CreateTable \/ DeleteRows \/ AddRows \/ Unlist \/ (List /\ Replacing)
  <2>1. job.phase \in Embedding /\ job'.phase \in Embedding /\ job'.todo = job.todo /\ flag' = flag
        /\ job'.left = job.left /\ job'.got = job.got
    BY <1>11, SaveMoves
  <2> QED BY <1>6, <1>7, <2>1 DEF Embedding
<1>12. ~(List /\ ~Replacing)
  BY DEF Replacing
<1>13. job.phase \in Embedding =>
         \E a \in Apps : OneApp(job, a, docs[a] \cup {Meta}, flag[m])
  BY <1>2, <1>4 DEF SettledInv, TodoInv, In, Embedding
<1>14. CASE SaveNothing
  <2>1. job.phase = "save" /\ job.got = {} /\ NextApp /\ flag' = flag
    BY <1>14 DEF SaveNothing, index
  <2>2. job.left = {}
    BY <1>13, <2>1 DEF OneApp, Embedding
  <2>3. job'.todo = job.todo
    BY <2>1, NextMoves
  <2> QED BY <1>6, <1>7, <2>1, <2>2, <2>3
<1>15. CASE SetFlag
  <2>1. job.phase = "flag" /\ NextApp
    BY <1>15 DEF SetFlag
  <2>2. job.left = {}
    BY <1>13, <2>1 DEF OneApp, Embedding
  <2>3. job'.todo = job.todo
    BY <2>1, NextMoves
  <2>4. job.col = m
    BY <1>2, <1>4, <2>1 DEF WorkInv, WorkSound, In
  <2>5. flag' = [flag EXCEPT ![m] = @ \cup {t[1] : t \in job.got}]
    BY <1>15, <2>4 DEF SetFlag
  <2>6. \A a : a \in flag[m] \/ <<a, Meta>> \in job.got => a \in flag'[m]
    <3>1. flag'[m] = flag[m] \cup {t[1] : t \in job.got}
      BY <1>5, <2>5
    <3>2. ASSUME NEW a, <<a, Meta>> \in job.got
          PROVE  a \in {t[1] : t \in job.got}
      <4>1. PICK t \in job.got : t = <<a, Meta>>
        BY <3>2
      <4>2. t[1] = a
        BY <4>1
      <4> QED BY <4>1, <4>2
    <3> QED BY <3>1, <3>2
  <2> QED BY <1>6, <1>7, <2>1, <2>2, <2>3, <2>6
<1>16. ~EnterIntents /\ ~UnlistIntents
  BY DEF EnterIntents, UnlistIntents, Doing
<1> QED BY <1>8, <1>9, <1>10, <1>11, <1>12, <1>14, <1>15, <1>16 DEF LateStep

\* The keywords of every application come into both indexes.
LEMMA IntentSync ==
  ASSUME TypeInv, ConfigInv, WorkInv, Synced, "llm" \notin Env, job'.clean, LateStep,
         Head(job.plan).do = "intents", Head(job.plan).model = NoModel
  PROVE  Synced'
<1>1. PICK m : m = config.model
  OBVIOUS
<1>2. /\ job.plan # <<>> /\ Step(job.plan) = 6 /\ UNCHANGED <<config, known, docs, keywords>>
  BY LateAt
<1>3. job'.plan = job.plan /\ job'.phase \notin {"idle", "enter"} /\ ~job'.cancelled
  BY LateMoves
<1>4. Embedder = m /\ Link.to = m
  BY <1>1, <1>2, StageModel, LinksAre DEF Synced
<1>5. job \in JobRecords /\ m \in Models /\ vec \in [Models -> SUBSET AllRows]
  BY <1>1, SyncedIs DEF TypeInv, IndexTypes
<1>6. flag' = flag
  <2>1. ~EnterVectorize /\ ~SetFlag
    BY JobIs DEF EnterVectorize, SetFlag, Doing, StagesWith
  <2> QED BY <2>1 DEF LateStep, VectorizeApp, Embed, SaveNothing, CreateTable, DeleteRows, AddRows, Unlist, List,
       EnterIntents, UnlistIntents, index
<1>7. VectorDone'
  BY <1>2, <1>3, <1>6, VectorStays DEF Own
<1>8. \A a \in keywords : job.phase \notin {"enter", "unintend"} =>
        \/ <<NameOf[a], Intent>> \in vec[m] \cap fts
        \/ job.phase \in Embedding /\ <<a, Intent>> \in job.left \cup job.got
  BY <1>1, <1>2 DEF Synced, SyncDone, IntentDone, Begun, ToList
<1>9. /\ job.phase \in Saving \cup {"save"} => job.left = {}
      /\ job.phase \in {"unlist", "list"} => Rows \subseteq vec[m]
  BY <1>1, <1>2 DEF Synced, SyncDone, IntentDone
<1>10. ASSUME job'.phase # "unintend" => \A a \in keywords :
                \/ <<NameOf[a], Intent>> \in vec'[m] \cap fts'
                \/ job'.phase \in Embedding /\ <<a, Intent>> \in job'.left \cup job'.got,
              job'.phase \in Saving \cup {"save"} => job'.left = {},
              job'.phase \in {"unlist", "list"} => Rows' \subseteq vec'[m]
       PROVE  Synced'
  <2>1. Step(job'.plan) = 6 /\ keywords' = keywords /\ config'.model = m
    BY <1>1, <1>2, <1>3
  <2>2. \A a : ToList(a)' <=> job'.phase \in Embedding /\ <<a, Intent>> \in job'.left \cup job'.got
    BY DEF ToList
  <2>3. IntentDone'
    BY <1>10, <2>1, <2>2 DEF IntentDone
  <2> QED BY <1>2, <1>3, <1>7, <2>3, LateSync
<1>11. CASE EnterIntents /\ keywords # {}
  <2>1. job'.phase = "unintend"
    <3>1. job' = [job EXCEPT !.phase = "unintend"]
      BY <1>11 DEF EnterIntents, Synced
    <3> QED BY <3>1, PhaseMoves
  <2> QED BY <1>10, <2>1 DEF Saving
<1>12. CASE UnlistIntents
  <2>1. job'.phase = "embed" /\ job'.left = keywords \X {Intent}
    BY <1>5, <1>12 DEF UnlistIntents, JobRecords
  <2>2. \A a \in keywords : <<a, Intent>> \in job'.left
    BY <2>1
  <2> QED BY <1>10, <2>1, <2>2 DEF Saving, Embedding
<1>13. CASE Embed
  <2>1. /\ job.phase = "embed" /\ job'.phase \in {"embed", "save"} /\ (job'.phase = "save" => job'.left = {})
        /\ job'.left \cup job'.got = job.left \cup job.got /\ UNCHANGED <<vec, fts>>
    BY <1>13, EmbedMoves
  <2> QED BY <1>8, <1>10, <2>1 DEF Saving, Embedding
<1>14. CASE SaveNothing
  <2>1. job.phase = "save" /\ job.got = {} /\ NextApp /\ UNCHANGED <<vec, fts>>
    BY <1>14 DEF SaveNothing, index
  <2>2. job'.phase = "next"
    BY <2>1, NextMoves
  <2> QED BY <1>8, <1>9, <1>10, <2>1, <2>2 DEF Saving, Embedding
<1>15. ~Fail
  BY DEF Fail, Idle
<1>16. ASSUME CreateTable \/ DeleteRows \/ AddRows \/ Unlist
       PROVE  /\ job.phase \in {"save", "add", "unlist"} /\ job'.phase \in {"add", "unlist", "list"}
              /\ job'.left = {} /\ job'.got = job.got /\ job.left = {} /\ Rows' = Rows
  <2>1. \E phase \in {"add", "unlist", "list"} : job' = [job EXCEPT !.phase = phase]
    BY <1>15, <1>16 DEF CreateTable, DeleteRows, AddRows, Unlist
  <2>2. job.phase \in {"save", "add", "unlist"}
    BY <1>16 DEF CreateTable, DeleteRows, AddRows, Unlist
  <2>3. job.left = {}
    BY <1>9, <2>2 DEF Saving
  <2>4. job'.phase \in {"add", "unlist", "list"} /\ job'.left = job.left /\ job'.got = job.got
    BY <2>1, PhaseMoves
  <2> QED BY <2>2, <2>3, <2>4, SameRows
<1>17. ASSUME CreateTable \/ DeleteRows \/ AddRows \/ Unlist,
              vec[m] \subseteq vec'[m], fts \subseteq fts',
              job'.phase \in {"unlist", "list"} => Rows \subseteq vec'[m]
       PROVE  Synced'
  <2>1. \A a \in keywords :
          \/ <<NameOf[a], Intent>> \in vec'[m] \cap fts'
          \/ job'.phase \in Embedding /\ <<a, Intent>> \in job'.left \cup job'.got
    BY <1>8, <1>16, <1>17 DEF Embedding
  <2> QED BY <1>10, <1>16, <1>17, <2>1
<1>18. CASE CreateTable
  <2>1. Link.to \notin tables /\ vec' = [vec EXCEPT ![Link.to] = Rows] /\ fts' = fts
    BY <1>15, <1>18 DEF CreateTable
  <2>2. vec[m] = {}
    BY <1>4, <1>5, <2>1 DEF WorkInv, ConnInv
  <2>3. vec'[m] = Rows
    BY <1>4, <1>5, <2>1
  <2> QED BY <1>17, <1>18, <2>1, <2>2, <2>3
<1>19. CASE DeleteRows
  <2>1. PICK x : x = Link.table
    OBVIOUS
  <2>2. vec' = [vec EXCEPT ![x] = Others(@)] /\ fts' = fts /\ job' = [job EXCEPT !.phase = "add"]
    BY <1>19, <2>1 DEF DeleteRows
  <2>3. \A rows : Others(rows) = rows
    BY DEF Others, Replacing
  <2>4. vec' = [vec EXCEPT ![x] = vec[x]]
    BY <2>2, <2>3
  <2>5. vec'[m] = vec[m]
    BY <1>5, <2>4
  <2>6. job'.phase = "add"
    BY <2>2, PhaseMoves
  <2> QED BY <1>17, <1>19, <2>2, <2>5, <2>6
<1>20. CASE AddRows
  <2>1. vec' = [vec EXCEPT ![Handle] = @ \cup Rows] /\ fts' = fts
    BY <1>15, <1>20 DEF AddRows
  <2>2. Handle = m
    BY <1>4, <1>20 DEF AddRows, WorkInv, RoomInv
  <2>3. vec'[m] = vec[m] \cup Rows
    BY <1>5, <2>1, <2>2
  <2> QED BY <1>17, <1>20, <2>1, <2>3
<1>21. CASE Unlist
  <2>1. vec' = vec /\ fts' = fts /\ job.phase = "unlist"
    BY <1>21 DEF Unlist, Others, Replacing
  <2> QED BY <1>9, <1>17, <1>21, <2>1
<1>22. CASE List
  <2>1. fts' = fts \cup Rows /\ NextApp /\ vec' = vec /\ job.phase = "list"
    BY <1>22 DEF List, Replacing
  <2>2. job'.phase = "next"
    BY <2>1, NextMoves
  <2>3. job.left = {} /\ Rows \subseteq vec[m]
    BY <1>9, <2>1 DEF Saving
  <2>4. ASSUME NEW a \in keywords
        PROVE  <<NameOf[a], Intent>> \in vec'[m] \cap fts'
    <3>1. CASE <<NameOf[a], Intent>> \in vec[m] \cap fts
      BY <2>1, <3>1
    <3>2. CASE <<a, Intent>> \in job.got
      <4>1. PICK t \in job.got : t = <<a, Intent>>
        BY <3>2
      <4>2. <<NameOf[a], Intent>> \in Rows
        BY <4>1 DEF Rows
      <4> QED BY <2>1, <2>3, <4>2
    <3> QED BY <1>8, <2>1, <2>3, <2>4, <3>1, <3>2
  <2> QED BY <1>10, <2>2, <2>4 DEF Saving
<1>23. ~EnterVectorize /\ ~SetFlag /\ ~\E a \in Apps : VectorizeApp(a)
  BY JobIs DEF EnterVectorize, SetFlag, VectorizeApp, Doing, StagesWith
<1> QED BY <1>11, <1>12, <1>13, <1>14, <1>18, <1>19, <1>20, <1>21, <1>22, <1>23 DEF LateStep

-----------------------------------------------------------------------------
(* A full sync                                                             *)

\* What was not clean does not become so.
LEMMA CleanWas ==
  ASSUME TypeInv, PipeStep, job'.clean
  PROVE  job.clean
<1>1. job \in JobRecords /\ GoodPlan(job.plan) /\ job.plan # <<>>
  BY JobIs, PipeSteps
<1>2. job' = Then(job) => job.clean
  BY <1>1, ThenSound
<1>3. ~Fail
  BY DEF Fail, Idle
<1>4. CASE \/ EnterScan \/ EnterFetch \/ EnterLocal \/ EnterKeywords \/ EnterVectorize \/ UnlistIntents
           \/ PagesDone \/ FileStored \/ FilesDone
  BY <1>1, <1>4 DEF EnterScan, EnterFetch, EnterLocal, EnterKeywords, EnterVectorize, UnlistIntents, Loop,
     PagesDone, FileStored, FilesDone, JobRecords
<1>5. ASSUME NEW phase, job' = [job EXCEPT !.phase = phase]
      PROVE  job.clean
  BY <1>1, <1>5 DEF JobRecords
<1>6. CASE CreateTable \/ DeleteRows \/ AddRows \/ Unlist \/ (List /\ Replacing) \/ EnterIntents
  <2>1. job' = Then(job) \/ \E phase : job' = [job EXCEPT !.phase = phase]
    BY <1>3, <1>6 DEF CreateTable, DeleteRows, AddRows, Unlist, List, EnterIntents
  <2> QED BY <1>2, <1>5, <2>1
<1>7. CASE SaveNothing \/ SetFlag \/ (List /\ ~Replacing)
  <2>1. job' = [job EXCEPT !.phase = "next", !.left = {}, !.got = {}, !.by = {}]
    BY <1>7 DEF SaveNothing, SetFlag, List, NextApp
  <2> QED BY <1>1, <2>1 DEF JobRecords
<1>8. CASE Abandon
  <2>1. job' = Then(job) \/ job' = [job EXCEPT !.phase = "save", !.left = {}]
    BY <1>8 DEF Abandon
  <2>2. job' = [job EXCEPT !.phase = "save", !.left = {}] => job.clean
    BY <1>1 DEF JobRecords
  <2> QED BY <1>2, <2>1, <2>2
<1>9. CASE Embed
  <2>1. PICK t, ok : job' = [job EXCEPT !.left = @ \ {t}, !.clean = @ /\ ok,
               !.got = IF ok THEN @ \cup {t} ELSE @, !.by = IF ok THEN @ \cup {Embedder} ELSE @,
               !.phase = IF job.left = {t} THEN "save" ELSE "embed"]
    BY <1>9 DEF Embed
  <2>2. PICK clean, left, got, by, phase :
          /\ clean = (job.clean /\ ok) /\ left = job.left \ {t} /\ got = IF ok THEN job.got \cup {t} ELSE job.got
          /\ by = IF ok THEN job.by \cup {Embedder} ELSE job.by
          /\ phase = IF job.left = {t} THEN "save" ELSE "embed"
    OBVIOUS
  <2>3. job' = [job EXCEPT !.left = left, !.clean = clean, !.got = got, !.by = by, !.phase = phase]
    BY <2>1, <2>2
  <2>4. job'.clean = clean
    BY <1>1, <2>3 DEF JobRecords
  <2> QED BY <2>2, <2>4
<1>10. CASE FetchPage
  <2>1. PICK t, ok : job' = [job EXCEPT !.left = @ \ {t}, !.clean = @ /\ ok]
    BY <1>10 DEF FetchPage
  <2>2. PICK clean : clean = (job.clean /\ ok)
    OBVIOUS
  <2>3. job' = [job EXCEPT !.left = job.left \ {t}, !.clean = clean]
    BY <2>1, <2>2
  <2>4. job'.clean = clean
    BY <1>1, <2>3 DEF JobRecords
  <2> QED BY <2>2, <2>4
<1>11. CASE ReadFile
  <2>1. PICK t : \/ job' = [job EXCEPT !.left = @ \ {t}, !.got = {t}]
                 \/ job' = [job EXCEPT !.left = @ \ {t}, !.clean = FALSE]
    BY <1>11 DEF ReadFile
  <2> QED BY <1>1, <2>1 DEF JobRecords
<1>12. ASSUME NEW a \in Apps,
              ScanApp(a) \/ Keyword(a) \/ FetchApp(a) \/ AskToc(a) \/ TocArrives(a) \/ LocalApp(a) \/ VectorizeApp(a)
       PROVE  job.clean
  <2>1. CASE ScanApp(a) \/ FetchApp(a) \/ AskToc(a) \/ LocalApp(a)
    BY <1>1, <2>1 DEF ScanApp, FetchApp, AskToc, LocalApp, JobRecords
  <2>2. CASE VectorizeApp(a)
    <3>1. \E todo, left : job' = [job EXCEPT !.phase = "embed", !.todo = todo, !.left = left]
      BY <2>2 DEF VectorizeApp
    <3> QED BY <1>1, <3>1 DEF JobRecords
  <2>3. CASE TocArrives(a) /\ job' # Then(job)
    <3>1. \E todo, left, got : job' = [job EXCEPT !.phase = "pages", !.todo = todo, !.left = left, !.got = got]
      BY <2>3, TocStored
    <3> QED BY <1>1, <3>1 DEF JobRecords
  <2>4. CASE Keyword(a)
    <3>1. PICK ok : job' = [job EXCEPT !.todo = @ \ {a}, !.clean = @ /\ ok]
      BY <2>4 DEF Keyword
    <3>2. PICK clean : clean = (job.clean /\ ok)
      OBVIOUS
    <3>3. job' = [job EXCEPT !.todo = job.todo \ {a}, !.clean = clean]
      BY <3>1, <3>2
    <3>4. job'.clean = clean
      BY <1>1, <3>3 DEF JobRecords
    <3> QED BY <3>2, <3>4
  <2> QED BY <1>2, <1>12, <2>1, <2>2, <2>3, <2>4
<1> QED BY <1>4, <1>6, <1>7, <1>8, <1>9, <1>10, <1>11, <1>12 DEF PipeStep

\* A full sync begins with all of its stages ahead.
LEMMA StartSync ==
  ASSUME TypeInv, Calm, Sync
  PROVE  Synced'
<1>1. PICK models \in ModelLists : Start(FullSync(models), TRUE)
  BY DEF Sync
<1>2. PICK p, m : p = FullSync(models) /\ m = config.model
  OBVIOUS
<1>3. m \in Models
  BY <1>2 DEF TypeInv, ConfigTypes
<1>4. SyncOrder(p, m) /\ Step(p) = 1 /\ OwnIn(p, m)
  BY <1>2, <1>3, SyncOrders DEF Calm
<1>5. job'.plan = p /\ job'.phase = "enter" /\ ~job'.cancelled /\ config'.model = m
  <2>1. job' = [Idle EXCEPT !.plan = p, !.phase = "enter", !.clean = TRUE] /\ config' = config
    BY <1>1, <1>2 DEF Start
  <2> QED BY <1>2, <2>1 DEF Idle
<1>6. \A r \in {1, 2, 3, 6} : ~Begun(r)'
  BY <1>4, <1>5 DEF Begun
<1>7. OwnAhead'
  BY <1>4, <1>5 DEF OwnAhead, OwnIn
<1>8. SyncOrder(job'.plan, config'.model)
  BY <1>4, <1>5
<1>9. IntentDone'
  BY <1>4, <1>5, <1>6 DEF IntentDone
<1> QED BY <1>5, <1>6, <1>7, <1>8, <1>9 DEF Synced, SyncDone, ScanDone, FetchDone, LocalDone, VectorDone

\* Here or in a child process, the plan stays in order.
LEMMA ChooseSync ==
  ASSUME TypeInv, Synced, ChooseProcess
  PROVE  Synced'
<1>1. PICK p, m, n : p = job.plan /\ m = config.model /\ n = Head(job.plan).model
  OBVIOUS
<1>2. PICK first : first = IF n = m THEN <<Stage("vectorize")>> ELSE <<Child("vectorize", n), Child("intents", n)>>
  OBVIOUS
<1>3. PICK q : q = first \o Tail(p)
  OBVIOUS
<1>4. /\ job.plan # <<>> /\ Head(job.plan).do = "model" /\ job.phase = "enter" /\ ~job.cancelled
      /\ job \in JobRecords /\ m \in Models
      /\ UNCHANGED <<config, known, docs, keywords, flag, vec, fts>>
  BY <1>1, SyncedIs DEF ChooseProcess, Doing, Synced, store, index
<1>5. job' = [job EXCEPT !.plan = q]
  BY <1>1, <1>2, <1>3 DEF ChooseProcess
<1>6. /\ job'.plan = q /\ job'.phase = "enter" /\ ~job'.cancelled /\ config'.model = m
  BY <1>1, <1>4, <1>5 DEF JobRecords
<1>7. SyncOrder(q, m) /\ Step(p) = 5 /\ Step(q) = 5 /\ (OwnIn(p, m) => OwnIn(q, m))
  BY <1>1, <1>2, <1>3, <1>4, ChooseOrders DEF Synced
<1>8. Begun(1) /\ Begun(2) /\ Begun(3) /\ ~Begun(6)'
  BY <1>1, <1>6, <1>7 DEF Begun
<1>9. \A what : ~In(job, what)
  BY <1>4 DEF In
<1>10. ScanDone' /\ FetchDone' /\ LocalDone'
  BY <1>4, <1>8, <1>9 DEF Synced, SyncDone, ScanDone, FetchDone, LocalDone, InLoop
<1>11. VectorDone'
  <2>1. CASE OwnIn(q, m)
    <3>1. OwnAhead'
      BY <1>6, <2>1 DEF OwnAhead, OwnIn
    <3> QED BY <3>1 DEF VectorDone
  <2>2. CASE ~OwnIn(q, m)
    <3>1. ~OwnAhead
      BY <1>1, <1>7, <2>2 DEF OwnAhead, OwnIn
    <3>2. \A a \in Apps : a \in flag[m]
      BY <1>1, <1>9, <3>1 DEF Synced, SyncDone, VectorDone, ToFlag, InOwn
    <3> QED BY <1>4, <1>6, <3>2 DEF VectorDone
  <2> QED BY <2>1, <2>2
<1>12. IntentDone'
  BY <1>6, <1>7, <1>8 DEF IntentDone
<1>13. SyncOrder(job'.plan, config'.model)
  BY <1>6, <1>7
<1> QED BY <1>6, <1>10, <1>11, <1>12, <1>13 DEF Synced, SyncDone

\* Every step keeps what a full sync has done so far.
LEMMA SyncKeeps ==
  ASSUME TypeInv, ConfigInv, WorkInv, SettledInv, LinksInv, SyncInv, [Next]_vars, Calm
  PROVE  SyncInv'
<1> SUFFICES ASSUME job'.clean
             PROVE  Synced'
  BY DEF SyncInv
<1>1. job \in JobRecords /\ GoodPlan(job.plan)
  BY JobIs
<1>2. CASE PipeStep
  <2>1. job.clean /\ Synced /\ ~job.cancelled
    BY <1>2, CleanWas DEF SyncInv, Synced
  <2>2. CASE EnterScan \/ EnterKeywords \/ \E a \in Apps : ScanApp(a) \/ Keyword(a)
    BY <2>1, <2>2, ScanSync
  <2>3. CASE EnterFetch \/ FetchPage \/ PagesDone \/ \E a \in Apps : FetchApp(a) \/ AskToc(a) \/ TocArrives(a)
    BY <2>1, <2>3, FetchSync
  <2>4. CASE EnterLocal \/ ReadFile \/ FileStored \/ FilesDone \/ \E a \in Apps : LocalApp(a)
    BY <2>1, <2>4, LocalSync
  <2>5. CASE LateStep
    <3>1. "llm" \notin Env
      BY DEF Calm
    <3>2. CASE Head(job.plan).model # NoModel
      BY <2>1, <2>5, <3>1, <3>2, ChildSync
    <3>3. CASE Head(job.plan).model = NoModel
      BY <2>1, <2>5, <3>1, <3>3, LateAt, OwnSync, IntentSync
    <3> QED BY <3>2, <3>3
  <2>6. CASE EnterIntents /\ keywords = {}
    <3>1. /\ job.plan # <<>> /\ Head(job.plan).do = "intents" /\ job.phase = "enter" /\ job' = Then(job)
          /\ UNCHANGED <<config, known, docs, keywords, flag, vec, fts>>
      BY <2>6 DEF EnterIntents, Doing, store
    <3> QED BY <2>1, <2>6, <3>1, EndSync
  <2>7. ~Abandon
    BY <2>1 DEF Abandon
  <2> QED BY <1>2, <2>2, <2>3, <2>4, <2>5, <2>6, <2>7 DEF PipeStep, LateStep
<1>3. CASE EndStage
  <2>1. /\ job.phase = "next" /\ job' = Then(job) /\ (job.todo = {} \/ job.cancelled)
        /\ UNCHANGED <<config, known, docs, keywords, flag, vec, fts>>
    BY <1>3 DEF EndStage, store, index
  <2>2. job.plan # <<>>
    BY <2>1, JobIs
  <2>3. job.clean
    BY <1>1, <2>1, <2>2, ThenSound
  <2>4. Synced /\ ~job.cancelled
    BY <2>3 DEF SyncInv, Synced
  <2> QED BY <2>1, <2>2, <2>4, EndSync
<1>4. CASE ChooseProcess
  <2>1. \E plan : job' = [job EXCEPT !.plan = plan]
    BY <1>4 DEF ChooseProcess
  <2>2. job.clean
    BY <1>1, <2>1 DEF JobRecords
  <2> QED BY <1>4, <2>2, ChooseSync DEF SyncInv
<1>5. CASE Sync
  BY <1>5, StartSync
<1>6. CASE Single \/ Clear \/ Answer
  <2>1. (\E plan : Start(plan, FALSE)) \/ job' = Idle
    BY <1>6 DEF Single, Clear, Answer
  <2>2. (\E plan : job' = [Idle EXCEPT !.plan = plan, !.phase = "enter", !.clean = FALSE]) \/ job' = Idle
    BY <2>1 DEF Start
  <2>3. CASE job' = Idle
    BY <2>3 DEF Idle
  <2>4. CASE \E plan : job' = [Idle EXCEPT !.plan = plan, !.phase = "enter", !.clean = FALSE]
    <3>1. PICK plan : job' = [Idle EXCEPT !.plan = plan, !.phase = "enter", !.clean = FALSE]
      BY <2>4
    <3> QED BY <3>1 DEF Idle
  <2> QED BY <2>2, <2>3, <2>4
<1>7. CASE Cancel
  BY <1>1, <1>7 DEF Cancel, JobRecords
<1>8. CASE ClearStep
  <2>1. job.plan # <<>> /\ Purging(job.plan) /\ job.plan \in Seq(Stages)
    BY <1>8, ClearIs DEF SettledInv
  <2>2. job' = Then(job)
    BY <1>8 DEF ClearStep, ClearApps, ClearLinks, ClearDocs, DropTable, ClearFts, ClearVectors, UnflagAffected,
       UnflagCurrent, ForgetKeywords, Statement
  <2>3. job.clean
    BY <1>1, <2>1, <2>2, ThenSound
  <2>4. Head(job.plan).do \in Pipe
    BY <2>1, <2>3, SyncedIs DEF SyncInv
  <2> QED BY <2>1, <2>4, TailKinds
<1>9. CASE \/ Reload \/ (\E m \in Models : UpdateModels(m))
           \/ \E r \in Runs : TestsBegin(r) \/ TestsEnd(r) \/ \E m \in Models : TestsMode(r, m)
  <2>1. job.phase = "idle" /\ job' = job
    BY <1>9, QuietSteps DEF Calm
  <2> QED BY <2>1 DEF SyncInv, Synced
<1>10. CASE UNCHANGED vars
  <2>1. UNCHANGED <<job, config, known, docs, keywords, flag, vec, fts>>
    BY <1>10 DEF vars
  <2>2. Synced
    BY <2>1 DEF SyncInv
  <2>3. Rows' = Rows /\ OwnAhead' = OwnAhead
    BY <2>1, SameRows DEF OwnAhead
  <2>4. /\ \A r : Begun(r)' = Begun(r)
        /\ \A a : ToFlag(a)' = ToFlag(a) /\ ToList(a)' = ToList(a)
        /\ \A what, a, p : InLoop(what, a, p)' = InLoop(what, a, p)
    BY <2>1 DEF Begun, ToFlag, ToList, InLoop, InOwn
  <2>5. ScanDone' /\ FetchDone' /\ LocalDone'
    BY <2>1, <2>2, <2>4 DEF Synced, SyncDone, ScanDone, FetchDone, LocalDone
  <2>6. VectorDone'
    BY <2>1, <2>2, <2>3, <2>4 DEF Synced, SyncDone, VectorDone
  <2>7. IntentDone'
    BY <2>1, <2>2, <2>3, <2>4 DEF Synced, SyncDone, IntentDone
  <2> QED BY <2>1, <2>2, <2>5, <2>6, <2>7 DEF Synced, SyncDone
<1>11. ~KillChild /\ ~Crash
  BY DEF KillChild, Crash, Calm
<1> QED BY <1>2, <1>3, <1>4, <1>5, <1>6, <1>7, <1>8, <1>9, <1>10, <1>11
    DEF Next, Operation, Client, PipeStep, ClearStep

\* Every step keeps what the completeness of a full sync rests on.
LEMMA CleanKeeps ==
  ASSUME TypeInv, ConfigInv, WorkInv, SettledInv, CleanInv, [Next]_vars, Calm
  PROVE  CleanInv'
<1>1. LinksInv'
  BY LinksKeep DEF CleanInv, SettledInv
<1>2. ListedInv'
  BY ListedKeeps DEF CleanInv
<1>3. SyncInv'
  BY SyncKeeps DEF CleanInv
<1>4. HarmlessInv'
  <2>1. CASE PipeStep \/ ClearStep \/ EndStage \/ Answer \/ Cancel \/ KillChild \/ ChooseProcess
             \/ Sync \/ Single \/ Clear \/ UNCHANGED <<job, known>>
    BY <2>1, HarmlessKeeps DEF CleanInv, SettledInv
  <2>2. CASE \/ Reload \/ (\E m \in Models : UpdateModels(m))
             \/ \E r \in Runs : TestsBegin(r) \/ TestsEnd(r) \/ \E m \in Models : TestsMode(r, m)
    <3>1. job' = job /\ known' = known
      BY <2>2, QuietSteps DEF Calm, store
    <3> QED BY <3>1 DEF CleanInv, HarmlessInv
  <2>3. CASE UNCHANGED vars
    <3>1. job' = job /\ known' = known
      BY <2>3 DEF vars
    <3> QED BY <3>1 DEF CleanInv, HarmlessInv
  <2>4. ~Crash
    BY DEF Crash, Calm
  <2> QED BY <2>1, <2>2, <2>3, <2>4 DEF Next, Operation, Client, PipeStep, ClearStep
<1> QED BY <1>1, <1>2, <1>3, <1>4 DEF CleanInv

\* The program starts with nothing that could be incomplete.
LEMMA CleanBegins == Init => CleanInv
<1> SUFFICES ASSUME Init PROVE CleanInv
  OBVIOUS
<1>1. job.plan = <<>> /\ job.phase = "idle" /\ ~job.clean
  BY DEF Init, Idle
<1>2. HarmlessInv /\ SyncInv
  BY <1>1 DEF HarmlessInv, Harmless, SyncInv
<1>3. LinksInv
  BY <1>1 DEF Init, LinksInv, At
<1>4. ListedInv
  BY <1>1 DEF Init, ListedInv, At
<1> QED BY <1>2, <1>3, <1>4 DEF CleanInv

\* The five invariants hold of the program.
LEMMA CleanCorrect ==
  ASSUME Calm
  PROVE  Spec => [](TypeInv /\ ConfigInv /\ WorkInv /\ SettledInv /\ CleanInv)
<1>1. Init => TypeInv /\ ConfigInv /\ WorkInv /\ SettledInv /\ CleanInv
  BY TypesBegin, ConfigBegins, WorkBegins, SettledBegins, CleanBegins
<1>2. TypeInv /\ ConfigInv /\ WorkInv /\ SettledInv /\ CleanInv /\ [Next]_vars
        => (TypeInv /\ ConfigInv /\ WorkInv /\ SettledInv /\ CleanInv)'
  <2>1. /\ {"busy", "bare", "crash", "llm"} \cap Env = {} /\ {"busy", "bare"} \cap Env = {}
        /\ "busy" \notin Env /\ OwnNames
    BY DEF Calm
  <2> QED BY <2>1, TypesKeep, ConfigKeeps, WorkKeeps, SettledKeeps, CleanKeeps
<1> QED BY <1>1, <1>2, PTL DEF Spec

\* At the answer of a clean full sync every stage is behind.
LEMMA CleanCompletes ==
  ASSUME TypeInv, SettledInv, CleanInv
  PROVE  SyncCompletes
<1>1. SUFFICES ASSUME job.phase = "answer", job.clean, NEW a \in Apps
               PROVE  /\ docs[a] = PagesOf[a]
                      /\ a \in flag[config.model]
                      /\ Body(a) \cup Words(a) \subseteq vec[config.model] \cap fts
  BY DEF SyncCompletes
<1>2. Synced /\ LinksInv /\ ListedInv
  BY <1>1 DEF CleanInv, SyncInv
<1>3. job.plan = <<>> /\ config.model \in Models
  BY <1>1, <1>2, SyncedIs
<1>4. Step(job.plan) = 7
  BY <1>3 DEF Step
<1>5. Begun(1) /\ Begun(2) /\ Begun(3) /\ Begun(6) /\ \A what : ~In(job, what)
  BY <1>3, <1>4 DEF Begun, In
<1>6. docs[a] = PagesOf[a]
  <2>1. docs[a] \subseteq PagesOf[a]
    BY <1>2 DEF TypeInv, StoreTypes, LinksInv
  <2>2. \A p \in Guide(a) : p \in docs[a]
    BY <1>2, <1>5 DEF Synced, SyncDone, FetchDone, InLoop
  <2>3. \A p \in HelpFiles(a) : p \in docs[a]
    BY <1>2, <1>5 DEF Synced, SyncDone, LocalDone, InLoop
  <2>4. \A p \in PagesOf[a] : p \in Guide(a) \/ p \in HelpFiles(a)
    BY IndexAssumption DEF Guide, HelpFiles
  <2> QED BY <2>1, <2>2, <2>3, <2>4
<1>7. a \in flag[config.model]
  <2>1. ~OwnAhead
    BY <1>3 DEF OwnAhead
  <2>2. ~ToFlag(a)
    BY <1>5 DEF ToFlag, InOwn
  <2> QED BY <1>2, <2>1, <2>2 DEF Synced, SyncDone, VectorDone
<1>8. Body(a) \subseteq vec[config.model]
  <2>1. Piping(job.plan)
    BY <1>3 DEF Piping
  <2>2. \A i \in docs[a] \cup {Meta} : <<NameOf[a], i>> \in vec[config.model]
    BY <1>1, <1>3, <1>7, <2>1, AllSettled DEF SettledInv
  <2> QED BY <2>2 DEF Body
<1>9. Body(a) \subseteq fts
  BY <1>1, <1>2, <1>3, <1>7 DEF ListedInv, Listed, At
<1>10. Words(a) \subseteq vec[config.model] \cap fts
  <2>1. a \in keywords => <<NameOf[a], Intent>> \in vec[config.model] \cap fts
    BY <1>1, <1>2, <1>4, <1>5 DEF Synced, SyncDone, IntentDone
  <2> QED BY <2>1 DEF Words
<1> QED BY <1>6, <1>7, <1>8, <1>9, <1>10

\* A full sync that comes to its answer without a failure has repaired whatever
\* was there before: of every application all pages are stored, its flag is set
\* and its documents and keywords are in both indexes, whatever earlier syncs,
\* cancelled or with unreachable pages, and earlier db.clear left behind.
\* Assumed is what Calm says, each part of which SyncCompletes needs: a target of
\* db.clear that takes the links of a guide or empties chunks_fts and leaves the
\* marks, a list of models without the current one, a table of contents or an
\* embedding that fails, a child killed, a crash, a model switched meanwhile, a
\* benchmark of a model without vectors or two applications of one name break it.
THEOREM SyncIsComplete ==
  ASSUME Calm
  PROVE  Spec => []SyncCompletes
<1>1. TypeInv /\ SettledInv /\ CleanInv => SyncCompletes
  BY CleanCompletes
<1> QED BY CleanCorrect, <1>1, PTL
===============================================================================
