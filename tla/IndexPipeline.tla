----------------------------- MODULE IndexPipeline -----------------------------
(***************************************************************************)
(* The indexing pipeline of the sidecar (modules/indexer/pipeline.js), the *)
(* stores it writes (DbService: the apps, document_links, web_documents    *)
(* and chunks_fts tables of SQLite, one LanceDB table per embedding model) *)
(* and the configuration both read at every step (config/config.js).       *)
(*                                                                         *)
(* No store shares a transaction with another: a statement is one step.    *)
(* Write operations run one at a time (PipelineLock).  A benchmark         *)
(* (tests.run) and the config.* methods take no lock: they may switch the  *)
(* model between any two steps of an operation.                            *)
(*                                                                         *)
(* A page, an application's metadata and its keywords stand for their      *)
(* text and for all the chunks cut from it.                                *)
(***************************************************************************)
EXTENDS Integers, Sequences, FiniteSets

CONSTANTS
  Apps,        \* applications installed, named by their bundle id
  NameOf,      \* their names: what LanceDB and chunks_fts know them by
  WebPages,    \* pages of online guides
  LocalPages,  \* help files in application bundles
  PagesOf,     \* the pages and files an application has
  Meta,        \* the metadata document every application gets
  Intent,      \* the document made of its keywords
  Models,      \* embedding models
  Home,        \* embedModelName of pipeline.config.json at the start
  NoModel,
  ModelLists,  \* what a client passes to pipeline.fullSync as `models`
  Targets,     \* what a client passes to db.clear as `target`
  Runs,        \* benchmark runs
  Env          \* what else may happen in this instance

\* Besides the operations themselves and their cancellation:
\*   toc    - the request for a table of contents fails
\*   page   - the request for a page fails, or a help file cannot be read
\*   llm    - Ollama fails to embed a text or to generate keywords
\*   crash  - the sidecar dies and is started again
\*   update - config.updateModels with an embedModel
\*   reload - config.reload
\*   tests  - a benchmark whose axes list any of Models
\*   kill   - a child process does not stop within CHILD_KILL_GRACE_MS
\*   bare   - a benchmark of a model that has no vectors yet
\*   busy   - update, reload and tests while another operation is in flight
EnvKinds ==
  {"toc", "page", "llm", "crash", "kill", "update", "reload", "tests", "bare",
   "busy"}

ASSUME IndexAssumption ==
  /\ Home \in Models /\ NoModel \notin Models
  /\ Meta # Intent /\ {Meta, Intent} \cap (WebPages \cup LocalPages) = {}
  /\ WebPages \cap LocalPages = {}
  /\ PagesOf \in [Apps -> SUBSET (WebPages \cup LocalPages)]
  /\ ModelLists \subseteq Seq(Models)
  /\ Targets \subseteq {"all", "web", "local", "apps", "document_links", "web_documents",
                        "lancedb", "intents"}
  /\ Env \subseteq EnvKinds

Pages == WebPages \cup LocalPages
Items == Pages \cup {Meta, Intent}
Texts == Apps \X Items

Guide(a) == PagesOf[a] \cap WebPages
HelpFiles(a) == PagesOf[a] \cap LocalPages

VARIABLES
  known,     \* rows of apps
  toc,       \* rows of apps with toc_fetched = 1
  keywords,  \* rows of apps with keywords
  links,     \* document_links: the pages linked to an application
  docs,      \* web_documents joined with document_links
  flag,      \* per model: rows of apps with its vectorized column set
  tables,    \* models whose LanceDB directory has the table
  vec,       \* per model: what that table holds, by application name
  fts,       \* what chunks_fts holds, by application name
  config,    \* file: embedModelName on disk; model: config.embedModelName;
             \* attached: the getters lancedbPath and embedModel read config
             \* itself, and not the object of the last reload
  conn,      \* to: the model of _currentLanceDbPath; table: of `table`
  saved,     \* per benchmark run: savedEmbedModel, NoModel when not running
  job        \* the write operation in flight

store == <<known, toc, keywords, links, docs>>
index == <<flag, tables, vec, fts>>
vars == <<known, toc, keywords, links, docs, flag, tables, vec, fts,
          config, conn, saved, job>>

\* A stage of an operation.  model is set for a stage a child process runs for
\* a model of its own; items for a statement of db.clear.
Stage(what) == [do |-> what, model |-> NoModel, items |-> {}]
Child(what, m) == [Stage(what) EXCEPT !.model = m]
Purge(what, items) == [Stage(what) EXCEPT !.items = items]

Kinds == {"scan", "fetch", "local", "keywords", "model", "vectorize",
          "intents", "apps", "links", "docs", "drop", "fts", "vectors",
          "unflag", "unflagCurrent", "forget"}
Stages == [do : Kinds, model : Models \cup {NoModel}, items : SUBSET Items]

\*  plan: the stage in progress and those after it; todo: the applications its
\*  loop has still to take; left, got: the texts of one application (or of all,
\*  for the intents) still to be fetched or embedded, and those that were;
\*  by: the models that embedded them; col: vecCol; clean: a full sync in which
\*  nothing failed or was cancelled so far.
Phases == {"idle", "enter", "next", "toc", "pages", "embed", "save", "add",
           "unlist", "list", "flag", "unintend", "answer"}

Idle == [plan |-> <<>>, phase |-> "idle", todo |-> {}, left |-> {}, got |-> {},
         by |-> {}, col |-> NoModel, cancelled |-> FALSE, clean |-> FALSE]

TypeOK ==
  /\ known \subseteq Apps /\ toc \subseteq known /\ keywords \subseteq known
  /\ links \in [Apps -> SUBSET Pages] /\ docs \in [Apps -> SUBSET Pages]
  /\ \A a \in Apps : docs[a] \subseteq links[a]
  /\ flag \in [Models -> SUBSET known]
  /\ tables \subseteq Models
  /\ vec \in [Models -> SUBSET {<<NameOf[t[1]], t[2]>> : t \in Texts}]
  /\ fts \subseteq {<<NameOf[t[1]], t[2]>> : t \in Texts}
  /\ config \in [file : Models, model : Models, attached : BOOLEAN]
  /\ conn \in [to : Models, table : Models \cup {NoModel}]
  /\ saved \in [Runs -> Models \cup {NoModel}]
  /\ job.plan \in Seq(Stages) /\ job.phase \in Phases
  /\ job.todo \subseteq Apps /\ job.left \subseteq Texts
  /\ job.got \subseteq Texts /\ job.by \subseteq Models
  /\ job.col \in Models \cup {NoModel}
  /\ {job.cancelled, job.clean} \subseteq BOOLEAN

Init ==
  /\ known = {} /\ toc = {} /\ keywords = {}
  /\ links = [a \in Apps |-> {}] /\ docs = [a \in Apps |-> {}]
  /\ flag = [m \in Models |-> {}] /\ tables = {}
  /\ vec = [m \in Models |-> {}] /\ fts = {}
  /\ config = [file |-> Home, model |-> Home, attached |-> TRUE]
  /\ conn = [to |-> Home, table |-> NoModel]
  /\ saved = [r \in Runs |-> NoModel]
  /\ job = Idle

-----------------------------------------------------------------------------
(* Which model: the three answers that should be one                       *)

\* What the getters of config.db and config.ollama answer.
Reached == IF config.attached THEN config.model ELSE config.file

InChild == job.plan # <<>> /\ Head(job.plan).model # NoModel

\* config.embedModelName and ollama.embedModel of the process at work.
Named == IF InChild THEN Head(job.plan).model ELSE config.model
Embedder == IF InChild THEN Head(job.plan).model ELSE Reached

Opened(m) == [to |-> m, table |-> IF m \in tables THEN m ELSE NoModel]

\* ensureLanceDbConnected
Connected == IF conn.to = Reached THEN conn ELSE Opened(Reached)

\* The connection the process at work has after ensureLanceDbConnected.
Link == IF InChild THEN Opened(Head(job.plan).model) ELSE Connected

Keep(l) == conn' = IF InChild THEN conn ELSE l

-----------------------------------------------------------------------------
(* An operation: its stages one after the other                            *)

FullSync(models) ==
  <<Stage("scan"), Stage("fetch"), Stage("local"), Stage("keywords")>>
    \o (IF models = <<>> THEN <<Stage("vectorize")>>
        ELSE [i \in DOMAIN models |-> Child("model", models[i])])
    \o <<Stage("intents")>>

\* CLEAR_TARGETS: the statements of every target, in order.
DropVectors ==
  <<Stage("drop"), Purge("fts", Items), Stage("unflagCurrent")>>

ClearType(pages) ==
  <<Purge("unflag", pages), Purge("fts", pages), Purge("vectors", pages),
    Purge("docs", pages), Purge("links", pages)>>

ClearPlan(target) ==
  CASE target = "all" -> <<Stage("apps"), Purge("links", Pages),
                           Purge("docs", Pages)>> \o DropVectors
    [] target = "web" -> ClearType(WebPages)
    [] target = "local" -> ClearType(LocalPages)
    [] target = "apps" -> <<Stage("apps")>>
    [] target = "document_links" -> <<Purge("links", Pages)>>
    [] target = "web_documents" -> <<Purge("docs", Pages)>>
    [] target = "lancedb" -> DropVectors
    [] target = "intents" -> <<Purge("vectors", {Intent}),
                               Purge("fts", {Intent}), Stage("forget")>>

Testing == \E r \in Runs : saved[r] # NoModel

Start(plan, clean) ==
  /\ job.phase = "idle"
  /\ Testing => "busy" \in Env
  /\ job' = [Idle EXCEPT !.plan = plan, !.phase = "enter", !.clean = clean]
  /\ UNCHANGED <<store, index, config, conn, saved>>

Sync == \E models \in ModelLists : Start(FullSync(models), TRUE)

\* pipeline.fetchDocs, pipeline.vectorize and so on: a stage on its own.
Single ==
  \E what \in {"scan", "fetch", "local", "keywords", "vectorize", "intents"} :
    Start(<<Stage(what)>>, FALSE)

Clear == \E target \in Targets : Start(ClearPlan(target), FALSE)

\* The stage returns; fullSync stops after a stage that saw the cancellation.
\* db.clear has no signal.
Then(j) ==
  LET rest == IF j.cancelled /\ j.plan # <<>> THEN <<>> ELSE Tail(j.plan)
  IN [Idle EXCEPT !.plan = rest, !.clean = j.clean, !.cancelled = j.cancelled,
                  !.phase = IF rest = <<>> THEN "answer" ELSE "enter"]

Fail == job' = [Idle EXCEPT !.phase = "answer"]

Doing(what, phase) ==
  /\ job.plan # <<>> /\ Head(job.plan).do = what
  /\ job.phase = phase

\* The loop of a stage has taken every application, or sees the signal.
EndStage ==
  /\ job.phase = "next"
  /\ job.todo = {} \/ job.cancelled
  /\ job' = Then(job)
  /\ UNCHANGED <<store, index, config, conn, saved>>

Answer ==
  /\ job.phase = "answer"
  /\ job' = Idle
  /\ UNCHANGED <<store, index, config, conn, saved>>

Cancellable ==
  job.plan # <<>> /\ Head(job.plan).do \in
    {"scan", "fetch", "local", "keywords", "model", "vectorize", "intents"}

\* job.cancel: the signal, looked at between two steps.
Cancel ==
  /\ Cancellable /\ ~job.cancelled
  /\ job' = [job EXCEPT !.cancelled = TRUE, !.clean = FALSE]
  /\ UNCHANGED <<store, index, config, conn, saved>>

\* SIGKILL for a child that has not seen its SIGTERM in time.
KillChild ==
  /\ "kill" \in Env
  /\ InChild /\ job.cancelled
  /\ job' = Then(job)
  /\ UNCHANGED <<store, index, config, conn, saved>>

\* A model of the list: here when it is the current one, in a child otherwise.
ChooseProcess ==
  /\ Doing("model", "enter")
  /\ LET m == Head(job.plan).model IN
       job' = [job EXCEPT !.plan =
         (IF m = config.model THEN <<Stage("vectorize")>>
          ELSE <<Child("vectorize", m), Child("intents", m)>>) \o Tail(@)]
  /\ UNCHANGED <<store, index, config, conn, saved>>

\* A loop over the rows of apps begins.
Loop(apps) == job' = [job EXCEPT !.phase = "next", !.todo = apps]

-----------------------------------------------------------------------------
(* runScanApps, runKeywordAugmentation                                     *)

EnterScan ==
  /\ Doing("scan", "enter")
  /\ Loop(Apps)
  /\ UNCHANGED <<store, index, config, conn, saved>>

ScanApp(a) ==
  /\ Doing("scan", "next") /\ ~job.cancelled /\ a \in job.todo
  /\ known' = known \cup {a}
  /\ job' = [job EXCEPT !.todo = @ \ {a}]
  /\ UNCHANGED <<toc, keywords, links, docs, index, config, conn, saved>>

EnterKeywords ==
  /\ Doing("keywords", "enter")
  /\ Loop(known \ keywords)
  /\ UNCHANGED <<store, index, config, conn, saved>>

Keyword(a) ==
  /\ Doing("keywords", "next") /\ ~job.cancelled /\ a \in job.todo
  /\ \E ok \in {TRUE} \cup (IF "llm" \in Env THEN {FALSE} ELSE {}) :
       /\ keywords' = IF ok /\ docs[a] # {} THEN keywords \cup {a} ELSE keywords
       /\ job' = [job EXCEPT !.todo = @ \ {a}, !.clean = @ /\ ok]
  /\ UNCHANGED <<known, toc, links, docs, index, config, conn, saved>>

-----------------------------------------------------------------------------
(* runFetchDocs, runFetchLocalDocs                                         *)

Of(a, pages) == {a} \X pages

\* Applications without an online guide have no hpd_project_identifier.
EnterFetch ==
  /\ Doing("fetch", "enter")
  /\ Loop({a \in known : Guide(a) # {}})
  /\ UNCHANGED <<store, index, config, conn, saved>>

\* pendingLinks
Pending(a, linked) == Of(a, linked \ docs[a])

\* An application whose table of contents is stored.
FetchApp(a) ==
  /\ Doing("fetch", "next") /\ ~job.cancelled /\ a \in job.todo
  /\ a \in toc
  /\ job' = [job EXCEPT !.phase = "pages", !.todo = @ \ {a},
                        !.left = Pending(a, links[a]),
                        !.got = Pending(a, links[a])]
  /\ UNCHANGED <<store, index, config, conn, saved>>

\* left names the application until its table of contents arrives.
AskToc(a) ==
  /\ Doing("fetch", "next") /\ ~job.cancelled /\ a \in job.todo
  /\ a \notin toc
  /\ job' = [job EXCEPT !.phase = "toc", !.left = Of(a, {Meta})]
  /\ UNCHANGED <<store, index, config, conn, saved>>

\* Mutant: an answer cut off by the signal is believed.
TocBelieved(a) ==
  /\ Doing("fetch", "toc") /\ job.left = Of(a, {Meta})
  /\ \E pages \in {IF job.cancelled THEN {} ELSE Guide(a)} :
       /\ links' = [links EXCEPT ![a] = @ \cup pages]
       /\ job' = [job EXCEPT !.phase = "pages", !.todo = @ \ {a},
                             !.left = Pending(a, links'[a]),
                             !.got = Pending(a, links'[a])]
  /\ toc' = toc \cup {a}
  /\ UNCHANGED <<known, keywords, docs, index, config, conn, saved>>

\* getToc answers with no pages when the request fails; what it answers is
\* stored and marked, unless the signal came first.
TocArrives(a) ==
  /\ Doing("fetch", "toc") /\ job.left = Of(a, {Meta})
  /\ IF job.cancelled
       THEN job' = Then(job) /\ UNCHANGED <<links, toc>>
       ELSE /\ \E pages \in {Guide(a)} \cup (IF "toc" \in Env THEN {{}} ELSE {}) :
                 /\ links' = [links EXCEPT ![a] = @ \cup pages]
                 /\ job' = [job EXCEPT !.phase = "pages", !.todo = @ \ {a},
                                       !.left = Pending(a, links'[a]),
                                       !.got = Pending(a, links'[a])]
            /\ toc' = toc \cup {a}
  /\ UNCHANGED <<known, keywords, docs, index, config, conn, saved>>

\* fetchRawHtml and saveWebDocument of a pending page.
FetchPage ==
  /\ Doing("fetch", "pages") /\ ~job.cancelled
  /\ \E t \in job.left :
       \E ok \in {TRUE} \cup (IF "page" \in Env THEN {FALSE} ELSE {}) :
         /\ docs' = IF ok THEN [docs EXCEPT ![t[1]] = @ \cup {t[2]}] ELSE docs
         /\ job' = [job EXCEPT !.left = @ \ {t}, !.clean = @ /\ ok]
  /\ UNCHANGED <<known, toc, keywords, links, index, config, conn, saved>>

\* resetVectorizedFlags of these applications, for every model.
Unflag(apps) == flag' = [m \in Models |-> flag[m] \ apps]

\* The flags are reset before the loop is left, interrupted or not.
PagesDone ==
  /\ Doing("fetch", "pages")
  /\ job.left = {} \/ job.cancelled
  /\ Unflag({t[1] : t \in job.got})
  /\ job' = [job EXCEPT !.phase = "next", !.left = {}, !.got = {}]
  /\ UNCHANGED <<store, tables, vec, fts, config, conn, saved>>

EnterLocal ==
  /\ Doing("local", "enter")
  /\ Loop(known)
  /\ UNCHANGED <<store, index, config, conn, saved>>

LocalApp(a) ==
  /\ Doing("local", "next") /\ ~job.cancelled /\ a \in job.todo
  /\ job' = [job EXCEPT !.phase = "pages", !.todo = @ \ {a},
                        !.left = Pending(a, HelpFiles(a))]
  /\ UNCHANGED <<store, index, config, conn, saved>>

\* Mutant: the document without its link.
ReadUnlinked ==
  /\ Doing("local", "pages") /\ ~job.cancelled /\ job.got = {}
  /\ \E t \in job.left :
       /\ docs' = [docs EXCEPT ![t[1]] = @ \cup {t[2]}]
       /\ job' = [job EXCEPT !.left = @ \ {t}, !.got = {t}]
  /\ UNCHANGED <<known, toc, keywords, links, index, config, conn, saved>>

\* The link and the document of a help file; got has the flags still to reset.
ReadFile ==
  /\ Doing("local", "pages") /\ ~job.cancelled /\ job.got = {}
  /\ \E t \in job.left :
       \/ /\ docs' = [docs EXCEPT ![t[1]] = @ \cup {t[2]}]
          /\ links' = [links EXCEPT ![t[1]] = @ \cup {t[2]}]
          /\ job' = [job EXCEPT !.left = @ \ {t}, !.got = {t}]
       \/ /\ "page" \in Env
          /\ job' = [job EXCEPT !.left = @ \ {t}, !.clean = FALSE]
          /\ UNCHANGED <<links, docs>>
  /\ UNCHANGED <<known, toc, keywords, index, config, conn, saved>>

FileStored ==
  /\ Doing("local", "pages") /\ job.got # {}
  /\ Unflag({t[1] : t \in job.got})
  /\ job' = [job EXCEPT !.got = {}]
  /\ UNCHANGED <<store, tables, vec, fts, config, conn, saved>>

FilesDone ==
  /\ Doing("local", "pages") /\ job.got = {}
  /\ job.left = {} \/ job.cancelled
  /\ job' = [job EXCEPT !.phase = "next", !.left = {}]
  /\ UNCHANGED <<store, index, config, conn, saved>>

-----------------------------------------------------------------------------
(* runVectorize                                                            *)

\* Mutant: the table is not looked for.
EnterUnchecked ==
  /\ Doing("vectorize", "enter")
  /\ Keep(Link)
  /\ job' = [job EXCEPT !.phase = "next", !.col = Named,
                        !.todo = known \ flag[Named]]
  /\ UNCHANGED <<store, index, config, saved>>

\* hasVectorTable: without a table the flags of this model are a lie.
EnterVectorize ==
  /\ Doing("vectorize", "enter")
  /\ Keep(Link)
  /\ flag' = IF Link.table = NoModel THEN [flag EXCEPT ![Named] = {}] ELSE flag
  /\ job' = [job EXCEPT !.phase = "next", !.col = Named,
                        !.todo = known \ flag'[Named]]
  /\ UNCHANGED <<store, tables, vec, fts, config, saved>>

VectorizeApp(a) ==
  /\ Doing("vectorize", "next") /\ ~job.cancelled /\ a \in job.todo
  /\ job' = [job EXCEPT !.phase = "embed", !.todo = @ \ {a},
       !.left = Of(a, docs[a] \cup {Meta}
                        \cup IF a \in keywords THEN {Intent} ELSE {})]
  /\ UNCHANGED <<store, index, config, conn, saved>>

\* generateEmbedding of the chunks of a document; a failure is counted and
\* the chunk left out.  The signal is looked at after the last answer too.
Embed ==
  /\ job.phase = "embed" /\ ~job.cancelled
  /\ \E t \in job.left :
       \E ok \in {TRUE} \cup (IF "llm" \in Env THEN {FALSE} ELSE {}) :
         job' = [job EXCEPT
           !.left = @ \ {t}, !.clean = @ /\ ok,
           !.got = IF ok THEN @ \cup {t} ELSE @,
           !.by = IF ok THEN @ \cup {Embedder} ELSE @,
           !.phase = IF job.left = {t} THEN "save" ELSE "embed"]
  /\ UNCHANGED <<store, index, config, conn, saved>>

\* Mutant: what was embedded before the signal replaces the application.
SaveHalf ==
  /\ job.phase = "embed" /\ job.cancelled
  /\ job' = [job EXCEPT !.phase = "save", !.left = {}]
  /\ UNCHANGED <<store, index, config, conn, saved>>

\* The signal: an application half embedded is dropped, intents half embedded
\* are saved (the old ones are gone).
Abandon ==
  /\ job.phase = "embed" /\ job.cancelled
  /\ job' = IF Head(job.plan).do = "vectorize" THEN Then(job)
            ELSE [job EXCEPT !.phase = "save", !.left = {}]
  /\ UNCHANGED <<store, index, config, conn, saved>>

\* The application done with, the next one.
NextApp == job' = [job EXCEPT !.phase = "next", !.left = {}, !.got = {}, !.by = {}]

-----------------------------------------------------------------------------
(* saveChunks                                                              *)

Rows == {<<NameOf[t[1]], t[2]>> : t \in job.got}

Replacing == Head(job.plan).do = "vectorize"

\* The rows left when an application is replaced; intents are only added.
Others(rows) == IF Replacing
                  THEN {r \in rows : \A t \in job.got : r[1] # NameOf[t[1]]}
                  ELSE rows

\* Nothing was embedded: no flag either.
SaveNothing ==
  /\ job.phase = "save" /\ job.got = {}
  /\ NextApp
  /\ UNCHANGED <<store, index, config, conn, saved>>

\* createTable, which refuses a table that is there.
CreateTable ==
  /\ job.phase = "save" /\ job.got # {} /\ Link.table = NoModel
  /\ IF Link.to \in tables
       THEN Fail /\ Keep(Link) /\ UNCHANGED <<tables, vec>>
       ELSE /\ tables' = tables \cup {Link.to}
            /\ vec' = [vec EXCEPT ![Link.to] = Rows]
            /\ Keep([Link EXCEPT !.table = Link.to])
            /\ job' = [job EXCEPT !.phase = "unlist"]
  /\ UNCHANGED <<store, flag, fts, config, saved>>

\* The rows of the application go, those of the batch come.
DeleteRows ==
  /\ job.phase = "save" /\ job.got # {} /\ Link.table # NoModel
  /\ Keep(Link)
  /\ vec' = [vec EXCEPT ![Link.table] = Others(@)]
  /\ job' = [job EXCEPT !.phase = "add"]
  /\ UNCHANGED <<store, flag, tables, fts, config, saved>>

\* `table` of the process at work.
Handle == IF InChild THEN Link.table ELSE conn.table

\* The handle may be another one than a step before.  A table takes the vectors of another
\* model, or refuses them for their length.
AddRows ==
  /\ job.phase = "add"
  /\ \E accepted \in {TRUE} \cup (IF job.by = {Handle} THEN {} ELSE {FALSE}) :
       IF accepted /\ Handle # NoModel
         THEN /\ vec' = [vec EXCEPT ![Handle] = @ \cup Rows]
              /\ job' = [job EXCEPT !.phase = "unlist"]
         ELSE Fail /\ UNCHANGED vec
  /\ UNCHANGED <<store, flag, tables, fts, config, conn, saved>>

Unlist ==
  /\ job.phase = "unlist"
  /\ fts' = Others(fts)
  /\ job' = [job EXCEPT !.phase = "list"]
  /\ UNCHANGED <<store, flag, tables, vec, config, conn, saved>>

List ==
  /\ job.phase = "list"
  /\ fts' = fts \cup Rows
  /\ IF Replacing THEN job' = [job EXCEPT !.phase = "flag"] ELSE NextApp
  /\ UNCHANGED <<store, flag, tables, vec, config, conn, saved>>

\* UPDATE apps SET vecCol = 1
SetFlag ==
  /\ job.phase = "flag"
  /\ flag' = [flag EXCEPT ![job.col] = @ \cup {t[1] : t \in job.got}]
  /\ NextApp
  /\ UNCHANGED <<store, tables, vec, fts, config, conn, saved>>

-----------------------------------------------------------------------------
(* runVectorizeIntents                                                     *)

\* clearIntentChunks: the table of this model, then chunks_fts.
EnterIntents ==
  /\ Doing("intents", "enter")
  /\ IF keywords = {} \/ job.cancelled
       THEN job' = Then(job) /\ UNCHANGED <<vec, conn>>
       ELSE /\ Keep(Link)
            /\ vec' = IF Link.table = NoModel THEN vec
                      ELSE [vec EXCEPT ![Link.table] = {r \in @ : r[2] # Intent}]
            /\ job' = [job EXCEPT !.phase = "unintend"]
  /\ UNCHANGED <<store, flag, tables, fts, config, saved>>

UnlistIntents ==
  /\ Doing("intents", "unintend")
  /\ fts' = {r \in fts : r[2] # Intent}
  /\ job' = [job EXCEPT !.phase = "embed", !.left = keywords \X {Intent}]
  /\ UNCHANGED <<store, flag, tables, vec, config, conn, saved>>

-----------------------------------------------------------------------------
(* db.clear                                                                *)

Statement(what) == Doing(what, "enter") /\ job' = Then(job)

Purged == Head(job.plan).items

ClearApps ==
  /\ Statement("apps")
  /\ known' = {} /\ toc' = {} /\ keywords' = {}
  /\ flag' = [m \in Models |-> {}]
  /\ UNCHANGED <<links, docs, tables, vec, fts, config, conn, saved>>

\* A document without its link belongs to no application.
ClearLinks ==
  /\ Statement("links")
  /\ links' = [a \in Apps |-> links[a] \ Purged]
  /\ docs' = [a \in Apps |-> docs[a] \ Purged]
  /\ UNCHANGED <<known, toc, keywords, index, config, conn, saved>>

ClearDocs ==
  /\ Statement("docs")
  /\ docs' = [a \in Apps |-> docs[a] \ Purged]
  /\ UNCHANGED <<known, toc, keywords, links, index, config, conn, saved>>

DropTable ==
  /\ Statement("drop")
  /\ IF Connected.to \in tables
       THEN /\ tables' = tables \ {Connected.to}
            /\ vec' = [vec EXCEPT ![Connected.to] = {}]
            /\ conn' = [Connected EXCEPT !.table = NoModel]
       ELSE conn' = Connected /\ UNCHANGED <<tables, vec>>
  /\ UNCHANGED <<store, flag, fts, config, saved>>

ClearFts ==
  /\ Statement("fts")
  /\ fts' = {r \in fts : r[2] \notin Purged}
  /\ UNCHANGED <<store, flag, tables, vec, config, conn, saved>>

ClearVectors ==
  /\ Statement("vectors")
  /\ conn' = Connected
  /\ vec' = IF Connected.table = NoModel THEN vec
            ELSE [vec EXCEPT ![Connected.table] = {r \in @ : r[2] \notin Purged}]
  /\ UNCHANGED <<store, flag, tables, fts, config, saved>>

UnflagAffected ==
  /\ Statement("unflag")
  /\ Unflag({a \in Apps : links[a] \cap Purged # {}})
  /\ UNCHANGED <<store, tables, vec, fts, config, conn, saved>>

UnflagCurrent ==
  /\ Statement("unflagCurrent")
  /\ flag' = [flag EXCEPT ![config.model] = {}]
  /\ UNCHANGED <<store, tables, vec, fts, config, conn, saved>>

ForgetKeywords ==
  /\ Statement("forget")
  /\ keywords' = {}
  /\ UNCHANGED <<known, toc, links, docs, index, config, conn, saved>>

-----------------------------------------------------------------------------
(* The configuration, the benchmark, the process                           *)

Quiet == "busy" \in Env \/ (job.phase = "idle" /\ ~Testing)

\* reloadConfig copies the fields of a new object into config: the getters go
\* on reading the new object.
Reload ==
  /\ "reload" \in Env /\ Quiet
  /\ config' = [config EXCEPT !.model = config.file, !.attached = FALSE]
  /\ UNCHANGED <<store, index, conn, saved, job>>

\* updateModels writes the file and reloads it, or does nothing.
UpdateModels(m) ==
  /\ "update" \in Env /\ Quiet
  /\ config.file # m
  /\ config' = [file |-> m, model |-> m, attached |-> FALSE]
  /\ UNCHANGED <<store, index, conn, saved, job>>

\* db.init: the path and the connection are new, the handle only when there is
\* a table.
Initialised ==
  [to |-> Reached, table |-> IF Reached \in tables THEN Reached ELSE conn.table]

TestsBegin(r) ==
  /\ "tests" \in Env /\ Quiet
  /\ Reached \notin tables => "bare" \in Env
  /\ saved[r] = NoModel
  /\ saved' = [saved EXCEPT ![r] = config.model]
  /\ conn' = Initialised
  /\ UNCHANGED <<store, index, config, job>>

\* A mode of the benchmark: the model of its axis, then the hot swap.
TestsMode(r, m) ==
  /\ saved[r] # NoModel
  /\ m \notin tables => "bare" \in Env
  /\ config' = [config EXCEPT !.model = m]
  /\ conn' = LET reached == IF config.attached THEN m ELSE config.file IN
               IF conn.to = reached THEN conn ELSE Opened(reached)
  /\ UNCHANGED <<store, index, saved, job>>

\* Mutant: no finally.
TestsLeave(r) ==
  /\ saved[r] # NoModel
  /\ saved' = [saved EXCEPT ![r] = NoModel]
  /\ UNCHANGED <<store, index, config, conn, job>>

TestsEnd(r) ==
  /\ saved[r] # NoModel
  /\ config' = [config EXCEPT !.model = saved[r]]
  /\ saved' = [saved EXCEPT ![r] = NoModel]
  /\ UNCHANGED <<store, index, conn, job>>

\* The process is gone with its memory and starts again.
Crash ==
  /\ "crash" \in Env
  /\ job' = Idle
  /\ config' = [config EXCEPT !.model = config.file, !.attached = TRUE]
  /\ conn' = Opened(config.file)
  /\ saved' = [r \in Runs |-> NoModel]
  /\ UNCHANGED <<store, index>>

-----------------------------------------------------------------------------
Operation ==
  \/ ChooseProcess \/ EndStage \/ KillChild
  \/ EnterScan \/ EnterFetch \/ EnterLocal \/ EnterKeywords
  \/ EnterVectorize \/ EnterIntents
  \/ \E a \in Apps :
       \/ ScanApp(a) \/ Keyword(a) \/ FetchApp(a) \/ AskToc(a)
       \/ TocArrives(a) \/ LocalApp(a) \/ VectorizeApp(a)
  \/ FetchPage \/ PagesDone \/ ReadFile \/ FileStored \/ FilesDone
  \/ Embed \/ Abandon \/ SaveNothing \/ CreateTable \/ DeleteRows \/ AddRows
  \/ Unlist \/ List \/ SetFlag \/ UnlistIntents
  \/ ClearApps \/ ClearLinks \/ ClearDocs \/ DropTable \/ ClearFts
  \/ ClearVectors \/ UnflagAffected \/ UnflagCurrent \/ ForgetKeywords

Client ==
  \/ Sync \/ Single \/ Clear \/ Answer \/ Cancel
  \/ Reload \/ \E m \in Models : UpdateModels(m)
  \/ \E r \in Runs :
       TestsBegin(r) \/ TestsEnd(r) \/ \E m \in Models : TestsMode(r, m)

Next == Operation \/ Client \/ Crash

Spec == Init /\ [][Next]_vars

-----------------------------------------------------------------------------
\* Everything an application should be found by, without its keywords.
Body(a) == {<<NameOf[a], i>> : i \in docs[a] \cup {Meta}}

Words(a) == IF a \in keywords THEN {<<NameOf[a], Intent>>} ELSE {}

\* An application marked as vectorized has all its documents in the vector
\* table of that model, so skipping it loses nothing ("the flag lives in
\* SQLite, the vectors in LanceDB, and the two can part").
FlagMeansVectors ==
  job.phase = "idle" =>
    \A m \in Models : \A a \in flag[m] : m \in tables /\ Body(a) \subseteq vec[m]

\* Past its check, runVectorize trusts no flag of a model without a table,
\* whatever died between dropping a table and resetting its flags.
FlagsNeedTable ==
  \A phase \in Phases \ {"enter"} :
    Doing("vectorize", phase) /\ flag[job.col] # {} => job.col \in tables

\* A full sync in which nothing failed repairs whatever earlier operations,
\* cancelled or not, left behind: every application is in every store.
SyncCompletes ==
  job.phase = "answer" /\ job.clean =>
    \A a \in Apps :
      /\ docs[a] = PagesOf[a]
      /\ a \in flag[config.model]
      /\ Body(a) \cup Words(a) \subseteq vec[config.model] \cap fts

\* Vectors belong to their model: the model that computed one is the model of
\* the table it is put in, and an application that is marked has its own there.
VectorsOfTheModel ==
  [][/\ \A m \in Models : vec'[m] \ vec[m] # {} => job.by = {m}
     /\ FlagMeansVectors']_vars

\* What a crash, a killed child or a failing model leaves is repaired without
\* being believed and without a row being put in beside one that is there.
RepairsAreSound ==
  [][/\ FlagsNeedTable'
     /\ AddRows /\ job'.phase = "unlist" => Rows \cap vec[Handle] = {}
     /\ List => Rows \cap fts = {}]_vars

\* The configuration is after a benchmark what it was before, and all who read
\* it agree on the model.
ConfigRestored ==
  ~Testing => config.model = config.file /\ Reached = config.model
=============================================================================
