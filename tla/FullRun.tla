-------------------------------- MODULE FullRun --------------------------------
(***************************************************************************)
(* The full run of the developer panel (useFullRun.js, useDevRuntime.js,   *)
(* fullRunPlan.js): a plan of RPC calls, one after the other, pipeline     *)
(* steps and benchmarks, of which there is one for each pair of models     *)
(* that was chosen.  The panel may only cancel a call whose id it has      *)
(* learned from a progress frame, and frames, answers and the user come in *)
(* any order.  The benchmark in progress, or the last one, is the one of   *)
(* BenchmarkRun; of those before it their end is kept.                     *)
(***************************************************************************)
EXTENDS BenchmarkRun

CONSTANTS
  Plan,         \* the steps: "pipeline" or "tests"
  Overrides,    \* the axes a user may set in the form
  MaxControls   \* bound: pauses and resumptions

ASSUME PlanAssumption ==
  /\ Plan # <<>> /\ Plan \in Seq({"pipeline", "tests"})
  /\ \A over \in Overrides : \A a \in DOMAIN over : over[a] \in Seq(Range(over[a]))
  /\ MaxControls \in Nat

VARIABLES
  state,     \* useFullRun: idle, running, or how it ended
  entries,   \* the status shown at each step
  stop,      \* stopRef
  step,      \* activeKeyRef: the step in progress, 0 for none
  op,        \* the operation of that step in useDevRuntime
  request,   \* job.cancel under way: none, sent, or its answer
  jobs,      \* the jobs of the steps: none, running, aborted, or how one ended
  bench,     \* the step whose job is the benchmark of BenchmarkRun, 0 for none
  reports,   \* the benchmarks before that one that left a finished report
  controls

panelVars == <<state, entries, stop, step, op, request>>
jobVars == <<jobs, bench, reports>>
vars == <<benchVars, panelVars, jobVars, controls>>

Steps == DOMAIN Plan
NoOp == [id |-> FALSE, asked |-> FALSE, ack |-> FALSE]

Init ==
  /\ InitBench
  /\ state = "idle" /\ entries = [i \in Steps |-> "pending"]
  /\ stop = FALSE /\ step = 0 /\ op = NoOp /\ request = "none"
  /\ jobs = [i \in Steps |-> "none"] /\ bench = 0 /\ reports = {} /\ controls = 0

\* What became of the job of a step, and whether it left a finished report.
JobOf(i) == IF i = bench THEN stage ELSE jobs[i]
Reported(i) == i \in reports \/ (i = bench /\ disk.final # NoFile)

Job == IF step = 0 THEN "none" ELSE JobOf(step)
JobRuns == step # 0 /\ Job \notin Ends

-----------------------------------------------------------------------------
(* useFullRun                                                              *)

\* run(): a call, and a fresh record of it.
StepBegins(i) ==
  /\ step' = i /\ op' = NoOp /\ request' = "none"
  /\ IF Plan[i] = "tests"
       THEN /\ \E over \in Overrides, n \in 1 .. MaxStreams : TestsRun(over, n)
            /\ bench' = i
            /\ jobs' = [j \in Steps |-> JobOf(j)] /\ reports' = {j \in Steps : Reported(j)}
       ELSE jobs' = [jobs EXCEPT ![i] = "running"] /\ UNCHANGED <<bench, reports, benchVars>>

Start ==
  /\ state = "idle"
  /\ state' = "running" /\ entries' = [entries EXCEPT ![1] = "running"]
  /\ StepBegins(1)
  /\ UNCHANGED <<stop, controls>>

\* What is left of the plan was not reached.
RunEnds(how, es) ==
  /\ state' = how
  /\ entries' = [i \in Steps |-> IF es[i] = "pending" THEN "skipped" ELSE es[i]]
  /\ step' = 0 /\ op' = op /\ request' = "none"
  /\ UNCHANGED <<jobVars, benchVars>>

\* Mutant: what was asked for is taken for what happened.
StatusAsAsked(how) ==
  IF how = "ok" /\ ~stop THEN "done"
  ELSE IF how = "cancelled" \/ stop THEN "cancelled" ELSE "error"

\* How run() and the loop read an answer: a cancelled job answers with a
\* result; an error is a cancellation when one was asked for.
Status(how) ==
  IF how = "ok" THEN "done"
  ELSE IF how = "cancelled" \/ stop THEN "cancelled" ELSE "error"

\* The answer of the call: the next step, or the end.
StepAnswered ==
  /\ step # 0 /\ Job \in Ends
  /\ LET es == [entries EXCEPT ![step] = Status(Job)]
     IN CASE es[step] = "error" -> RunEnds("failed", es)
          [] es[step] = "cancelled" \/ stop -> RunEnds("cancelled", es)
          [] es[step] = "done" /\ ~stop /\ step = Len(Plan) -> RunEnds("done", es)
          [] OTHER -> /\ entries' = [es EXCEPT ![step + 1] = "running"]
                      /\ state' = state
                      /\ StepBegins(step + 1)
  /\ UNCHANGED <<stop, controls>>

\* The flag first, then job.cancel, if the id is known.  The button of the
\* step may be pressed again while no request is on its way.
Stop ==
  /\ state = "running" /\ (stop => step # 0 /\ ~op.ack /\ request = "none" /\ op.id)
  /\ stop' = TRUE
  /\ IF step = 0 THEN UNCHANGED <<op, request>>
     ELSE /\ op' = [op EXCEPT !.asked = TRUE]
          /\ request' = IF op.id THEN "sent" ELSE request
  /\ UNCHANGED <<benchVars, state, entries, step, jobVars, controls>>

-----------------------------------------------------------------------------
(* useDevRuntime and the server                                            *)

ProgressArrives ==
  /\ step # 0 /\ ~op.id
  /\ op' = [op EXCEPT !.id = TRUE]
  /\ UNCHANGED <<benchVars, state, entries, stop, step, request, jobVars, controls>>

\* A job that has ended is not in the registry.
CancelHandled ==
  /\ request = "sent"
  /\ IF ~JobRuns THEN request' = "refused" /\ UNCHANGED <<jobVars, benchVars>>
     ELSE /\ request' = "accepted"
          /\ IF Plan[step] = "tests"
               THEN JobCancel /\ UNCHANGED jobVars
               ELSE jobs' = [jobs EXCEPT ![step] = "aborted"] /\ UNCHANGED <<bench, reports, benchVars>>
  /\ UNCHANGED <<state, entries, stop, step, op, controls>>

CancelAnswered ==
  /\ request \in {"accepted", "refused"}
  /\ op' = [op EXCEPT !.ack = (request = "accepted")] /\ request' = "none"
  /\ UNCHANGED <<benchVars, state, entries, stop, step, jobVars, controls>>

\* A pipeline step reads the signal once more when it is through.
PipelineEnds(how) ==
  /\ step # 0 /\ Plan[step] = "pipeline" /\ jobs[step] \in {"running", "aborted"}
  /\ jobs' = [jobs EXCEPT ![step] = IF how = "ok" /\ @ = "aborted" THEN "cancelled" ELSE how]
  /\ UNCHANGED <<benchVars, panelVars, bench, reports, controls>>

PauseOp ==
  /\ JobRuns /\ Plan[step] = "tests" /\ op.id /\ controls < MaxControls
  /\ controls' = controls + 1
  /\ TestsPause
  /\ UNCHANGED <<panelVars, jobVars>>

ResumeOp(streams) ==
  /\ JobRuns /\ Plan[step] = "tests" /\ op.id /\ controls < MaxControls
  /\ controls' = controls + 1
  /\ TestsResume(streams)
  /\ UNCHANGED <<panelVars, jobVars>>

-----------------------------------------------------------------------------
ServerStep == RunStep \/ CaseStep \/ ReportStep \/ DiskFails \/ Reload \/ Crash

Next ==
  \/ Start \/ StepAnswered \/ Stop
  \/ ProgressArrives \/ CancelHandled \/ CancelAnswered
  \/ PipelineEnds("ok") \/ PipelineEnds("failed")
  \/ PauseOp \/ \E n \in 1 .. MaxStreams : ResumeOp(n)
  \/ ServerStep /\ UNCHANGED <<panelVars, jobVars, controls>>

Spec == Init /\ [][Next]_vars

\* Promises are resumed, requests are answered, and the engine returns: its
\* requests to the model have a timeout.  Nobody has to press anything.
FairSpec ==
  /\ Spec
  /\ WF_vars((RunStep \/ ReportStep) /\ UNCHANGED <<panelVars, jobVars, controls>>)
  /\ WF_vars(CaseStep /\ UNCHANGED <<panelVars, jobVars, controls>>)
  /\ WF_vars(StepAnswered) /\ WF_vars(CancelHandled) /\ WF_vars(CancelAnswered)
  /\ WF_vars(PipelineEnds("ok"))

-----------------------------------------------------------------------------
TypeOK ==
  /\ stage \in Ends \cup {"idle", "warmup", "begin", "cases", "end", "unlink", "abort"}
  /\ outcome \in {"none", "ok", "cancelled", "failed"}
  /\ at \in 0 .. Len(modes) /\ due \in 0 .. sched
  /\ control \in [paused : BOOLEAN, limit : 1 .. MaxStreams]
  /\ queue.attached \in BOOLEAN /\ IsSuffix(queue.waiting, TestCases)
  /\ \A c \in active : c.case \in Range(TestCases) /\ c.at \in {"engine", "report"}
  /\ Cardinality(active) = Cardinality({c.case : c \in active})
  /\ {aborted, failed, broken, stop} \subseteq BOOLEAN
  /\ rag \in {UserSettings, FileSettings} \cup DOMAIN modes
  /\ fresh \in 0 .. BatchSize /\ (stage # "dead" /\ ~broken => sched = done + Len(chain))
  /\ state \in {"idle", "running", "done", "cancelled", "failed"}
  /\ entries \in [Steps -> {"pending", "running", "done", "cancelled", "error", "skipped"}]
  /\ step \in 0 .. Len(Plan) /\ op \in [id : BOOLEAN, asked : BOOLEAN, ack : BOOLEAN]
  /\ request \in {"none", "sent", "accepted", "refused"}
  /\ jobs \in [Steps -> Ends \cup {"none", "running", "aborted"}]
  /\ bench \in 0 .. Len(Plan) /\ reports \subseteq Steps

(* Each mode of the text: its beginning, its results, its end, in order. *)
Results(text, m) == {c.x : c \in {d \in Range(text) : d.k = "result" /\ d.m = m}}
LastChunk(text) == text[Len(text)]
TailOf(text) == CASE LastChunk(text).k = "header" -> "no mode"
                  [] LastChunk(text).k = "begin" -> "no result"
                  [] LastChunk(text).k = "result" -> "results"
                  [] OTHER -> "between modes"

(* The report on disk can be read whenever anybody looks: the snapshot     *)
(* closes exactly the brackets its text has open, and no chunk is in it    *)
(* twice; the finished file has every case in every mode, and what each    *)
(* mode says of itself agrees; and unless the disk failed, a run that      *)
(* was cancelled or failed left every result it had in the snapshot.       *)
ReportIsWhole ==
  /\ disk.partial # NoSnapshot =>
       /\ disk.partial.tail = TailOf(disk.partial.text)
       /\ IsInjective(disk.partial.text)
  /\ disk.final # NoFile =>
       /\ IsInjective(disk.final)
       /\ \A m \in DOMAIN modes : /\ Results(disk.final, m) = Range(TestCases)
                                  /\ Chunk("end", m, Len(TestCases)) \in Range(disk.final)
  /\ stage \in {"cancelled", "failed"} /\ ~broken /\ disk.partial # NoSnapshot =>
       \A r \in answered : r[2] \in Results(disk.partial.text, r[1])

(* A case starts only when nobody holds the queue and there is room for    *)
(* it, whenever pause was pressed and whatever mode has begun since.       *)
(* Every mode begins with settings of its own, also after a reload of the  *)
(* configuration or a change of the search mode, and they stay those of    *)
(* the mode for as long as a case is with the engine - except that such a  *)
(* reload during the mode replaces them, and then the rest of the mode     *)
(* runs, and is reported, under settings that are not its own.             *)
CasesUnderControl ==
  [][\A c \in active' :
       c.at = "engine" =>
         /\ c \notin active => ~control.paused' /\ Cardinality(active') <= control.limit'
         /\ \/ rag' = at'
            \/ stage = "cases" /\ rag' = FileSettings /\ (rag = FileSettings \/ Reload)]_vars

(* What the list says of a step is what became of its job: done and a      *)
(* report, an error and a failure nobody asked for, a cancellation and no  *)
(* success; a step that was not reached never ran.  This is said of every  *)
(* step, also of a benchmark that others came after.  When the run is over *)
(* no job of it goes on, and the settings are the user's again, those the  *)
(* run found or those of a reload that came after it, and no mode's.       *)
EntriesTellTruth ==
  /\ \A i \in Steps :
       CASE entries[i] = "done" -> JobOf(i) = "ok" /\ (Plan[i] = "tests" => Reported(i))
         [] entries[i] = "error" -> JobOf(i) \in {"failed", "dead"} /\ ~stop
         [] entries[i] = "cancelled" -> JobOf(i) \in {"cancelled", "failed", "dead"} /\ stop
         [] entries[i] = "skipped" -> JobOf(i) = "none"
         [] OTHER -> TRUE
  /\ state \notin {"idle", "running"} =>
       stage = "dead" \/ (stage \in Ends \cup {"idle"} /\ rag \in {UserSettings, FileSettings})

(* A benchmark that was cancelled ends, also one that was paused.          *)
CancelEnds == aborted ~> Over
=============================================================================
