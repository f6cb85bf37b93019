------------------------------ MODULE BenchmarkRun ------------------------------
(***************************************************************************)
(* A benchmark inside the sidecar: runRagTests with its matrix of modes,   *)
(* the queue of cases that can be paused and cancelled, and the report     *)
(* that is written to disk while the run goes on (test-rag.js,             *)
(* benchmark-matrix.js, test-queue.js, report-stream.js).                  *)
(*                                                                         *)
(* Three things meet here, none of which waits for the others: the cases,  *)
(* several at a time; the chain of promises that writes the report; and    *)
(* the RPC methods that pause, resume and cancel.  The modes are told to   *)
(* the engine through the configuration everybody shares.                  *)
(***************************************************************************)
EXTENDS Integers, FiniteSets, Sequences, SequencesExt

CONSTANTS
  TestCases,   \* the cases, in order
  AxisNames,   \* the axes a configuration or the panel may name
  Multiplied,  \* those that buildModes multiplies
  ConfigAxes,  \* axis -> its values in the configuration
  Known,       \* axis -> the values the program accepts
  MaxModes,    \* rag.benchmark.maxModes; 0 is no limit
  BatchSize,   \* results in one block of the report
  MaxStreams,  \* bound: the concurrency a user asks for
  Env          \* "disk", "throw", "reload", "crash"

ASSUME BenchmarkAssumption ==
  /\ TestCases # <<>> /\ IsInjective(TestCases) /\ TestCases \in Seq(Range(TestCases))
  /\ Multiplied \subseteq AxisNames /\ IsFiniteSet(AxisNames)
  /\ \A a \in AxisNames : ConfigAxes[a] \in Seq(Range(ConfigAxes[a]))
  /\ MaxModes \in Nat /\ BatchSize \in Nat \ {0} /\ MaxStreams \in Nat \ {0}
  /\ Env \subseteq {"disk", "throw", "reload", "crash"}

VARIABLES
  stage,    \* the await runRagTests stands at, or how the run ended
  outcome,  \* how it will end once the report is put away
  modes, at,   \* the modes of the run; the current one
  due,      \* the block of the report the run waits for
  control,  \* createTestRunControl: paused, limit
  queue,    \* PQueue: what it holds, and what may start
  active,   \* the cases that were started and have not returned
  aborted, failed,  \* the signal; firstError
  rag,      \* config.rag: the settings cases read
  head,     \* currentMode, firstMode and firstResult of the report
  buf, fresh,  \* chunkBuffer, bufferedResults
  chain,    \* blocks still to be written and published, the first in progress
  sched, done,  \* how many blocks were chained, and how many are through
  broken,   \* the chain is rejected
  disk,     \* working file, snapshot, finished report
  answered  \* history: the results of this run, as <<mode, case>>

reportVars == <<head, buf, fresh, chain, sched, done, broken, disk>>
queueVars == <<control, queue, active, aborted, failed>>
benchVars == <<stage, outcome, modes, at, due, queueVars, rag, reportVars, answered>>

NoFile == <<>>
NoSnapshot == [text |-> <<>>, tail |-> "none"]
NewQueue == [waiting |-> <<>>, attached |-> FALSE]
NewHead == [mode |-> 0, firstMode |-> TRUE, firstResult |-> TRUE]
NewFiles == [working |-> NoFile, partial |-> NoSnapshot, final |-> NoFile]
UserSettings == 0      \* what config.rag holds; a mode is its number
FileSettings == -1
Ends == {"ok", "cancelled", "failed", "dead"}
Over == stage \in Ends
Running == stage \notin Ends \cup {"idle"}

Chunk(k, m, x) == [k |-> k, m |-> m, x |-> x]
HeaderChunk == Chunk("header", 0, 0)

InitBench ==
  /\ stage = "idle" /\ outcome = "none" /\ modes = <<>> /\ at = 0 /\ due = 0
  /\ control = [paused |-> FALSE, limit |-> 1]
  /\ queue = NewQueue /\ active = {} /\ aborted = FALSE /\ failed = FALSE
  /\ rag = UserSettings
  /\ head = NewHead
  /\ buf = <<>> /\ fresh = 0 /\ chain = <<>> /\ sched = 0 /\ done = 0
  /\ broken = FALSE
  /\ disk = NewFiles
  /\ answered = {}

-----------------------------------------------------------------------------
(* The matrix                                                              *)

\* An axis of the panel replaces that of the configuration as a whole.
ResolveAxes(over) ==
  [a \in AxisNames |-> IF a \in DOMAIN over THEN over[a] ELSE ConfigAxes[a]]

AxesFit(axes) ==
  \A a \in AxisNames : /\ axes[a] # <<>> /\ IsInjective(axes[a])
                       /\ Range(axes[a]) \subseteq Known[a]

\* The product of six of the eight axes; their order is no concern of a run.
BuildModes(axes) ==
  SetToSeq({f \in [Multiplied -> UNION {Known[a] : a \in Multiplied}] :
              \A a \in Multiplied : f[a] \in Range(axes[a])})

Exceeds(ms) == MaxModes > 0 /\ Len(ms) > MaxModes

-----------------------------------------------------------------------------
(* The report: what is pushed, and what of it is cut off and chained       *)

\* What closes the open brackets of the text up to now.
SnapshotTail(h) ==
  IF h.mode = 0 THEN IF h.firstMode THEN "no mode" ELSE "between modes"
  ELSE IF h.firstResult THEN "no result" ELSE "results"

\* Leaves `text' in the buffer, or cuts it off with its tail as a block.  On
\* a rejected chain the block is lost.
Pushed(text, h, force, results) ==
  IF text # <<>> /\ (force \/ results >= BatchSize)
    THEN /\ chain' = IF broken THEN chain
                     ELSE Append(chain, [text |-> text, tail |-> SnapshotTail(h), step |-> "write"])
         /\ sched' = sched + 1 /\ buf' = <<>> /\ fresh' = 0
    ELSE buf' = text /\ fresh' = results /\ UNCHANGED <<chain, sched>>

Flushed(d) == done >= d
Rejected(d) == broken /\ done < d

WriteChain ==
  /\ chain # <<>> /\ Head(chain).step = "write"
  /\ disk' = [disk EXCEPT !.working = @ \o Head(chain).text]
  /\ chain' = [chain EXCEPT ![1].step = "publish"]
  /\ UNCHANGED <<stage, outcome, modes, at, due, queueVars, rag, head, buf,
                 fresh, sched, done, broken, answered>>

\* Mutant: the tail is made when the snapshot is.
PublishesLate ==
  /\ chain # <<>> /\ Head(chain).step = "publish"
  /\ disk' = [disk EXCEPT !.partial = [text |-> disk.working, tail |-> SnapshotTail(head)]]
  /\ chain' = Tail(chain) /\ done' = done + 1
  /\ UNCHANGED <<stage, outcome, modes, at, due, queueVars, rag, head, buf,
                 fresh, sched, broken, answered>>

\* copyFile, appendFile, rename: a reader has the old snapshot or the new.
PublishChain ==
  /\ chain # <<>> /\ Head(chain).step = "publish"
  /\ disk' = [disk EXCEPT !.partial = [text |-> disk.working, tail |-> Head(chain).tail]]
  /\ chain' = Tail(chain) /\ done' = done + 1
  /\ UNCHANGED <<stage, outcome, modes, at, due, queueVars, rag, head, buf,
                 fresh, sched, broken, answered>>

DiskFails ==
  /\ "disk" \in Env /\ chain # <<>>
  /\ broken' = TRUE /\ chain' = <<>>
  /\ UNCHANGED <<stage, outcome, modes, at, due, queueVars, rag, head, buf,
                 fresh, sched, done, disk, answered>>

-----------------------------------------------------------------------------
(* The queue                                                               *)

\* Mutant: what is started stays at the head of the queue.
StartsAgain(waiting, running, c) ==
  IF c.paused \/ Cardinality(running) >= c.limit \/ waiting = <<>>
    THEN [waiting |-> waiting, active |-> running]
    ELSE [waiting |-> waiting,
          active |-> running \cup {[case |-> Head(waiting), at |-> "engine", due |-> 0]}]

\* PQueue starts what it may at once, whenever it may start anything.
Starts(waiting, running, c) ==
  LET room == c.limit - Cardinality(running)
      n == IF c.paused \/ room < 0 THEN 0
           ELSE IF room < Len(waiting) THEN room ELSE Len(waiting)
  IN [waiting |-> SubSeq(waiting, n + 1, Len(waiting)),
      active |-> running \cup {[case |-> waiting[i], at |-> "engine", due |-> 0] : i \in 1 .. n}]

QueueRuns(waiting, running, c) ==
  LET s == Starts(waiting, running, c)
  IN queue' = [waiting |-> s.waiting, attached |-> TRUE] /\ active' = s.active

\* Mutant: every queue starts running.
AttachRunning ==
  /\ LET s == Starts(TestCases, {}, [control EXCEPT !.paused = FALSE])
     IN /\ active' = s.active
        /\ queue' = [waiting |-> IF aborted THEN <<>> ELSE s.waiting, attached |-> TRUE]

\* runTestQueue: the cases are added to a queue that stands still, which the
\* control then starts or not.  An abort from before takes effect only now.
Attach ==
  /\ LET s == Starts(TestCases, {}, control)
     IN /\ active' = s.active
        /\ queue' = [waiting |-> IF aborted THEN <<>> ELSE s.waiting, attached |-> TRUE]

Detached == queue' = NewQueue
Idle == queue.attached /\ queue.waiting = <<>> /\ active = {}

-----------------------------------------------------------------------------
(* runRagTests                                                             *)

\* tests.run: a control, a job and a report of its own, in files named after
\* the hour.  Of a run before it only config.rag is still there.
TestsRun(over, streams) ==
  /\ stage \in {"idle", "ok", "cancelled", "failed"}
  /\ stage' = "warmup" /\ outcome' = "none"
  /\ control' = [paused |-> FALSE, limit |-> streams]
  /\ modes' = IF AxesFit(ResolveAxes(over)) THEN BuildModes(ResolveAxes(over)) ELSE <<>>
  /\ at' = 0 /\ due' = 0 /\ answered' = {}
  /\ queue' = NewQueue /\ active' = {} /\ aborted' = FALSE /\ failed' = FALSE
  /\ head' = NewHead /\ buf' = <<>> /\ fresh' = 0 /\ chain' = <<>> /\ sched' = 0
  /\ done' = 0 /\ broken' = FALSE /\ disk' = NewFiles
  /\ UNCHANGED rag

\* The finally of runRagTests before and after the report is closed: the
\* settings go back, then the report is put away.
Finally(how) ==
  /\ rag' = UserSettings /\ outcome' = how
  /\ IF how = "ok" \/ sched = 0 \/ disk.final # NoFile
       THEN stage' = how /\ UNCHANGED <<buf, fresh, chain, sched, due>>
       ELSE /\ stage' = "abort" /\ Pushed(buf, head, TRUE, fresh) /\ due' = sched'

BeginMode(i, text, h) ==
  /\ stage' = "begin" /\ at' = i
  /\ head' = [mode |-> i, firstMode |-> FALSE, firstResult |-> TRUE]
  /\ Pushed(Append(text, Chunk("begin", i, 0)), head', TRUE, 0)
  /\ due' = sched'

\* The models are warm; a matrix that is wrong or too large ends the run.  The
\* header is chained by itself, before the first mode.
Warmed ==
  /\ stage = "warmup" /\ modes # <<>> /\ ~Exceeds(modes)
  /\ stage' = "begin" /\ at' = 1
  /\ head' = [mode |-> 1, firstMode |-> FALSE, firstResult |-> TRUE]
  /\ chain' = <<[text |-> <<HeaderChunk>>, tail |-> SnapshotTail(head), step |-> "write"],
                [text |-> <<Chunk("begin", 1, 0)>>, tail |-> SnapshotTail(head'), step |-> "write"]>>
  /\ sched' = 2 /\ due' = 2
  /\ UNCHANGED <<outcome, modes, queueVars, rag, buf, fresh, done, broken, disk, answered>>

WarmupFails ==
  /\ stage = "warmup" /\ (modes = <<>> \/ Exceeds(modes) \/ "throw" \in Env)
  /\ Finally("failed")
  /\ UNCHANGED <<modes, at, queueVars, head, done, broken, disk, answered>>

ModeBegins ==
  /\ stage = "begin" /\ Flushed(due)
  /\ rag' = at
  /\ Attach
  /\ stage' = "cases"
  /\ UNCHANGED <<outcome, modes, at, due, control, aborted, failed, reportVars, answered>>

\* onIdle: what was started has come back, and only then the abort or the
\* first error is raised.
QueueThrows ==
  /\ stage = "cases" /\ Idle /\ (aborted \/ failed)
  /\ Detached
  /\ Finally(IF aborted THEN "cancelled" ELSE "failed")
  /\ UNCHANGED <<modes, at, control, active, aborted, failed, head, done, broken, disk, answered>>

ModeEnds ==
  /\ stage = "cases" /\ Idle /\ ~aborted /\ ~failed
  /\ Detached
  /\ stage' = "end" /\ head' = [head EXCEPT !.mode = 0]
  /\ Pushed(Append(buf, Chunk("end", at, Cardinality({r \in answered : r[1] = at}))),
            head', TRUE, fresh)
  /\ due' = sched'
  /\ UNCHANGED <<outcome, modes, at, control, active, aborted, failed, rag, done,
                 broken, disk, answered>>

NextMode ==
  /\ stage = "end" /\ Flushed(due) /\ at < Len(modes)
  /\ BeginMode(at + 1, buf, head)
  /\ UNCHANGED <<outcome, modes, queueVars, rag, done, broken, disk, answered>>

\* close(): the buffer is empty, the footer goes to the file itself.
Closes ==
  /\ stage = "end" /\ Flushed(due) /\ at = Len(modes)
  /\ disk' = [disk EXCEPT !.final = Append(disk.working, Chunk("footer", 0, 0)),
                          !.working = NoFile]
  /\ stage' = "unlink"
  /\ UNCHANGED <<outcome, modes, at, due, queueVars, rag, head, buf, fresh, chain,
                 sched, done, broken, answered>>

\* The footer, the rename or, with the report in its place, the removal of the
\* snapshot fails.  A report that close() was called on is not put away.
CloseFails ==
  /\ stage = "end" /\ Flushed(due) /\ at = Len(modes) /\ "disk" \in Env
  /\ rag' = UserSettings /\ stage' = "failed" /\ outcome' = "failed"
  /\ UNCHANGED <<modes, at, due, queueVars, reportVars, answered>>

UnlinkFails ==
  /\ stage = "unlink" /\ "disk" \in Env
  /\ rag' = UserSettings /\ stage' = "failed" /\ outcome' = "failed"
  /\ UNCHANGED <<modes, at, due, queueVars, reportVars, answered>>

Unlinks ==
  /\ stage = "unlink"
  /\ disk' = [disk EXCEPT !.partial = NoSnapshot]
  /\ Finally("ok")
  /\ UNCHANGED <<modes, at, queueVars, head, done, broken, answered>>

ReportFails ==
  /\ stage \in {"begin", "end"} /\ Rejected(due)
  /\ Finally("failed")
  /\ UNCHANGED <<modes, at, queueVars, head, done, broken, disk, answered>>

\* abort() of the report.  Its own error replaces the one the run ended with.
PutAway ==
  /\ stage = "abort" /\ (Flushed(due) \/ broken)
  /\ stage' = IF Flushed(due) THEN outcome ELSE "failed"
  /\ disk' = IF Flushed(due) THEN [disk EXCEPT !.working = NoFile] ELSE disk
  /\ UNCHANGED <<outcome, modes, at, due, queueVars, rag, head, buf, fresh, chain,
                 sched, done, broken, answered>>

\* The stream does not end, or one of the two removals fails.
PutAwayFails ==
  /\ stage = "abort" /\ Flushed(due) /\ "disk" \in Env
  /\ stage' = "failed"
  /\ disk' \in {disk, [disk EXCEPT !.working = NoFile]}
  /\ UNCHANGED <<outcome, modes, at, due, queueVars, rag, head, buf, fresh, chain,
                 sched, done, broken, answered>>

-----------------------------------------------------------------------------
(* A case                                                                  *)

\* processQuery returned; the counters and addResult follow without an await.
Answered(c) ==
  /\ c \in active /\ c.at = "engine"
  /\ answered' = answered \cup {<<at, c.case>>}
  /\ head' = [head EXCEPT !.firstResult = FALSE]
  /\ Pushed(Append(buf, Chunk("result", at, c.case)), head', FALSE, fresh + 1)
  /\ active' = (active \ {c}) \cup {[c EXCEPT !.at = "report", !.due = sched']}
  /\ UNCHANGED <<stage, outcome, modes, at, due, control, queue, aborted, failed,
                 rag, done, broken, disk>>

\* The queue is emptied by the rejection of the case, before which it may have
\* started one more in its place.
CaseThrows(c) ==
  /\ c \in active
  /\ \/ c.at = "engine" /\ "throw" \in Env
     \/ c.at = "report" /\ Rejected(c.due)
  /\ active' \in {active \ {c}, Starts(queue.waiting, active \ {c}, control).active}
  /\ failed' = TRUE
  /\ queue' = [queue EXCEPT !.waiting = <<>>]
  /\ UNCHANGED <<stage, outcome, modes, at, due, control, aborted, rag, reportVars,
                 answered>>

CaseReturns(c) ==
  /\ c \in active /\ c.at = "report" /\ Flushed(c.due)
  /\ QueueRuns(queue.waiting, active \ {c}, control)
  /\ UNCHANGED <<stage, outcome, modes, at, due, control, aborted, failed, rag,
                 reportVars, answered>>

-----------------------------------------------------------------------------
(* tests.pause, tests.resume, job.cancel; config.reload; the end           *)

TestsPause ==
  /\ Running
  /\ control' = [control EXCEPT !.paused = TRUE]
  /\ UNCHANGED <<stage, outcome, modes, at, due, queue, active, aborted, failed, rag,
                 reportVars, answered>>

TestsResume(streams) ==
  /\ Running
  /\ control' = [paused |-> FALSE, limit |-> streams]
  /\ IF queue.attached THEN QueueRuns(queue.waiting, active, control')
                       ELSE UNCHANGED <<queue, active>>
  /\ UNCHANGED <<stage, outcome, modes, at, due, aborted, failed, rag, reportVars, answered>>

\* Mutant: the signal is looked at between the cases only.
CancelWaits ==
  /\ Running
  /\ aborted' = TRUE
  /\ UNCHANGED <<stage, outcome, modes, at, due, control, queue, active, failed, rag,
                 reportVars, answered>>

JobCancel ==
  /\ Running
  /\ aborted' = TRUE
  /\ queue' = [queue EXCEPT !.waiting = <<>>]
  /\ UNCHANGED <<stage, outcome, modes, at, due, control, active, failed, rag,
                 reportVars, answered>>

\* config.reload and a change of the search mode replace config.rag.
Reload ==
  /\ Running /\ "reload" \in Env
  /\ rag' = FileSettings
  /\ UNCHANGED <<stage, outcome, modes, at, due, queueVars, reportVars, answered>>

Crash ==
  /\ Running /\ "crash" \in Env
  /\ stage' = "dead" /\ active' = {} /\ chain' = <<>>
  /\ UNCHANGED <<outcome, modes, at, due, control, queue, aborted, failed, rag,
                 head, buf, fresh, sched, done, broken, disk, answered>>

RunStep == \/ Warmed \/ WarmupFails \/ ModeBegins \/ QueueThrows \/ ModeEnds
           \/ NextMode \/ Closes \/ CloseFails \/ UnlinkFails \/ Unlinks
           \/ ReportFails \/ PutAway \/ PutAwayFails
CaseStep == \E c \in active : Answered(c) \/ CaseThrows(c) \/ CaseReturns(c)
ReportStep == WriteChain \/ PublishChain
=============================================================================
