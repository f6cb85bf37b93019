------------------------------- MODULE Readiness -------------------------------
(***************************************************************************)
(* The gate in front of the search window (useReadiness.js,                *)
(* ReadinessGate.jsx): a check of the environment and of the vectors of    *)
(* the configured model, made of calls that may fail or be overtaken by a  *)
(* change of the configuration; and what a user may do about its verdict:  *)
(* download the model, build its vectors, cancel that, or go on without.   *)
(***************************************************************************)
EXTENDS Integers, FiniteSets

CONSTANTS
  Models,     \* models that may be configured
  NoModel,    \* none of them
  Ready,      \* those that are installed from the start
  Vectorized  \* those with complete vectors from the start

ASSUME ReadinessAssumption == NoModel \notin Models /\ Models # {} /\ Ready \subseteq Models /\ Vectorized \subseteq Ready

VARIABLES
  connected,          \* the bridge
  model,              \* the model in the configuration of the sidecar
  installed, vectors, \* the truth: models that are there, and have their vectors
  phase,    \* what the gate shows
  check,    \* inFlightRef with the call awaited and what it was answered
  known,    \* `vectors' of the hook: a model and whether it was complete
  skipped,  \* skippedModelRef
  grace,    \* STARTUP_GRACE_MS have passed since the window was opened
  pull,     \* the model that is downloaded
  job,      \* pipeline.vectorize in the sidecar; `mine': the gate awaits it
  during,   \* history: the models configured since the last check began
  missed    \* history: a change of the model since then that no check followed

told == <<during, missed>>
gateVars == <<phase, check, known, skipped, grace, pull, told>>
sidecarVars == <<connected, model, installed, vectors, job>>
readinessVars == <<gateVars, sidecarVars>>

NoCheck == [at |-> "idle", ready |-> FALSE, model |-> NoModel, complete |-> FALSE]
Unknown == [model |-> NoModel, complete |-> FALSE]
NoJob == [model |-> NoModel, cancelled |-> FALSE, mine |-> FALSE]
Waiting == {"starting", "failed"}
Settled == {"ready", "blocked", "novectors", "failed"}

\* A hook that has just been mounted, and its first check.
NewCheck == [NoCheck EXCEPT !.at = IF connected THEN "boot" ELSE "bootLost"]

InitReadiness ==
  /\ connected = FALSE /\ model \in Models
  /\ installed = Ready /\ vectors = Vectorized /\ job = NoJob
  /\ phase = "checking" /\ check = NewCheck
  /\ known = Unknown /\ skipped = NoModel /\ grace = FALSE
  /\ pull = NoModel /\ during = {model} /\ missed = FALSE

\* What is configured when a check begins is all that it can be about so far.
Begins == during' = {model} /\ missed' = FALSE

Mounts ==
  /\ phase' = "checking" /\ check' = NewCheck
  /\ known' = Unknown /\ skipped' = NoModel /\ grace' = FALSE
  /\ pull' = NoModel /\ Begins

\* Mutant: the build is still awaited by a gate that is gone.
UnmountsAwaiting ==
  /\ phase' = "none" /\ check' = NoCheck
  /\ known' = Unknown /\ skipped' = NoModel /\ grace' = FALSE
  /\ pull' = NoModel /\ Begins
  /\ UNCHANGED job

\* What the hook had begun goes on without it.
Unmounts ==
  /\ phase' = "none" /\ check' = NoCheck
  /\ known' = Unknown /\ skipped' = NoModel /\ grace' = FALSE
  /\ pull' = NoModel /\ Begins
  /\ job' = [job EXCEPT !.mine = FALSE]

Mounted == phase # "none"

-----------------------------------------------------------------------------
(* check()                                                                 *)

\* A check that is asked for during another one is dropped.
AskCheck ==
  IF check.at # "idle" THEN UNCHANGED <<phase, check, told>>
  ELSE phase' = "checking" /\ check' = NewCheck /\ Begins

\* checkAvailability: what the server of the models lists, and nothing when it
\* does not answer.
Installed(m) == m \in installed

\* lanceDbSummary and getModelReadiness: the table of the model is there and
\* has a row of every application.
Complete(m) == m \in vectors

\* getStats, of which the gate reads the model and whether it is complete.
Stats == [model |-> model, complete |-> Complete(model)]

BootRead ==
  /\ check.at = "boot"
  /\ check' = [check EXCEPT !.at = "bootRead", !.ready = Installed(model)]
  /\ UNCHANGED <<sidecarVars, phase, known, skipped, grace, pull, told>>

BootAnswered ==
  /\ check.at = "bootRead"
  /\ IF check.ready
       THEN /\ check' = [check EXCEPT !.at = IF connected THEN "stats" ELSE "statsLost"]
            /\ phase' = phase
       ELSE check' = NoCheck /\ phase' = "blocked"
  /\ UNCHANGED <<sidecarVars, known, skipped, grace, pull, told>>

StatsRead ==
  /\ check.at = "stats"
  /\ check' = [check EXCEPT !.at = "statsRead", !.model = Stats.model, !.complete = Stats.complete]
  /\ UNCHANGED <<sidecarVars, phase, known, skipped, grace, pull, told>>

\* Statistics that could not be had close nobody out.
StatsAnswered ==
  /\ check.at \in {"statsRead", "statsLost"}
  /\ LET seen == IF check.at = "statsLost" THEN Unknown
                 ELSE [model |-> check.model, complete |-> check.complete]
     IN /\ known' = seen
        /\ phase' = IF seen # Unknown /\ ~seen.complete /\ skipped # seen.model
                      THEN "novectors" ELSE "ready"
  /\ check' = NoCheck
  /\ UNCHANGED <<sidecarVars, skipped, grace, pull, told>>

\* The check failed: is it the start or a fault?
BridgeRead ==
  /\ check.at = "bootLost"
  /\ check' = [check EXCEPT !.at = "bridge", !.ready = connected]
  /\ UNCHANGED <<sidecarVars, phase, known, skipped, grace, pull, told>>

CheckFailed ==
  /\ check.at = "bridge"
  /\ phase' = IF check.ready \/ grace THEN "failed" ELSE "starting"
  /\ check' = NoCheck
  /\ UNCHANGED <<sidecarVars, known, skipped, grace, pull, told>>

\* Mutant: the gate waits for the event of the bridge instead of asking again.
RetryWhenTold ==
  /\ phase = "starting" /\ connected
  /\ AskCheck
  /\ UNCHANGED <<sidecarVars, known, skipped, grace, pull>>

Retry ==
  /\ phase = "starting"
  /\ AskCheck
  /\ UNCHANGED <<sidecarVars, known, skipped, grace, pull>>

GracePasses ==
  /\ phase \in {"starting", "checking"} /\ ~grace
  /\ grace' = TRUE
  /\ UNCHANGED <<sidecarVars, phase, check, known, skipped, pull, told>>

Recheck ==
  /\ phase \in {"failed", "blocked"} /\ pull = NoModel
  /\ AskCheck
  /\ UNCHANGED <<sidecarVars, known, skipped, grace, pull>>

-----------------------------------------------------------------------------
(* The bridge and its events                                               *)

Connect ==
  /\ ~connected
  /\ connected' = TRUE
  /\ IF phase \in Waiting
       THEN /\ phase' = "checking" /\ check' = [NoCheck EXCEPT !.at = "boot"] /\ Begins
       ELSE UNCHANGED <<phase, check, told>>
  /\ UNCHANGED <<model, installed, vectors, job, known, skipped, grace, pull>>

\* Every call that waits is answered with an error.
Lost(at) == CASE at \in {"boot", "bootRead"} -> "bootLost"
              [] at \in {"stats", "statsRead"} -> "statsLost"
              [] OTHER -> at

Disconnect ==
  /\ connected
  /\ connected' = FALSE
  /\ check' = [check EXCEPT !.at = Lost(@)]
  /\ pull' = NoModel
  /\ job' = [job EXCEPT !.mine = FALSE]
  /\ UNCHANGED <<model, installed, vectors, phase, known, skipped, grace>>

\* Mutant: only those who have no verdict yet ask again.
ToldToWaiting ==
  /\ IF phase \in Waiting THEN AskCheck ELSE UNCHANGED <<phase, check, told>>
  /\ UNCHANGED <<known, skipped, grace, pull>>

\* onConfigChanged: the event of the developer panel, dropped by a check in flight.
ConfigChanged ==
  /\ IF check.at # "idle" THEN missed' = TRUE /\ UNCHANGED <<phase, check, during>> ELSE AskCheck
  /\ UNCHANGED <<known, skipped, grace, pull>>

-----------------------------------------------------------------------------
(* What the gate offers                                                    *)

PullModel ==
  /\ phase = "blocked" /\ pull = NoModel /\ connected
  /\ pull' = model
  /\ UNCHANGED <<sidecarVars, phase, check, known, skipped, grace, told>>

\* ollama.pull: the stream of the download has ended without an error.
Pulled(m) == installed' = installed \cup {m}

PullEnds ==
  /\ pull # NoModel
  /\ Pulled(pull)
  /\ pull' = NoModel
  /\ AskCheck
  /\ UNCHANGED <<connected, model, vectors, job, known, skipped, grace>>

PullFails ==
  /\ pull # NoModel
  /\ pull' = NoModel
  /\ UNCHANGED <<sidecarVars, phase, check, known, skipped, grace, told>>

Building == job.mine

\* The write lock refuses a second vectorization, with an error to read.
BuildVectors ==
  /\ phase = "novectors" /\ ~Building /\ connected /\ job = NoJob
  /\ job' = [model |-> model, cancelled |-> FALSE, mine |-> TRUE]
  /\ UNCHANGED <<connected, model, installed, vectors, phase, check, known, skipped,
                 grace, pull, told>>

\* Possible once a frame of progress has brought the id.
CancelBuild ==
  /\ phase = "novectors" /\ Building
  /\ job' = [job EXCEPT !.cancelled = TRUE]
  /\ UNCHANGED <<connected, model, installed, vectors, gateVars>>

\* A cancelled build answers with a result, too, and so does one that had
\* nothing to index; the gate looks again.
BuildEnds ==
  /\ job # NoJob
  /\ \/ UNCHANGED vectors
     \/ ~job.cancelled /\ job.model \in installed /\ vectors' = vectors \cup {job.model}
  /\ job' = NoJob
  /\ IF job.mine
       THEN AskCheck
       ELSE UNCHANGED <<phase, check, told>>
  /\ UNCHANGED <<connected, model, installed, known, skipped, grace, pull>>

BuildFails ==
  /\ job # NoJob
  /\ job' = NoJob
  /\ UNCHANGED <<connected, model, installed, vectors, phase, check, known, skipped,
                 grace, pull, told>>

SkipVectors ==
  /\ phase = "novectors" /\ ~Building
  /\ skipped' = known.model /\ phase' = "ready"
  /\ UNCHANGED <<sidecarVars, check, known, grace, pull, told>>

CheckStep == \/ BootRead \/ BootAnswered \/ StatsRead \/ StatsAnswered
             \/ BridgeRead \/ CheckFailed \/ Retry \/ GracePasses
GateStep == \/ Recheck \/ PullModel \/ PullEnds \/ PullFails \/ BuildVectors
            \/ CancelBuild \/ BuildEnds \/ BuildFails \/ SkipVectors
=============================================================================
