--------------------------------- MODULE Desk ---------------------------------
(***************************************************************************)
(* The main window (App.jsx): one view at a time.  Leaving the search view *)
(* takes its hooks away, leaving the developer panel stops the sampler of  *)
(* system metrics; what either has begun goes on.  The panel changes the   *)
(* configuration and tells the search view (ConfigSection.jsx, ipc.js),    *)
(* which may be gone, or new and in the middle of its first check.         *)
(***************************************************************************)
EXTENDS Readiness, SearchWindow

CONSTANTS
  MaxSwitches,  \* bound: changes of the view
  MaxChanges,   \* bound: changes of the model
  MaxDrops,     \* bound: losses of the connection
  MaxEvents     \* bound: all of these and the questions together

ASSUME DeskAssumption == MaxSwitches \in Nat /\ MaxChanges \in Nat /\ MaxDrops \in Nat /\ MaxEvents \in Nat

VARIABLES
  view, switches,
  change,     \* config.updateModels or config.reload under way
  changes, drops,
  measuring,  \* IS_MEASURING
  samplers    \* the threads start_metrics has spawned

deskVars == <<view, switches, change, changes, drops, measuring, samplers>>
vars == <<readinessVars, searchVars, deskVars>>

NoChange == [to |-> NoModel, at |-> "none", tell |-> FALSE]
Threads == 1 .. MaxSwitches

Init ==
  /\ InitReadiness /\ InitSearch
  /\ view = "ask" /\ switches = 0 /\ change = NoChange /\ changes = 0 /\ drops = 0
  /\ measuring = FALSE /\ samplers = [t \in Threads |-> "none"]

Within == switches + changes + drops + asks < MaxEvents

GateOpen == Mounted /\ ~dismissed /\ phase # "ready"

-----------------------------------------------------------------------------
(* metrics.rs                                                              *)

\* start_metrics: the flag may be up again before the last thread has seen it down.
StartMetrics ==
  /\ measuring' = TRUE
  /\ samplers' = IF measuring THEN samplers
                 ELSE LET t == CHOOSE t \in Threads : samplers[t] = "none"
                      IN [samplers EXCEPT ![t] = "running"]

\* A thread looks at the flag once an interval, and goes on while it is up.
Sample(t) ==
  /\ samplers[t] = "running" /\ ~measuring
  /\ samplers' = [samplers EXCEPT ![t] = "over"]
  /\ UNCHANGED <<readinessVars, searchVars, view, switches, change, changes, drops, measuring>>

-----------------------------------------------------------------------------
(* App                                                                     *)

Show(v) ==
  /\ v # view /\ switches < MaxSwitches /\ Within
  /\ view' = v /\ switches' = switches + 1
  /\ IF v = "ask" THEN Mounts /\ UNCHANGED job /\ Renewed
     ELSE IF view = "ask" THEN Unmounts /\ Renewed
     ELSE UNCHANGED <<gateVars, job, searchVars>>
  /\ IF v = "dev" THEN StartMetrics
     ELSE measuring' = FALSE /\ UNCHANGED samplers
  /\ UNCHANGED <<connected, model, installed, vectors, change, changes, drops>>

\* A model is chosen (tell), or the file was edited and is read again.
AskChange(m, tell) ==
  /\ view = "dev" /\ change = NoChange /\ changes < MaxChanges /\ Within /\ connected
  /\ change' = [to |-> m, at |-> "asked", tell |-> tell] /\ changes' = changes + 1
  /\ UNCHANGED <<readinessVars, searchVars, view, switches, drops, measuring, samplers>>

\* Nothing comes after config.reload, nor after a change whose caller was
\* answered with the loss of the connection.
ChangeHandled ==
  /\ change.at = "asked"
  /\ model' = change.to /\ during' = during \cup {change.to}
  /\ IF change.tell THEN change' = [change EXCEPT !.at = "handled"] /\ UNCHANGED missed
     ELSE change' = NoChange /\ missed' = (missed \/ Mounted)
  /\ UNCHANGED <<connected, installed, vectors, job, phase, check, known, skipped, grace, pull,
                 searchVars, view, switches, changes, drops, measuring, samplers>>

\* The file cannot be written or read, or the request was lost on its way.
ChangeRefused ==
  /\ change.at = "asked"
  /\ change' = NoChange
  /\ UNCHANGED <<readinessVars, searchVars, view, switches, changes, drops, measuring, samplers>>

\* config.get has been answered: the event, which only a mounted hook hears.
ChangeTold ==
  /\ change.at = "handled"
  /\ change' = NoChange
  /\ IF Mounted THEN ConfigChanged ELSE UNCHANGED gateVars
  /\ UNCHANGED <<sidecarVars, searchVars, view, switches, changes, drops, measuring, samplers>>

\* The awaited config.updateModels or config.get rejects: the panel does not
\* come to the event, whether the sidecar has changed the model or not.
BridgeDrops ==
  /\ drops < MaxDrops /\ Within /\ drops' = drops + 1
  /\ Disconnect /\ QueriesLost
  /\ IF change.at = "handled"
       THEN change' = NoChange /\ missed' = (missed \/ Mounted)
       ELSE change' = [change EXCEPT !.tell = FALSE] /\ UNCHANGED missed
  /\ UNCHANGED <<during, view, switches, changes, measuring, samplers>>

\* The keys work behind the gate, too, with what was asked and is still there.
Ask ==
  /\ Mounted /\ Within /\ (GateOpen => search.asked # 0)
  /\ StartSearch(connected)
  /\ UNCHANGED <<readinessVars, deskVars>>

User ==
  /\ Mounted
  /\ \/ Cancel \/ ClearAll
     \/ phase \in {"failed", "blocked"} /\ Dismiss
  /\ UNCHANGED <<readinessVars, deskVars>>

Presents == ~GateOpen /\ FinishPresentation /\ UNCHANGED <<readinessVars, deskVars>>

Arrives ==
  /\ \E q \in 1 .. MaxAsks : Progress(q) \/ Answered(q) \/ QueryFails(q)
  /\ UNCHANGED <<readinessVars, deskVars>>

Ends == \E q \in 1 .. MaxAsks : (Answered(q) \/ QueryFails(q)) /\ UNCHANGED <<readinessVars, deskVars>>

-----------------------------------------------------------------------------
Checks == CheckStep /\ UNCHANGED <<searchVars, deskVars>>

Next ==
  \/ Checks
  \/ (GateStep \/ Connect) /\ UNCHANGED <<searchVars, deskVars>>
  \/ BridgeDrops \/ Ask \/ User \/ Presents \/ Arrives
  \/ \E v \in {"ask", "dev", "other"} : Show(v)
  \/ \E m \in Models, tell \in BOOLEAN : AskChange(m, tell)
  \/ ChangeHandled \/ ChangeRefused \/ ChangeTold
  \/ \E t \in Threads : Sample(t)

Spec == Init /\ [][Next]_vars

\* Calls are answered, timers fire, threads are scheduled.  The bridge need
\* not come up, and the user need not do anything.
FairSpec ==
  /\ Spec
  /\ WF_vars(Checks) /\ WF_vars(GracePasses /\ UNCHANGED <<searchVars, deskVars>>)
  /\ WF_vars(Ends) /\ WF_vars(Presents)
  /\ \A t \in Threads : WF_vars(Sample(t))

-----------------------------------------------------------------------------
TypeOK ==
  /\ {connected, grace, missed, dismissed, measuring} \subseteq BOOLEAN
  /\ model \in Models /\ installed \subseteq Models /\ vectors \subseteq installed /\ during \subseteq Models
  /\ phase \in Settled \cup {"none", "starting", "checking"}
  /\ check.at \in {"idle", "boot", "bootRead", "bootLost", "stats", "statsRead", "statsLost", "bridge"}
  /\ (phase = "checking") = (check.at # "idle")
  /\ known.model \in Models \cup {NoModel} /\ skipped \in Models \cup {NoModel}
  /\ pull \in Models \cup {NoModel}
  /\ job.model \in Models \cup {NoModel} /\ (job.mine => Mounted /\ connected)
  /\ asks \in 0 .. MaxAsks
  /\ search.run \in {0, search.asked} /\ search.ref = search.asked /\ search.asked <= asks
  /\ search.phase \in {"idle", "searching", "done", "error"}
  /\ shown \in {"idle", "searching", "done", "error"}
  /\ view \in {"ask", "dev", "other"} /\ Mounted = (view = "ask") /\ measuring = (view = "dev")
  /\ samplers \in [Threads -> {"none", "running", "over"}]

(* What is on the screen as an answer answers the question that stands     *)
(* above it, the last that was asked; and the id that a cancellation would *)
(* name is that of the search in progress, whatever frames and answers of  *)
(* earlier searches arrive meanwhile (useSearch.js:60-68, 116).            *)
SearchIsItsOwn ==
  /\ shown = "done" => search.answer # 0 /\ search.answer = search.asked /\ search.asked = asks
  /\ search.job # 0 => search.job = asks

(* When the gate lets a user through, its verdict is true of what was      *)
(* configured while it was reached: one of the models configured since the *)
(* check began is there, and the one the statistics were about has all of  *)
(* its vectors, unless the user has gone on without them knowingly or the  *)
(* statistics could not be had (useReadiness.js:130-160).  Only that one   *)
(* model was configured, so that the verdict is of now, except for changes *)
(* under way and those no check followed (`missed'): config.reload sends   *)
(* no event, the loss of the connection takes it away                      *)
(* (ConfigSection.jsx:60-66), and a check in flight drops it               *)
(* (useReadiness.js:131).  All three are against ipc.js:49-52, by which    *)
(* the gate must check anew: an open gate may then stay open for a model   *)
(* without vectors.                                                        *)
VerdictIsOfItsCheck ==
  phase = "ready" =>
    /\ \E m \in during : m \in installed
    /\ known = Unknown \/ (known.model \in during /\ (known.model \in vectors \/ skipped = known.model))
    /\ ~missed /\ change.at # "handled" => during = {model}

(* A gate that asks comes to a verdict, also when the sidecar never comes  *)
(* up; a search that nobody leaves shows its end; and the samplers end     *)
(* with the panel they were started for, unless it is opened again.        *)
EverythingSettles ==
  /\ Mounted /\ phase \in {"starting", "checking"} ~> ~Mounted \/ phase \in Settled
  /\ shown = "searching" ~> shown # "searching" \/ GateOpen
  /\ ~measuring ~> measuring \/ \A t \in Threads : samplers[t] \in {"none", "over"}
=============================================================================
