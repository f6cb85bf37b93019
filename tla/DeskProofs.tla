------------------------------- MODULE DeskProofs -------------------------------
(***************************************************************************)
(* SearchIsItsOwn, VerdictIsOfItsCheck and the types for any number of          *)
(* questions, models, views and changes, with or without fairness.         *)
(***************************************************************************)
EXTENDS Desk, FiniteSetTheorems, TLAPS

-----------------------------------------------------------------------------
(* The search                                                              *)

\* All that the hook holds is about one question, the last one asked.
SearchInv ==
  /\ search = [f \in {"run", "active", "ref", "job", "phase", "asked", "answer"} |-> search[f]]
  /\ asks \in Nat
  /\ search.ref = search.asked /\ search.asked \in {0, asks}
  /\ search.run # 0 => search.run = search.asked /\ search.asked = asks
  /\ search.active => search.run # 0
  /\ search.answer # 0 => search.answer = search.asked /\ search.asked = asks
  /\ search.phase = "done" => search.answer # 0
  /\ search.job # 0 => search.job = asks
  /\ shown = "done" => search.answer # 0

SearchAction ==
  \/ StartSearch(connected)
  \/ \E q \in 1 .. MaxAsks : Progress(q) \/ Answered(q) \/ QueryFails(q)
  \/ QueriesLost \/ Cancel \/ ClearAll \/ FinishPresentation \/ Dismiss \/ Renewed
  \/ UNCHANGED searchVars

LEMMA SearchInit == InitSearch => SearchInv
<1> QED BY DEF InitSearch, SearchInv, Fresh

LEMMA SearchKeeps ==
  ASSUME SearchInv, SearchAction
  PROVE  SearchInv'
<1>1. CASE StartSearch(connected)
  BY <1>1 DEF StartSearch, SearchInv
<1>2. ASSUME NEW q \in 1 .. MaxAsks, Progress(q)
      PROVE  SearchInv'
  BY <1>2 DEF Progress, SearchInv
<1>3. ASSUME NEW q \in 1 .. MaxAsks, Answered(q)
      PROVE  SearchInv'
  <2>1. CASE search.run = q
    <3>1. q # 0 /\ search.run # 0 /\ search.asked = q /\ asks = q /\ search.ref = q
      BY <2>1 DEF SearchInv
    <3>2. /\ search' = [search EXCEPT !.active = FALSE, !.phase = "done", !.answer = q]
          /\ UNCHANGED <<asks, shown>>
      BY <1>3, <2>1 DEF Answered, Awaited
    <3>3. /\ search'.run = q /\ search'.ref = q /\ search'.asked = q /\ search'.answer = q
          /\ search'.active = FALSE /\ search'.job = search.job
          /\ search' = [f \in {"run", "active", "ref", "job", "phase", "asked", "answer"} |-> search'[f]]
      BY <2>1, <3>1, <3>2 DEF SearchInv
    <3> QED BY <3>1, <3>2, <3>3 DEF SearchInv
  <2>2. CASE search.run # q
    BY <1>3, <2>2 DEF Answered, Awaited, SearchInv
  <2> QED BY <2>1, <2>2
<1>4. ASSUME NEW q \in 1 .. MaxAsks, QueryFails(q)
      PROVE  SearchInv'
  BY <1>4 DEF QueryFails, Awaited, SearchInv
<1>5. CASE QueriesLost
  BY <1>5 DEF QueriesLost, SearchInv
<1>6. CASE Cancel
  BY <1>6 DEF Cancel, SearchInv
<1>7. CASE ClearAll \/ Renewed
  BY <1>7 DEF ClearAll, Renewed, Fresh, SearchInv
<1>8. CASE FinishPresentation \/ Dismiss \/ UNCHANGED searchVars
  BY <1>8 DEF FinishPresentation, Dismiss, searchVars, SearchInv
<1> QED BY <1>1, <1>2, <1>3, <1>4, <1>5, <1>6, <1>7, <1>8 DEF SearchAction

LEMMA SearchPart ==
  ASSUME [Next]_vars
  PROVE  SearchAction
<1>1. CASE Checks \/ ((GateStep \/ Connect) /\ UNCHANGED <<searchVars, deskVars>>)
           \/ ChangeHandled \/ ChangeRefused \/ ChangeTold
           \/ (\E m \in Models, tell \in BOOLEAN : AskChange(m, tell))
           \/ (\E t \in Threads : Sample(t)) \/ UNCHANGED vars
  BY <1>1 DEF Checks, ChangeHandled, ChangeRefused, ChangeTold, AskChange, Sample, vars, SearchAction
<1>2. CASE BridgeDrops \/ User \/ Presents \/ Arrives
  BY <1>2 DEF BridgeDrops, User, Presents, Arrives, SearchAction
<1>3. CASE Ask
  BY <1>3 DEF Ask, SearchAction
<1>4. ASSUME NEW v \in {"ask", "dev", "other"}, Show(v)
      PROVE  SearchAction
  BY <1>4 DEF Show, SearchAction
<1> QED BY <1>1, <1>2, <1>3, <1>4 DEF Next

\* An answer on the screen is that of the question above it, and the id that
\* a cancellation would name is that of the search in progress, however many
\* searches were left or replaced and in whatever order their answers come.
THEOREM AnswersAreOwn == Spec => []SearchIsItsOwn
<1>1. Init => SearchInv
  BY SearchInit DEF Init
<1>2. SearchInv /\ [Next]_vars => SearchInv'
  BY SearchPart, SearchKeeps
<1>3. SearchInv => SearchIsItsOwn
  BY DEF SearchInv, SearchIsItsOwn
<1> QED BY <1>1, <1>2, <1>3, PTL DEF Spec

-----------------------------------------------------------------------------
(* The gate                                                                *)

\* The model was changed, and the gate has not heard of it or will not.
Stale == change.at = "handled" \/ missed

\* What a check has read, and what the gate shows, is about the models
\* configured since the check began, and about the one configured now as long
\* as no change is unheard.
GateInv ==
  /\ check = [f \in {"at", "ready", "model", "complete"} |-> check[f]]
  /\ change = [f \in {"to", "at", "tell"} |-> change[f]]
  /\ (phase = "checking") = (check.at # "idle")
  /\ phase # "none" => model \in during /\ (~Stale => during = {model})
  /\ check.at = "bootRead" /\ check.ready => \E m \in during : m \in installed
  /\ check.at \in {"stats", "statsRead", "statsLost"} => \E m \in during : m \in installed
  /\ check.at = "statsRead" => check.model \in during /\ (check.complete => check.model \in vectors)
  /\ phase = "novectors" => (\E m \in during : m \in installed) /\ known.model \in during
  /\ phase = "ready" =>
       /\ \E m \in during : m \in installed
       /\ known = Unknown \/ (known.model \in during /\ (known.model \in vectors \/ skipped = known.model))

LEMMA GateInit == Init => GateInv
<1> QED
  BY DEF Init, InitReadiness, GateInv, NewCheck, NoCheck, NoChange, Stale

\* A check that begins has read nothing yet.
LEMMA NewChecks ==
  /\ NewCheck = [f \in {"at", "ready", "model", "complete"} |-> NewCheck[f]]
  /\ NoCheck = [f \in {"at", "ready", "model", "complete"} |-> NoCheck[f]]
  /\ NewCheck.at \in {"boot", "bootLost"} /\ NoCheck.at = "idle"
<1> QED BY DEF NewCheck, NoCheck

LEMMA AskKeeps ==
  ASSUME GateInv, AskCheck, UNCHANGED <<model, known, skipped, change>>,
         installed \subseteq installed', vectors \subseteq vectors'
  PROVE  GateInv'
<1>1. CASE check.at # "idle"
  BY <1>1 DEF AskCheck, told, GateInv, Stale
<1>2. CASE check.at = "idle"
  BY <1>2, NewChecks DEF AskCheck, Begins, GateInv, Stale
<1> QED BY <1>1, <1>2

\* A step that leaves the gate as it is.
LEMMA GateUntouched ==
  ASSUME GateInv, UNCHANGED <<model, phase, check, known, skipped, told>>,
         installed \subseteq installed', vectors \subseteq vectors',
         change' = [f \in {"to", "at", "tell"} |-> change'[f]],
         phase = "none" \/ (change.at = "handled" => change'.at = "handled")
  PROVE  GateInv'
<1> QED BY DEF GateInv, Stale, told

LEMMA CheckKeeps ==
  ASSUME GateInv, CheckStep, UNCHANGED change
  PROVE  GateInv'
<1> USE DEF sidecarVars, told
<1>1. CASE BootRead \/ StatsRead \/ BridgeRead
  BY <1>1 DEF BootRead, StatsRead, BridgeRead, Stats, Installed, Complete, GateInv, Stale
<1>2. CASE BootAnswered
  BY <1>2, NewChecks DEF BootAnswered, GateInv, Stale
<1>3. CASE StatsAnswered
  BY <1>3, NewChecks DEF StatsAnswered, GateInv, Stale, Unknown
<1>4. CASE CheckFailed
  BY <1>4, NewChecks DEF CheckFailed, GateInv, Stale
<1>5. CASE Retry
  BY <1>5, AskKeeps DEF Retry
<1>6. CASE GracePasses
  BY <1>6 DEF GracePasses, GateInv, Stale
<1> QED BY <1>1, <1>2, <1>3, <1>4, <1>5, <1>6 DEF CheckStep

LEMMA OfferKeeps ==
  ASSUME GateInv, GateStep, UNCHANGED change
  PROVE  GateInv'
<1> USE DEF sidecarVars, told
<1>1. CASE Recheck \/ PullEnds
  BY <1>1, AskKeeps DEF Recheck, PullEnds, Pulled
<1>2. CASE BuildEnds
  <2>1. CASE job.mine
    BY <1>2, <2>1, AskKeeps DEF BuildEnds
  <2>2. CASE ~job.mine
    BY <1>2, <2>2 DEF BuildEnds, GateInv, Stale
  <2> QED BY <2>1, <2>2
<1>3. CASE PullModel \/ PullFails \/ BuildVectors \/ CancelBuild \/ BuildFails
  BY <1>3 DEF PullModel, PullFails, BuildVectors, CancelBuild, BuildFails, gateVars, GateInv, Stale
<1>4. CASE SkipVectors
  BY <1>4 DEF SkipVectors, GateInv, Stale
<1> QED BY <1>1, <1>2, <1>3, <1>4 DEF GateStep

LEMMA ConnectKeeps ==
  ASSUME GateInv, Connect, UNCHANGED change
  PROVE  GateInv'
<1> QED BY DEF Connect, GateInv, Stale, NoCheck, Waiting, Begins, told

\* The loss of the connection: a change on its way is not told of any more.
LEMMA DropKeeps ==
  ASSUME GateInv, BridgeDrops
  PROVE  GateInv'
<1>1. /\ check' = [f \in {"at", "ready", "model", "complete"} |-> check'[f]]
      /\ check'.at = Lost(check.at) /\ check'.model = check.model /\ check'.complete = check.complete
      /\ UNCHANGED <<model, installed, vectors, phase, known, skipped, during>>
  BY DEF BridgeDrops, Disconnect, GateInv
<1>2. /\ (check'.at = "idle") = (check.at = "idle") /\ check'.at \notin {"bootRead", "stats", "statsRead"}
      /\ check'.at = "statsLost" => check.at \in {"stats", "statsRead", "statsLost"}
  BY <1>1 DEF Lost
<1>3. /\ change' = [f \in {"to", "at", "tell"} |-> change'[f]]
      /\ phase # "none" => (Stale => Stale')
  <2>1. CASE change.at = "handled"
    BY <2>1 DEF BridgeDrops, NoChange, Stale, Mounted
  <2>2. CASE change.at # "handled"
    BY <2>2 DEF BridgeDrops, Stale, GateInv
  <2> QED BY <2>1, <2>2
<1> QED BY <1>1, <1>2, <1>3 DEF GateInv

LEMMA ViewKeeps ==
  ASSUME GateInv, NEW v \in {"ask", "dev", "other"}, Show(v)
  PROVE  GateInv'
<1>1. CASE UNCHANGED <<gateVars, job>>
  BY <1>1 DEF Show, gateVars, told, GateInv, Stale
<1>2. CASE Mounts \/ Unmounts
  <2>1. change' = change
    BY <1>2 DEF Show
  <2>2. CASE Mounts
    <3>1. phase' = "checking" /\ check' = NewCheck /\ during' = {model} /\ model' = model
      BY <1>2, <2>2 DEF Mounts, Begins, Show
    <3> QED BY <2>1, <3>1, NewChecks DEF GateInv
  <2>3. CASE Unmounts
    <3>1. phase' = "none" /\ check' = NoCheck
      BY <2>3 DEF Unmounts
    <3> QED BY <2>1, <3>1, NewChecks DEF GateInv
  <2> QED BY <1>2, <2>2, <2>3
<1> QED BY <1>1, <1>2 DEF Show

LEMMA ChangeKeeps ==
  ASSUME GateInv, ChangeHandled \/ ChangeRefused \/ ChangeTold \/ \E m \in Models, tell \in BOOLEAN : AskChange(m, tell)
  PROVE  GateInv'
<1> USE DEF sidecarVars, told
<1>1. ASSUME NEW m \in Models, NEW tell \in BOOLEAN, AskChange(m, tell)
      PROVE  GateInv'
  BY <1>1 DEF AskChange, NoChange, readinessVars, gateVars, GateInv, Stale
<1>2. CASE ChangeHandled
  <2>1. /\ change' = [f \in {"to", "at", "tell"} |-> change'[f]]
        /\ model' \in during' /\ during \subseteq during'
        /\ UNCHANGED <<installed, vectors, phase, check, known, skipped>>
    BY <1>2 DEF ChangeHandled, NoChange, GateInv
  <2>2. phase # "none" => Stale'
    BY <1>2 DEF ChangeHandled, Mounted, Stale, GateInv
  <2> QED BY <2>1, <2>2 DEF GateInv
<1>3. CASE ChangeTold
  <2>1. change' = NoChange /\ NoChange = [f \in {"to", "at", "tell"} |-> NoChange[f]] /\ UNCHANGED sidecarVars
        /\ NoChange.at = "none"
    BY <1>3 DEF ChangeTold, NoChange
  <2>2. CASE ~Mounted
    BY <1>3, <2>1, <2>2 DEF ChangeTold, Mounted, gateVars, GateInv
  <2>3. CASE Mounted /\ check.at # "idle"
    <3>1. missed' /\ UNCHANGED <<phase, check, during>>
      BY <1>3, <2>3 DEF ChangeTold, ConfigChanged
    <3> QED BY <1>3, <2>1, <2>3, <3>1 DEF ChangeTold, ConfigChanged, GateInv, Stale
  <2>4. CASE Mounted /\ check.at = "idle"
    <3>1. phase' = "checking" /\ check' = NewCheck /\ during' = {model} /\ missed' = FALSE
      BY <1>3, <2>4 DEF ChangeTold, ConfigChanged, AskCheck, Begins
    <3> QED BY <2>1, <3>1, NewChecks DEF GateInv, Stale
  <2> QED BY <2>2, <2>3, <2>4
<1>4. CASE ChangeRefused
  <2>1. change' = NoChange /\ NoChange = [f \in {"to", "at", "tell"} |-> NoChange[f]] /\ change.at = "asked"
        /\ NoChange.at = "none" /\ UNCHANGED <<gateVars, model, installed, vectors>>
    BY <1>4 DEF ChangeRefused, NoChange, readinessVars
  <2> QED BY <2>1 DEF gateVars, GateInv, Stale
<1> QED BY <1>1, <1>2, <1>3, <1>4

LEMMA GateKeeps ==
  ASSUME GateInv, [Next]_vars
  PROVE  GateInv'
<1>1. CASE Checks
  BY <1>1, CheckKeeps DEF Checks, deskVars
<1>2. CASE (GateStep \/ Connect) /\ UNCHANGED <<searchVars, deskVars>>
  BY <1>2, OfferKeeps, ConnectKeeps DEF deskVars
<1>3. CASE BridgeDrops
  BY <1>3, DropKeeps
<1>4. CASE Ask \/ User \/ Presents \/ Arrives \/ (\E t \in Threads : Sample(t)) \/ UNCHANGED vars
  <2>1. UNCHANGED <<readinessVars, change>>
    BY <1>4 DEF Ask, User, Presents, Arrives, Sample, vars, deskVars
  <2> QED BY <2>1 DEF readinessVars, gateVars, told, sidecarVars, GateInv, Stale
<1> QED BY <1>1, <1>2, <1>3, <1>4, ViewKeeps, ChangeKeeps DEF Next

\* A gate that is open was opened for a model configured while it checked, that
\* is there and whose vectors are complete, were given up by the user or could
\* not be asked about; and it is the model configured now unless a change is
\* under way or was followed by no check.
THEOREM VerdictsAreTrue == Spec => []VerdictIsOfItsCheck
<1>1. GateInv /\ [Next]_vars => GateInv'
  BY GateKeeps
<1>2. GateInv => VerdictIsOfItsCheck
  BY DEF GateInv, VerdictIsOfItsCheck, Stale
<1> QED BY GateInit, <1>1, <1>2, PTL DEF Spec

-----------------------------------------------------------------------------
(* The types                                                               *)

CheckPlaces == {"idle", "boot", "bootRead", "bootLost", "stats", "statsRead", "statsLost", "bridge"}

CheckRecords == [at : CheckPlaces, ready : BOOLEAN, model : Models \cup {NoModel}, complete : BOOLEAN]

\* The gate, and the build it waits for.
GateTypes ==
  /\ {connected, grace, missed} \subseteq BOOLEAN /\ during \subseteq Models
  /\ model \in Models /\ installed \subseteq Models /\ vectors \subseteq installed
  /\ phase \in Settled \cup {"none", "starting", "checking"}
  /\ check \in [at : CheckPlaces, ready : BOOLEAN, model : Models \cup {NoModel}, complete : BOOLEAN]
  /\ (phase = "checking") = (check.at # "idle")
  /\ known \in [model : Models \cup {NoModel}, complete : BOOLEAN]
  /\ skipped \in Models \cup {NoModel} /\ pull \in Models \cup {NoModel}
  /\ job \in [model : Models \cup {NoModel}, cancelled : BOOLEAN, mine : BOOLEAN]
  /\ job.mine => phase # "none" /\ connected
  /\ phase = "none" => pull = NoModel

\* The threads started so far are no more than the changes of the view.
Sampling ==
  /\ view \in {"ask", "dev", "other"} /\ Mounted = (view = "ask")
  /\ measuring \in BOOLEAN /\ measuring = (view = "dev")
  /\ change \in [to : Models \cup {NoModel}, at : {"none", "asked", "handled"}, tell : BOOLEAN]
  /\ change.at # "none" => change.to \in Models
  /\ switches \in 0 .. MaxSwitches
  /\ samplers \in [Threads -> {"none", "running", "over"}]
  /\ Cardinality({t \in Threads : samplers[t] # "none"}) <= switches

Asking ==
  /\ asks \in 0 .. MaxAsks /\ dismissed \in BOOLEAN
  /\ search \in [run : Nat, active : BOOLEAN, ref : Nat, job : Nat, asked : Nat, answer : Nat,
                 phase : {"idle", "searching", "done", "error"}]
  /\ shown \in {"idle", "searching", "done", "error"}

TypeInv == GateTypes /\ Sampling /\ Asking /\ SearchInv

\* What the property asks of the types follows from the invariant.
LEMMA TypeInvSays == TypeInv => TypeOK
<1> SUFFICES ASSUME TypeInv PROVE TypeOK
  OBVIOUS
<1>1. GateTypes /\ Sampling /\ Asking /\ SearchInv
  BY DEF TypeInv
<1>2. /\ {connected, grace, missed, dismissed, measuring} \subseteq BOOLEAN
      /\ phase \in Settled \cup {"none", "starting", "checking"}
      /\ (phase = "checking") = (check.at # "idle")
      /\ check.at \in CheckPlaces
  BY <1>1 DEF GateTypes, Sampling, Asking
<1>3. /\ model \in Models /\ installed \subseteq Models /\ vectors \subseteq installed /\ during \subseteq Models
      /\ known.model \in Models \cup {NoModel} /\ skipped \in Models \cup {NoModel}
      /\ pull \in Models \cup {NoModel}
      /\ job.model \in Models \cup {NoModel} /\ (job.mine => Mounted /\ connected)
  BY <1>1 DEF GateTypes, Mounted
<1>4. /\ asks \in 0 .. MaxAsks
      /\ search.phase \in {"idle", "searching", "done", "error"}
      /\ shown \in {"idle", "searching", "done", "error"}
  BY <1>1 DEF Asking
<1>5. search.run \in {0, search.asked} /\ search.ref = search.asked /\ search.asked <= asks
  BY <1>1, <1>4 DEF SearchInv
<1>6. /\ view \in {"ask", "dev", "other"} /\ Mounted = (view = "ask") /\ measuring = (view = "dev")
      /\ samplers \in [Threads -> {"none", "running", "over"}]
  BY <1>1 DEF Sampling
<1> QED BY <1>2, <1>3, <1>4, <1>5, <1>6 DEF TypeOK, CheckPlaces

\* What a fresh hook holds.
LEMMA FreshTypes ==
  Fresh \in [run : Nat, active : BOOLEAN, ref : Nat, job : Nat, asked : Nat, answer : Nat,
            phase : {"idle", "searching", "done", "error"}]
<1> QED BY DEF Fresh

\* The window begins in its types, with no thread started.
LEMMA TypesBegin == Init => TypeInv
<1> SUFFICES ASSUME Init PROVE TypeInv
  OBVIOUS
<1>1. GateTypes
  <2>1. NewCheck \in [at : CheckPlaces, ready : BOOLEAN, model : Models \cup {NoModel}, complete : BOOLEAN]
        /\ NewCheck.at # "idle"
    BY DEF NewCheck, NoCheck, CheckPlaces
  <2> QED
    BY <2>1, ReadinessAssumption DEF Init, InitReadiness, GateTypes, Unknown, NoJob
<1>2. Sampling
  <2>1. {t \in Threads : samplers[t] # "none"} = {}
    BY DEF Init
  <2>2. Cardinality({t \in Threads : samplers[t] # "none"}) = 0
    BY <2>1, FS_EmptySet
  <2>3. switches = 0 /\ MaxSwitches \in Nat /\ view = "ask" /\ measuring = FALSE /\ change = NoChange
        /\ phase = "checking" /\ samplers = [t \in Threads |-> "none"]
    BY DeskAssumption DEF Init, InitReadiness
  <2>4. samplers \in [Threads -> {"none", "running", "over"}]
    BY <2>3
  <2>5. change \in [to : Models \cup {NoModel}, at : {"none", "asked", "handled"}, tell : BOOLEAN]
        /\ change.at = "none"
    BY <2>3 DEF NoChange
  <2>6. Mounted = (view = "ask") /\ measuring \in BOOLEAN /\ measuring = (view = "dev")
    BY <2>3 DEF Mounted
  <2>7. switches \in 0 .. MaxSwitches /\ Cardinality({t \in Threads : samplers[t] # "none"}) <= switches
    BY ONLY <2>2, <2>3
  <2> QED BY <2>3, <2>4, <2>5, <2>6, <2>7 DEF Sampling
<1>3. Asking
  <2>1. asks = 0 /\ search = Fresh /\ shown = "idle" /\ dismissed = FALSE
    BY DEF Init, InitSearch
  <2>2. 0 \in 0 .. MaxAsks
    BY SearchAssumption
  <2> QED BY <2>1, <2>2, FreshTypes DEF Asking
<1> QED BY <1>1, <1>2, <1>3, SearchInit DEF Init, TypeInv

-----------------------------------------------------------------------------
(* Types of the search and of the samplers                                 *)

\* A step of the search keeps its types.
LEMMA AskingKeeps ==
  ASSUME Asking, SearchAction, connected \in BOOLEAN
  PROVE  Asking'
<1> USE SearchAssumption DEF Asking
<1>1. CASE StartSearch(connected)
  BY <1>1 DEF StartSearch
<1>2. CASE ClearAll \/ Renewed
  BY <1>2, FreshTypes DEF ClearAll, Renewed
<1>3. CASE FinishPresentation \/ Dismiss \/ UNCHANGED searchVars
  BY <1>3 DEF FinishPresentation, Dismiss, searchVars
<1>4. CASE Cancel
  BY <1>4 DEF Cancel
<1>6. CASE QueriesLost
  <2>1. CASE search.active
    BY <1>6, <2>1 DEF QueriesLost
  <2>2. CASE ~search.active
    BY <1>6, <2>2 DEF QueriesLost
  <2> QED BY <2>1, <2>2
<1>5. ASSUME NEW q \in 1 .. MaxAsks, Progress(q) \/ Answered(q) \/ QueryFails(q)
      PROVE  Asking'
  <2>1. CASE Progress(q)
    BY <2>1 DEF Progress
  <2>2. CASE Answered(q)
    <3>1. search' \in {search, [search EXCEPT !.active = FALSE, !.phase = "done", !.answer = q]}
          /\ UNCHANGED <<asks, shown, dismissed>>
      BY <2>2 DEF Answered
    <3> QED BY <3>1, q \in Nat
  <2>3. CASE QueryFails(q)
    <3>1. search' \in {search, [search EXCEPT !.active = FALSE, !.phase = "error"]}
          /\ shown' \in {shown, "error"} /\ UNCHANGED <<asks, dismissed>>
      BY <2>3 DEF QueryFails
    <3> QED BY <3>1
  <2> QED BY <1>5, <2>1, <2>2, <2>3
<1> QED BY <1>1, <1>2, <1>3, <1>4, <1>5, <1>6 DEF SearchAction

\* There is a thread to be started as long as the view may change.
LEMMA ThreadFree ==
  ASSUME Sampling, switches < MaxSwitches
  PROVE  \E t \in Threads : samplers[t] = "none"
<1> DEFINE Used == {t \in Threads : samplers[t] # "none"}
<1>1. Cardinality(Used) <= switches /\ switches \in Nat /\ MaxSwitches \in Nat
  BY DeskAssumption DEF Sampling
<1>2. IsFiniteSet(Threads) /\ Cardinality(Threads) = MaxSwitches
  BY <1>1, FS_Interval DEF Threads
<1>3. Used # Threads
  BY <1>1, <1>2
<1> QED BY <1>3

\* A start takes one thread that was not used before.
LEMMA StartsOneThread ==
  ASSUME Sampling, StartMetrics, switches < MaxSwitches, ~measuring
  PROVE  /\ samplers' \in [Threads -> {"none", "running", "over"}]
         /\ Cardinality({t \in Threads : samplers'[t] # "none"}) <= switches + 1
<1>1. PICK t \in Threads : samplers[t] = "none" /\ samplers' = [samplers EXCEPT ![t] = "running"]
  <2>1. PICK t : t = CHOOSE x \in Threads : samplers[x] = "none"
    OBVIOUS
  <2>2. t \in Threads /\ samplers[t] = "none"
    BY <2>1, ThreadFree
  <2>3. samplers' = [samplers EXCEPT ![t] = "running"]
    BY <2>1 DEF StartMetrics
  <2> QED BY <2>2, <2>3
<1>2. PICK used, next : /\ used = {x \in Threads : samplers[x] # "none"}
                        /\ next = {x \in Threads : samplers'[x] # "none"}
  OBVIOUS
<1>3. samplers \in [Threads -> {"none", "running", "over"}]
  BY DEF Sampling
<1>4. samplers' \in [Threads -> {"none", "running", "over"}]
  BY <1>1, <1>3
<1>5. next = used \cup {t}
  BY <1>1, <1>2, <1>3
<1>6. IsFiniteSet(used) /\ Cardinality(used) \in Nat /\ Cardinality(used) <= switches /\ switches \in Nat
  <2>1. IsFiniteSet(Threads)
    BY DeskAssumption, FS_Interval DEF Threads
  <2>2. IsFiniteSet(used)
    BY <1>2, <2>1, FS_Subset
  <2> QED BY <1>2, <2>2, FS_CardinalityType DEF Sampling
<1>7. Cardinality(next) <= Cardinality(used) + 1
  BY <1>5, <1>6, FS_AddElement
<1>8. Cardinality(next) <= switches + 1
  <2>1. Cardinality(next) \in Nat
    BY <1>5, <1>6, FS_AddElement, FS_CardinalityType
  <2> QED BY <1>6, <1>7, <2>1
<1> QED BY <1>2, <1>4, <1>8

-----------------------------------------------------------------------------
(* Types of the gate                                                       *)

\* The checks a step may begin, with their place.
LEMMA ChecksAreChecks ==
  /\ NewCheck \in CheckRecords /\ NewCheck.at # "idle"
  /\ NoCheck \in CheckRecords /\ NoCheck.at = "idle"
  /\ [NoCheck EXCEPT !.at = "boot"] \in CheckRecords /\ [NoCheck EXCEPT !.at = "boot"].at = "boot"
<1> QED BY DEF NewCheck, NoCheck, CheckRecords, CheckPlaces

\* A step that keeps the types of everything but the check.
LEMMA AskTypes ==
  ASSUME GateTypes, AskCheck, UNCHANGED <<connected, model, known, skipped, grace>>,
         installed' \subseteq Models, vectors' \subseteq installed',
         pull' \in Models \cup {NoModel},
         job' \in [model : Models \cup {NoModel}, cancelled : BOOLEAN, mine : BOOLEAN],
         job'.mine => job.mine, phase = "none" => pull' = NoModel
  PROVE  GateTypes'
<1>1. CASE check.at # "idle"
  BY <1>1 DEF AskCheck, told, GateTypes
<1>2. CASE check.at = "idle"
  <2>1. phase' = "checking" /\ check' \in CheckRecords /\ check'.at # "idle" /\ missed' = FALSE
        /\ during' = {model}
    BY <1>2, ChecksAreChecks DEF AskCheck, Begins
  <2> QED BY <2>1 DEF GateTypes, CheckRecords
<1> QED BY <1>1, <1>2

\* Steps of the check.
LEMMA CheckTypes ==
  ASSUME GateTypes, CheckStep
  PROVE  GateTypes'
<1> USE DEF sidecarVars, told
<1>1. CASE BootRead
  <2>0. PICK b \in BOOLEAN : b = (model \in installed)
    <3>1. CASE model \in installed
      <4>1. TRUE = (model \in installed)
        BY <3>1
      <4> QED BY <4>1
    <3>2. CASE model \notin installed
      <4>1. FALSE = (model \in installed)
        BY <3>2
      <4> QED BY <4>1
    <3> QED BY <3>1, <3>2
  <2>1. check' \in CheckRecords /\ check'.at = "bootRead" /\ check.at = "boot"
    <3>1. check' = [check EXCEPT !.at = "bootRead", !.ready = b] /\ check.at = "boot"
      BY <1>1, <2>0 DEF BootRead, Installed
    <3> QED BY <3>1 DEF GateTypes, CheckRecords, CheckPlaces
  <2> QED BY <1>1, <2>1 DEF BootRead, Installed, GateTypes, CheckRecords
<1>2. CASE BootAnswered
  <2>1. CASE check.ready
    <3>1. check' \in CheckRecords /\ check'.at # "idle" /\ check.at = "bootRead" /\ phase' = phase
      BY <1>2, <2>1 DEF BootAnswered, GateTypes, CheckRecords, CheckPlaces
    <3> QED BY <1>2, <3>1 DEF BootAnswered, GateTypes, CheckRecords
  <2>2. CASE ~check.ready
    BY <1>2, <2>2, ChecksAreChecks DEF BootAnswered, GateTypes, CheckRecords, Settled
  <2> QED BY <2>1, <2>2
<1>3. CASE StatsRead
  <2>0. PICK b \in BOOLEAN : b = (model \in vectors)
    <3>1. CASE model \in vectors
      <4>1. TRUE = (model \in vectors)
        BY <3>1
      <4> QED BY <4>1
    <3>2. CASE model \notin vectors
      <4>1. FALSE = (model \in vectors)
        BY <3>2
      <4> QED BY <4>1
    <3> QED BY <3>1, <3>2
  <2>1. check' \in CheckRecords /\ check'.at = "statsRead" /\ check.at = "stats"
    <3>1. check' = [check EXCEPT !.at = "statsRead", !.model = model, !.complete = b] /\ check.at = "stats"
      BY <1>3, <2>0 DEF StatsRead, Stats, Complete
    <3> QED BY <3>1 DEF GateTypes, CheckRecords, CheckPlaces
  <2> QED BY <1>3, <2>1 DEF StatsRead, Stats, Complete, GateTypes, CheckRecords
<1>4. CASE StatsAnswered
  <2>1. known' \in [model : Models \cup {NoModel}, complete : BOOLEAN]
    BY <1>4 DEF StatsAnswered, GateTypes, Unknown
  <2>2. phase' \in {"novectors", "ready"} /\ check' = NoCheck
        /\ UNCHANGED <<sidecarVars, skipped, grace, pull, told>>
    BY <1>4 DEF StatsAnswered
  <2>3. job.mine => phase # "none"
    BY DEF GateTypes
  <2> QED BY <2>1, <2>2, <2>3, ChecksAreChecks DEF GateTypes, CheckRecords, Settled
<1>5. CASE BridgeRead
  <2>1. check' \in CheckRecords /\ check'.at = "bridge" /\ check.at = "bootLost"
    BY <1>5 DEF BridgeRead, GateTypes, CheckRecords, CheckPlaces
  <2> QED BY <1>5, <2>1 DEF BridgeRead, GateTypes, CheckRecords
<1>6. CASE CheckFailed
  BY <1>6, ChecksAreChecks DEF CheckFailed, GateTypes, CheckRecords, Settled
<1>7. CASE Retry
  BY <1>7, AskTypes DEF Retry, GateTypes
<1>8. CASE GracePasses
  BY <1>8 DEF GracePasses, GateTypes
<1> QED BY <1>1, <1>2, <1>3, <1>4, <1>5, <1>6, <1>7, <1>8 DEF CheckStep

\* What the gate offers.
LEMMA OfferTypes ==
  ASSUME GateTypes, GateStep
  PROVE  GateTypes'
<1> USE DEF sidecarVars, told
<1> DEFINE JobTypes == [model : Models \cup {NoModel}, cancelled : BOOLEAN, mine : BOOLEAN]
<1>0. NoJob \in JobTypes /\ ~NoJob.mine
  BY DEF NoJob
<1>1. CASE Recheck
  BY <1>1, AskTypes DEF Recheck, GateTypes
<1>2. CASE PullModel \/ PullFails
  BY <1>2 DEF PullModel, PullFails, GateTypes
<1>3. CASE PullEnds
  <2>1. installed' \subseteq Models /\ vectors' \subseteq installed'
    BY <1>3 DEF PullEnds, Pulled, GateTypes
  <2> QED BY <1>3, <2>1, AskTypes DEF PullEnds, Pulled, GateTypes
<1>4. CASE BuildVectors
  <2>1. /\ job' \in JobTypes /\ phase = "novectors" /\ connected
        /\ UNCHANGED <<connected, model, installed, vectors, phase, check, known, skipped, grace, pull, told>>
    BY <1>4 DEF BuildVectors, GateTypes
  <2> QED BY <2>1 DEF GateTypes
<1>5. CASE CancelBuild
  BY <1>5 DEF CancelBuild, gateVars, GateTypes
<1>6. CASE BuildEnds
  <2>1. job' = NoJob /\ vectors' \subseteq installed
    BY <1>6 DEF BuildEnds, GateTypes
  <2>2. CASE job.mine
    BY <1>0, <1>6, <2>1, <2>2, AskTypes DEF BuildEnds, GateTypes
  <2>3. CASE ~job.mine
    BY <1>0, <1>6, <2>1, <2>3 DEF BuildEnds, GateTypes
  <2> QED BY <2>2, <2>3
<1>7. CASE BuildFails
  BY <1>0, <1>7 DEF BuildFails, GateTypes
<1>8. CASE SkipVectors
  BY <1>8 DEF SkipVectors, GateTypes, Settled
<1> QED BY <1>1, <1>2, <1>3, <1>4, <1>5, <1>6, <1>7, <1>8 DEF GateStep

\* The bridge comes and goes.
LEMMA BridgeTypes ==
  ASSUME GateTypes, Connect \/ (Disconnect /\ UNCHANGED during /\ missed' \in BOOLEAN)
  PROVE  GateTypes'
<1>1. CASE Connect
  <2>1. CASE phase \in Waiting
    <3>1. /\ phase' = "checking" /\ check' = [NoCheck EXCEPT !.at = "boot"] /\ connected' = TRUE
          /\ during' = {model} /\ missed' = FALSE
          /\ UNCHANGED <<model, installed, vectors, job, known, skipped, grace, pull>>
      BY <1>1, <2>1 DEF Connect, Begins
    <3>2. check' \in CheckRecords /\ check'.at # "idle"
      BY <3>1, ChecksAreChecks DEF CheckRecords
    <3> QED BY <2>1, <3>1, <3>2 DEF GateTypes, CheckRecords, Waiting
  <2>2. CASE phase \notin Waiting
    BY <1>1, <2>2 DEF Connect, told, GateTypes
  <2> QED BY <2>1, <2>2
<1>2. CASE Disconnect /\ UNCHANGED during /\ missed' \in BOOLEAN
  <2>1. Lost(check.at) \in CheckPlaces /\ (Lost(check.at) = "idle") = (check.at = "idle")
    BY DEF Lost, GateTypes, CheckPlaces
  <2>2. check' \in CheckRecords /\ check'.at = Lost(check.at)
    BY <1>2, <2>1 DEF Disconnect, GateTypes, CheckRecords
  <2>3. job' \in [model : Models \cup {NoModel}, cancelled : BOOLEAN, mine : BOOLEAN] /\ ~job'.mine
    BY <1>2 DEF Disconnect, GateTypes
  <2> QED BY <1>2, <2>1, <2>2, <2>3 DEF Disconnect, GateTypes, CheckRecords
<1> QED BY <1>1, <1>2

\* A change of the view mounts and unmounts the gate.
LEMMA ViewTypes ==
  ASSUME GateTypes, Sampling, NEW v \in {"ask", "dev", "other"}, Show(v)
  PROVE  GateTypes' /\ Sampling'
<1>0. v # view /\ switches < MaxSwitches /\ view' = v /\ switches' = switches + 1
      /\ UNCHANGED <<connected, model, installed, vectors, change>>
  BY DEF Show
<1>1. GateTypes' /\ Mounted' = (view' = "ask")
  <2>1. CASE v = "ask"
    <3>1. Mounts /\ UNCHANGED job
      BY <2>1 DEF Show
    <3>2. phase' = "checking" /\ check' \in CheckRecords /\ check'.at # "idle" /\ known' = Unknown
          /\ skipped' = NoModel /\ grace' = FALSE /\ pull' = NoModel /\ missed' = FALSE
          /\ during' = {model}
      BY <3>1, ChecksAreChecks DEF Mounts, Begins
    <3>3. Unknown \in [model : Models \cup {NoModel}, complete : BOOLEAN]
      BY DEF Unknown
    <3> QED BY <1>0, <2>1, <3>1, <3>2, <3>3 DEF GateTypes, CheckRecords, Mounted
  <2>2. CASE v # "ask" /\ view = "ask"
    <3>1. Unmounts
      BY <2>2 DEF Show
    <3>2. phase' = "none" /\ check' \in CheckRecords /\ check'.at = "idle" /\ known' = Unknown
          /\ skipped' = NoModel /\ grace' = FALSE /\ pull' = NoModel /\ missed' = FALSE
          /\ during' = {model}
      BY <3>1, ChecksAreChecks DEF Unmounts, Begins
    <3>3. job' \in [model : Models \cup {NoModel}, cancelled : BOOLEAN, mine : BOOLEAN] /\ ~job'.mine
      BY <3>1 DEF Unmounts, GateTypes
    <3>4. Unknown \in [model : Models \cup {NoModel}, complete : BOOLEAN]
      BY DEF Unknown
    <3> QED BY <1>0, <2>2, <3>2, <3>3, <3>4 DEF GateTypes, CheckRecords, Mounted
  <2>3. CASE v # "ask" /\ view # "ask"
    <3>1. UNCHANGED <<gateVars, job>>
      BY <2>3 DEF Show
    <3> QED BY <1>0, <2>3, <3>1 DEF gateVars, told, GateTypes, Mounted, Sampling
  <2> QED BY <2>1, <2>2, <2>3
<1>2. switches' \in 0 .. MaxSwitches /\ view' \in {"ask", "dev", "other"}
  BY <1>0, DeskAssumption DEF Sampling
<1>3. /\ measuring' \in BOOLEAN /\ measuring' = (view' = "dev")
      /\ samplers' \in [Threads -> {"none", "running", "over"}]
      /\ Cardinality({t \in Threads : samplers'[t] # "none"}) <= switches'
  <2>1. CASE v = "dev"
    <3>1. StartMetrics /\ ~measuring
      BY <1>0, <2>1 DEF Show, Sampling
    <3>2. /\ samplers' \in [Threads -> {"none", "running", "over"}]
          /\ Cardinality({t \in Threads : samplers'[t] # "none"}) <= switches + 1
      BY <1>0, <3>1, StartsOneThread
    <3> QED BY <1>0, <2>1, <3>1, <3>2 DEF StartMetrics
  <2>2. CASE v # "dev"
    <3>1. measuring' = FALSE /\ samplers' = samplers
      BY <2>2 DEF Show
    <3>2. PICK c : c = Cardinality({t \in Threads : samplers[t] # "none"})
      OBVIOUS
    <3>3. c <= switches /\ switches \in Nat /\ c \in Nat
      <4>1. IsFiniteSet(Threads)
        BY DeskAssumption, FS_Interval DEF Threads
      <4>2. IsFiniteSet({t \in Threads : samplers[t] # "none"})
        BY <4>1, FS_Subset
      <4> QED BY <3>2, <4>2, FS_CardinalityType DEF Sampling
    <3>4. c <= switches'
      BY <1>0, <3>3
    <3> QED BY <1>0, <2>2, <3>1, <3>2, <3>4 DEF Sampling
  <2> QED BY <2>1, <2>2
<1> QED BY <1>0, <1>1, <1>2, <1>3 DEF Sampling

\* A change of the configuration on its way.
LEMMA ChangeTypes ==
  ASSUME GateTypes, Sampling, ChangeHandled \/ ChangeRefused \/ ChangeTold \/ \E m \in Models, tell \in BOOLEAN : AskChange(m, tell)
  PROVE  GateTypes' /\ Sampling'
<1> DEFINE Changes == [to : Models \cup {NoModel}, at : {"none", "asked", "handled"}, tell : BOOLEAN]
<1>1. ASSUME NEW m \in Models, NEW tell \in BOOLEAN, AskChange(m, tell)
      PROVE  GateTypes' /\ Sampling'
  <2>1. change' \in Changes /\ change'.to \in Models
        /\ UNCHANGED <<readinessVars, view, switches, measuring, samplers>>
    BY <1>1 DEF AskChange
  <2> QED BY <2>1 DEF readinessVars, gateVars, told, sidecarVars, GateTypes, Sampling, Mounted
<1>2. CASE ChangeHandled
  <2>1. change' \in Changes /\ (change'.at # "none" => change'.to \in Models)
    <3>1. CASE change.tell
      BY <1>2, <3>1 DEF ChangeHandled, Sampling
    <3>2. CASE ~change.tell
      <4>1. NoChange \in Changes /\ NoChange.at = "none"
        BY DEF NoChange
      <4>2. change' = NoChange
        BY <1>2, <3>2 DEF ChangeHandled
      <4> QED BY <4>1, <4>2
    <3> QED BY <3>1, <3>2
  <2>3. model' \in Models /\ during' \subseteq Models /\ missed' \in BOOLEAN
    <3>1. model' = change.to /\ during' = during \cup {change.to} /\ change.to \in Models
      BY <1>2 DEF ChangeHandled, Sampling
    <3>2. missed' \in BOOLEAN
      BY <1>2 DEF ChangeHandled, GateTypes
    <3> QED BY <3>1, <3>2 DEF GateTypes
  <2>2. UNCHANGED <<connected, installed, vectors, job, phase, check, known, skipped, grace, pull,
                    view, switches, measuring, samplers>>
    BY <1>2 DEF ChangeHandled
  <2> QED BY <2>1, <2>2, <2>3 DEF GateTypes, Sampling, Mounted
<1>3. CASE ChangeTold
  <2>1. change' = NoChange /\ UNCHANGED <<sidecarVars, view, switches, measuring, samplers>>
    BY <1>3 DEF ChangeTold
  <2>2. NoChange \in Changes /\ NoChange.at = "none"
    BY DEF NoChange
  <2>3. GateTypes' /\ Mounted' = Mounted
    <3>1. CASE ~Mounted \/ check.at # "idle"
      <4>1. UNCHANGED <<phase, check, known, skipped, grace, pull, during>> /\ missed' \in {missed, TRUE}
        BY <1>3, <3>1 DEF ChangeTold, ConfigChanged, gateVars, told
      <4> QED BY <2>1, <4>1 DEF sidecarVars, GateTypes, Mounted
    <3>2. CASE Mounted /\ check.at = "idle"
      <4>1. AskCheck /\ UNCHANGED <<known, skipped, grace, pull>>
        BY <1>3, <3>2 DEF ChangeTold, ConfigChanged
      <4>2. phase' = "checking"
        BY <3>2, <4>1 DEF AskCheck
      <4> QED BY <2>1, <3>2, <4>1, <4>2, AskTypes DEF sidecarVars, GateTypes, Mounted
    <3> QED BY <3>1, <3>2
  <2> QED BY <2>1, <2>2, <2>3 DEF Sampling
<1>4. CASE ChangeRefused
  <2>1. change' = NoChange /\ NoChange \in Changes /\ NoChange.at = "none"
        /\ UNCHANGED <<readinessVars, view, switches, measuring, samplers>>
    BY <1>4 DEF ChangeRefused, NoChange
  <2> QED BY <2>1 DEF readinessVars, gateVars, told, sidecarVars, GateTypes, Sampling, Mounted
<1> QED BY <1>1, <1>2, <1>3, <1>4

\* A step of the gate neither opens nor leaves its window.
LEMMA StaysMounted ==
  ASSUME GateTypes, CheckStep \/ GateStep \/ Connect \/ Disconnect
  PROVE  Mounted' = Mounted
<1>1. CASE CheckStep
  <2>1. check.at = "idle" => UNCHANGED phase \/ phase = "starting"
    BY <1>1 DEF CheckStep, BootRead, BootAnswered, StatsRead, StatsAnswered, BridgeRead, CheckFailed,
                Retry, GracePasses
  <2>2. phase' = phase \/ phase' \in {"checking", "blocked", "novectors", "ready", "failed", "starting"}
    BY <1>1 DEF CheckStep, BootRead, BootAnswered, StatsRead, StatsAnswered, BridgeRead, CheckFailed,
                Retry, GracePasses, AskCheck
  <2> QED BY <2>1, <2>2 DEF GateTypes, Mounted
<1>2. CASE GateStep
  <2>1. phase' = phase \/ phase' \in {"checking", "ready"}
    BY <1>2 DEF GateStep, Recheck, PullModel, PullEnds, PullFails, BuildVectors, CancelBuild, BuildEnds,
                BuildFails, SkipVectors, AskCheck, gateVars
  <2>2. phase = "none" => phase' = phase
    BY <1>2 DEF GateStep, Recheck, PullModel, PullEnds, PullFails, BuildVectors, CancelBuild, BuildEnds,
                BuildFails, SkipVectors, gateVars, GateTypes
  <2> QED BY <2>1, <2>2 DEF Mounted
<1>3. CASE Connect \/ Disconnect
  BY <1>3 DEF Connect, Disconnect, Waiting, Mounted
<1> QED BY <1>1, <1>2, <1>3

\* Every step keeps the types, those of the gate and of the search each by its own.
LEMMA TypesKeep ==
  ASSUME TypeInv, [Next]_vars
  PROVE  TypeInv'
<1>0. GateTypes /\ Sampling /\ Asking /\ SearchInv
  BY DEF TypeInv
<1>1. Asking' /\ SearchInv'
  BY <1>0, SearchPart, SearchKeeps, AskingKeeps DEF GateTypes
<1>2. ASSUME GateTypes', Mounted' = Mounted, UNCHANGED <<view, switches, change, measuring, samplers>>
      PROVE  Sampling'
  BY <1>0, <1>2 DEF Sampling
<1>3. CASE Checks \/ ((GateStep \/ Connect) /\ UNCHANGED <<searchVars, deskVars>>)
  <2>1. GateTypes'
    BY <1>0, <1>3, CheckTypes, OfferTypes, BridgeTypes DEF Checks
  <2>2. Mounted' = Mounted /\ UNCHANGED <<view, switches, change, measuring, samplers>>
    BY <1>0, <1>3, StaysMounted DEF Checks, deskVars
  <2> QED BY <1>1, <1>2, <2>1, <2>2 DEF TypeInv
<1>8. CASE BridgeDrops
  <2>1. Disconnect /\ UNCHANGED <<during, view, switches, measuring, samplers>>
    BY <1>8 DEF BridgeDrops
  <2>2. missed' \in BOOLEAN
    BY <1>0, <1>8 DEF BridgeDrops, GateTypes
  <2>3. GateTypes' /\ Mounted' = Mounted
    BY <1>0, <2>1, <2>2, BridgeTypes, StaysMounted
  <2>4. /\ change' \in [to : Models \cup {NoModel}, at : {"none", "asked", "handled"}, tell : BOOLEAN]
        /\ change'.at # "none" => change'.to \in Models
    <3>1. CASE change.at = "handled"
      <4>1. /\ NoChange \in [to : Models \cup {NoModel}, at : {"none", "asked", "handled"}, tell : BOOLEAN]
            /\ NoChange.at = "none"
        BY DEF NoChange
      <4>2. change' = NoChange
        BY <1>8, <3>1 DEF BridgeDrops
      <4> QED BY <4>1, <4>2
    <3>2. CASE change.at # "handled"
      <4>1. change' = [change EXCEPT !.tell = FALSE]
        BY <1>8, <3>2 DEF BridgeDrops
      <4> QED BY <1>0, <4>1 DEF Sampling
    <3> QED BY <3>1, <3>2
  <2>5. Sampling'
    BY <1>0, <2>1, <2>3, <2>4 DEF Sampling
  <2> QED BY <1>1, <2>3, <2>5 DEF TypeInv
<1>4. CASE Ask \/ User \/ Presents \/ Arrives \/ UNCHANGED vars
  <2>1. UNCHANGED <<readinessVars, deskVars>>
    BY <1>4 DEF Ask, User, Presents, Arrives, vars
  <2>2. GateTypes' /\ Mounted' = Mounted
    BY <1>0, <2>1 DEF readinessVars, gateVars, told, sidecarVars, GateTypes, Mounted
  <2> QED BY <1>1, <1>2, <2>1, <2>2 DEF deskVars, TypeInv
<1>5. ASSUME NEW t \in Threads, Sample(t)
      PROVE  TypeInv'
  <2>1. samplers' = [samplers EXCEPT ![t] = "over"] /\ samplers[t] = "running"
        /\ UNCHANGED <<readinessVars, view, switches, change, measuring>>
    BY <1>5 DEF Sample
  <2>2. GateTypes' /\ Mounted' = Mounted
    BY <1>0, <2>1 DEF readinessVars, gateVars, told, sidecarVars, GateTypes, Mounted
  <2>3. samplers' \in [Threads -> {"none", "running", "over"}]
    BY <1>0, <2>1 DEF Sampling
  <2>4. {x \in Threads : samplers'[x] # "none"} = {x \in Threads : samplers[x] # "none"}
    BY <1>0, <2>1 DEF Sampling
  <2>5. Sampling'
    BY <1>0, <2>1, <2>2, <2>3, <2>4 DEF Sampling
  <2> QED BY <1>1, <2>2, <2>5 DEF TypeInv
<1>6. CASE \E v \in {"ask", "dev", "other"} : Show(v)
  BY <1>0, <1>1, <1>6, ViewTypes DEF TypeInv
<1>7. CASE ChangeHandled \/ ChangeRefused \/ ChangeTold \/ \E m \in Models, tell \in BOOLEAN : AskChange(m, tell)
  BY <1>0, <1>1, <1>7, ChangeTypes DEF TypeInv
<1> QED BY <1>3, <1>4, <1>5, <1>6, <1>7, <1>8 DEF Next

\* The types of the window, among them that the panel measures just as long as
\* it is on the screen, and that a thread is free whenever one is started.
THEOREM DeskTypeCorrect == Spec => []TypeOK
<1> QED BY TypesBegin, TypesKeep, TypeInvSays, PTL DEF Spec
===============================================================================
