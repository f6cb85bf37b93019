---------------------------- MODULE WalkthroughWindow ----------------------------
(***************************************************************************)
(* The hint panels (useWalkthrough, WalkthroughPanel) over the walkthrough *)
(* methods of the sidecar.                                                 *)
(*                                                                         *)
(* A panel makes one call at a time and waits for it; `current` is the     *)
(* runRef of the hook: an answer to any other call is not for the user any *)
(* more. A user may cancel, close the panel or ask for another guide while *)
(* a call is on its way; the call, its screenshot and its handler go on.   *)
(* Which of the steps already shown the user looks at is left out: looking *)
(* back calls nobody. So are the launch of the program and its delay,      *)
(* which only come before the screenshot.                                  *)
(***************************************************************************)
EXTENDS WalkthroughSession, FiniteSets

CONSTANTS
  NoCall,
  MaxCalls,   \* bound: the calls users make
  MaxDrops    \* bound: the calls users cancel or leave

\* crash   - the sidecar ends and is started again
\* hurry   - users leave a panel that waits for a call
\* capture - the system refuses a screenshot
UserEnv == {"crash", "hurry", "capture"}

ASSUME WindowAssumption ==
  /\ Env \subseteq ServerEnv \cup UserEnv
  /\ NoCall = 0 /\ MaxCalls \in Nat /\ MaxDrops \in Nat

VARIABLE panels

vars == <<sessions, calls, disk, panels>>

Hole == [call |-> NoCall, state |-> "hole", text |-> None]

\* place   - not opened yet, on the screen, gone
\* session - sessionIdRef
\* current - the call the panel waits for
\* mode    - stepSourceRef; trackMode is the mode `track` was made in
\* track   - the steps shown, in order
\* view    - how the last call ended: a step, an error, or cancelled
\* calm    - history: the user has neither cancelled a call nor left during
\*           one, and the sidecar has not ended
\* did     - history: the instructions the user marked as done, and was heard
NewPanel ==
  [place |-> "new", session |-> NoCall, current |-> NoCall, mode |-> "vision",
   track |-> <<>>, trackMode |-> None, view |-> "step", calm |-> TRUE, did |-> {}]

Init ==
  /\ sessions = <<>> /\ calls = <<>> /\ disk = {}
  /\ panels = [p \in Panels |-> NewPanel]

Waits(p) == panels[p].current # NoCall
Idle(p) == panels[p].place = "shown" /\ ~Waits(p)

\* Mutant: any answer will do, once the panel waits for one.
AwaitedSomehow(c) == Waits(Call(c).panel)

\* settle: the panel still waits for call c.
Awaited(c) == panels[Call(c).panel].current = c

\* What is left of a call when nobody has anything to do for it.
Over(call) ==
  [NewCall(call.panel, call.kind, call.sid, "same", FALSE, FALSE)
     EXCEPT !.at = "over", !.dropped = call.dropped]

Ended(c) == [calls EXCEPT ![c] = Over(@)]

Next1 == Len(calls) + 1

\* A call is made after these. Every call has a place for a session; only
\* those of start use it.
Makes(those, call) ==
  /\ calls' = Append(those, call)
  /\ sessions' = Append(sessions, NoSession)

StartCall(p) == NewCall(p, "start", Next1, "same", FALSE, FALSE)

\* The call `advance` makes for a panel in this state: a manual step goes
\* without a screenshot.
StepCall(p, panel, kind, source, confirm) ==
  LET mode == IF source = "same" THEN panel.mode ELSE source
  IN NewCall(p, kind, panel.session, source, confirm, kind = "stuck" \/ mode = "vision")

Drops == Cardinality({c \in DOMAIN calls : Call(c).dropped})

\* beginBusy
Begins(p, call) ==
  /\ Len(calls) < MaxCalls
  /\ Makes(calls, call)
  /\ UNCHANGED disk
---------------------------------------------------------------------------
(* What the user does *)

\* One panel is on the screen at a time; it starts its session by itself.
Open(p) ==
  /\ panels[p].place = "new" /\ \A q \in Panels : panels[q].place # "shown"
  /\ Begins(p, StartCall(p))
  /\ panels' = [panels EXCEPT ![p].place = "shown", ![p].current = Next1]

\* "Try again" where no step is shown.
Restart(p) ==
  /\ Idle(p)
  /\ \/ panels[p].session = NoCall /\ panels[p].view \in {"error", "cancelled"}
     \/ panels[p].view = "cancelled" /\ panels[p].track = <<>>
  /\ Begins(p, StartCall(p))
  /\ panels' = [panels EXCEPT ![p].current = Next1]

LastOf(panel) == panel.track[Len(panel.track)]

\* Mutant: the buttons stay enabled while a call is on its way.
InSessionBusy(p) == panels[p].place = "shown" /\ panels[p].session # NoCall

InSession(p) == Idle(p) /\ panels[p].session # NoCall

\* The step on the screen, with its buttons.
Shows(p, states) ==
  /\ InSession(p) /\ panels[p].view # "error"
  /\ panels[p].track # <<>> /\ LastOf(panels[p]).state \in states

AsksFor(p, kind, source, confirm) ==
  /\ Begins(p, StepCall(p, panels[p], kind, source, confirm))
  /\ panels' = [panels EXCEPT ![p].current = Next1]

Retry(p) ==
  /\ InSession(p) /\ panels[p].view = "error"
  /\ AsksFor(p, "step", "same", FALSE)

\* "Next", "check again", "look again", or an item further down the list.
GoOn(p) ==
  /\ Shows(p, {"ready", "unclear", "wrong_window"})
  /\ AsksFor(p, "step", "same", FALSE)

\* "I have done it".
ConfirmDone(p) ==
  /\ Shows(p, {"ready", "unclear", "loop"}) /\ panels[p].mode = "vision"
  /\ AsksFor(p, "step", "same", TRUE)

\* "I do not see it".
Stuck(p) ==
  /\ Shows(p, {"ready", "unclear"}) /\ panels[p].mode = "vision"
  /\ AsksFor(p, "stuck", "same", FALSE)

SwitchMode(p) ==
  /\ InSession(p)
  /\ AsksFor(p, "step", IF panels[p].mode = "vision" THEN "plan" ELSE "vision", FALSE)

\* The id of the job is known from its progress, if there was any.
Cancel(p) ==
  /\ panels[p].place = "shown" /\ Waits(p)
  /\ Drops < MaxDrops
  /\ LET c == panels[p].current
     IN \E known \in {FALSE} \cup (IF Call(c).at \in {"docs", "list", "vision", "verify"} THEN {TRUE} ELSE {}) :
          calls' = [calls EXCEPT ![c].dropped = TRUE, ![c].aborted = known]
  /\ panels' = [panels EXCEPT ![p].current = NoCall, ![p].view = "cancelled", ![p].calm = FALSE]
  /\ UNCHANGED <<sessions, disk>>

Leaves(p) ==
  /\ panels[p].place = "shown"
  /\ Waits(p) => "hurry" \in Env /\ Drops < MaxDrops

FinishCall(p) == NewCall(p, "finish", panels[p].session, "same", FALSE, FALSE)

\* The panel is closed: finish, with the session forgotten first. The hook goes
\* with everything it knows.
Close(p) ==
  /\ Leaves(p)
  /\ LET those == IF Waits(p) THEN [calls EXCEPT ![panels[p].current].dropped = TRUE] ELSE calls
     IN IF panels[p].session = NoCall
        THEN calls' = those /\ UNCHANGED sessions
        ELSE Makes(those, FinishCall(p))
  /\ panels' = [panels EXCEPT ![p] = [NewPanel EXCEPT !.place = "gone", !.calm = panels[p].calm /\ ~Waits(p)]]
  /\ UNCHANGED disk

\* Another guide is asked for and takes the place of this one, whose hook
\* forgets nothing: what it waits for still reaches it.
Replace(p) ==
  /\ Leaves(p)
  /\ IF panels[p].session = NoCall
     THEN UNCHANGED <<calls, sessions>>
     ELSE Makes(calls, FinishCall(p))
  /\ panels' = [panels EXCEPT ![p].place = "gone", ![p].calm = @ /\ ~Waits(p)]
  /\ UNCHANGED disk
---------------------------------------------------------------------------
(* What the hook does as its awaits return *)

\* screen_capture wrote a file; a call that was dropped goes no further.
Captured(c) ==
  /\ Call(c).at = "capture"
  /\ disk' = disk \cup {Shot(c)}
  /\ calls' = IF Awaited(c) THEN [calls EXCEPT ![c].at = "sent"] ELSE Ended(c)
  /\ UNCHANGED <<sessions, panels>>

\* It was dropped before the screenshot.
NotCaptured(c) ==
  /\ Call(c).at = "capture" /\ ~Awaited(c)
  /\ calls' = Ended(c)
  /\ UNCHANGED <<sessions, disk, panels>>

\* fail
CaptureFails(c) ==
  /\ Call(c).at = "capture" /\ Awaited(c) /\ "capture" \in Env
  /\ calls' = Ended(c)
  /\ panels' = [panels EXCEPT ![Call(c).panel].current = NoCall, ![Call(c).panel].view = "error"]
  /\ UNCHANGED <<sessions, disk>>

Answered(c) == Call(c).at = "answered"

\* The session is there, and its first step is asked for at once.
StartArrives(c) ==
  /\ Answered(c) /\ Awaited(c) /\ Call(c).kind = "start" /\ Call(c).answer.state # "error"
  /\ LET p == Call(c).panel
         panel == [panels[p] EXCEPT !.session = c, !.mode = Call(c).answer.mode, !.current = Next1,
                                    !.track = <<>>, !.trackMode = None, !.did = {}]
     IN /\ Makes(Ended(c), StepCall(p, panel, "step", "same", FALSE))
        /\ panels' = [panels EXCEPT ![p] = panel]
  /\ UNCHANGED disk

\* With the step on the screen, if call c is to say that the user has done it.
Done(c) ==
  LET panel == panels[Call(c).panel]
  IN panel.did \cup (IF Call(c).confirm /\ LastOf(panel).state = "ready" THEN {LastOf(panel).text} ELSE {})

\* acceptStep: an item of the list has its place, any other step comes last.
Placed(track, place, step) ==
  [i \in 1..(IF place > Len(track) THEN place ELSE Len(track)) |->
     IF i = place THEN step ELSE IF i <= Len(track) THEN track[i] ELSE Hole]

StepArrives(c) ==
  /\ Answered(c) /\ Awaited(c) /\ Call(c).kind \in {"step", "stuck"}
  /\ Call(c).answer.state # "error"
  /\ LET answer == Call(c).answer
         panel == panels[Call(c).panel]
         fresh == IF panel.trackMode = answer.mode THEN panel.track ELSE <<>>
         place == IF answer.mode = "plan" /\ answer.index # NoIndex THEN answer.index + 1 ELSE Len(fresh) + 1
     IN panels' = [panels EXCEPT ![Call(c).panel] =
          [panel EXCEPT !.current = NoCall, !.view = "step", !.mode = answer.mode, !.trackMode = answer.mode, !.did = Done(c),
                        !.track = Placed(fresh, place, [call |-> c, state |-> answer.state, text |-> answer.text])]]
  /\ calls' = Ended(c)
  /\ UNCHANGED <<sessions, disk>>

ErrorArrives(c) ==
  /\ Answered(c) /\ Awaited(c) /\ Call(c).answer.state = "error"
  /\ calls' = Ended(c)
  /\ panels' = [panels EXCEPT ![Call(c).panel].current = NoCall, ![Call(c).panel].view = "error"]
  /\ UNCHANGED <<sessions, disk>>

\* The answer to a call nobody waits for, finish among them.
Ignored(c) ==
  /\ Answered(c) /\ ~Awaited(c)
  /\ calls' = Ended(c)
  /\ UNCHANGED <<sessions, disk, panels>>
---------------------------------------------------------------------------
\* The sidecar ends: its sessions and its calls with it, not the screenshots.
Crash ==
  /\ "crash" \in Env /\ \E s \in DOMAIN sessions : sessions[s].open
  /\ sessions' = [s \in DOMAIN sessions |-> [sessions[s] EXCEPT !.open = FALSE]]
  /\ calls' = [c \in DOMAIN calls |->
       IF Call(c).at \in {"capture", "answered", "over"} THEN Call(c)
       ELSE [Call(c) EXCEPT !.at = "answered", !.asked = None,
                            !.answer = Answer("error", None, "vision", NoIndex)]]
  /\ panels' = [p \in Panels |-> [panels[p] EXCEPT !.calm = FALSE]]
  /\ UNCHANGED disk
---------------------------------------------------------------------------
User(p) ==
  \/ Open(p) \/ Restart(p) \/ Retry(p) \/ GoOn(p) \/ ConfirmDone(p) \/ Stuck(p)
  \/ SwitchMode(p) \/ Cancel(p) \/ Close(p) \/ Replace(p)

Hook(c) ==
  \/ Captured(c) \/ NotCaptured(c) \/ CaptureFails(c)
  \/ StartArrives(c) \/ StepArrives(c) \/ ErrorArrives(c) \/ Ignored(c)

Next ==
  \/ \E p \in Panels : User(p)
  \/ \E c \in DOMAIN calls : Hook(c) \/ (Serve(c) /\ UNCHANGED panels)
  \/ Crash

Spec == Init /\ [][Next]_vars
---------------------------------------------------------------------------
(* Properties *)

\* Every variable has the values the code gives it.
TypeOK ==
  /\ Len(sessions) = Len(calls)
  /\ \A c \in DOMAIN calls :
       /\ Call(c).panel \in Panels /\ Call(c).sid \in DOMAIN calls
       /\ Call(c).kind \in {"start", "step", "stuck", "finish"}
       /\ sessions[c].mode \in Modes /\ sessions[c].cursor \in 0..Len(Guide)
       /\ sessions[c].confirmed \subseteq Texts
  /\ disk \subseteq (DOMAIN calls) \X {"shot", "copy"}
  /\ \A p \in Panels : panels[p].session \in {NoCall} \cup DOMAIN calls

\* A call the user has cancelled, or left, shows nothing, and a panel shows
\* the steps of one session.
CancelledIsSilent ==
  \A p \in Panels : \A i \in DOMAIN panels[p].track :
    LET c == panels[p].track[i].call
    IN c # NoCall => /\ ~Call(c).dropped
                     /\ panels[p].session \in {NoCall, Call(c).sid}

\* In manual mode a user who cancels nothing reads the list of the guide from
\* its first item to its last, with none left out.
ListInOrder ==
  \A p \in Panels : panels[p].calm /\ panels[p].trackMode = "plan" =>
    \A i \in DOMAIN panels[p].track :
      /\ panels[p].track[i] # Hole
      /\ i \in DOMAIN Guide => panels[p].track[i].text \in {Guide[i], "limit"}

\* An instruction the user saw and marked as done is not proposed again as the
\* next step, in these words or in others (confirmPreviousStep marks the last
\* instruction in the history of the session, not the one on the screen).
NeverProposedAgain ==
  \A c \in DOMAIN calls :
    LET panel == panels[Call(c).panel]
    IN Answered(c) /\ Awaited(c) /\ panel.calm /\ Call(c).kind = "step"
         /\ Call(c).answer.mode = "vision" /\ Call(c).answer.state = "ready"
       => \A t \in Done(c) : t # Call(c).answer.text /\ <<t, Call(c).answer.text>> \notin Alike

\* Nothing of panel p is left: no session, and no screenshot.
NothingLeft(p) ==
  \A c \in DOMAIN calls : Call(c).panel = p => ~sessions[c].open /\ {Shot(c), Copy(c)} \cap disk = {}

GoneAndOver(p) ==
  panels[p].place = "gone" /\ \A c \in DOMAIN calls : Call(c).panel = p => Call(c).at = "over"

\* A panel that is closed leaves neither a session nor a screenshot, if its
\* user neither cancelled nor left during a call.
ClosedLeavesNothing == \A p \in Panels : GoneAndOver(p) /\ panels[p].calm => NothingLeft(p)

\* In manual mode the handlers neither look at the screen nor ask a model about
\* it: while one looks, its session is in the other mode. docs/contracts/walkthrough.md
\* says so of everyone (256-260, 336-340); it holds for a user who cancels
\* nothing, because the mode the panel knows is then that of the session. A
\* cancelled step, or the step after a cancelled switch, takes the mode of the
\* session as it finds it after its awaits, and the model checks the screen
\* against the list (walkthrough/index.js:1119).
ManualIsBlind ==
  \A c \in DOMAIN calls :
    panels[Call(c).panel].calm /\ Call(c).at \in {"exists", "prepare", "vision", "verify"} =>
      Call(c).at # "verify" /\ Session(c).mode = "vision"

\* A session has no more steps than maxStepsPerSession, but for one to each of
\* its calls that the user cancelled or left: such a call has passed the limit
\* before its awaits and counts after them, beside the step made in its place
\* (walkthrough/index.js:916).
LimitKept ==
  \A s \in DOMAIN sessions :
    sessions[s].count <= MaxSteps + Cardinality({c \in DOMAIN calls : Call(c).sid = s /\ Call(c).dropped})
=============================================================================
