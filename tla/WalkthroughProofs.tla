--------------------------- MODULE WalkthroughProofs ---------------------------
(***************************************************************************)
(* What the windows of the walkthrough and the handlers of the sidecar     *)
(* keep to, for any number of panels, calls and cancelled calls, any guide *)
(* and any environment.                                                    *)
(*                                                                         *)
(* The invariant IInv is stated per panel: a call belongs to one panel and *)
(* a step is taken for one panel, so a step leaves every other panel       *)
(* Untouched, and UntouchedRest carries the invariant over for those. Four *)
(* of its parts hold of every panel (the links between calls, sessions and *)
(* steps, and the counts); the rest is what a panel keeps to while it is   *)
(* `calm`, that is, while its user has cancelled nothing and left nothing  *)
(* unanswered.                                                             *)
(*                                                                         *)
(* The handlers are read twice: first what each leaves of its call and its *)
(* session (StartServed, FinishServed, TurnServed), then what that means   *)
(* for the invariant.                                                      *)
(***************************************************************************)
EXTENDS WalkthroughWindow, FiniteSetTheorems, TLAPS

AnswerType ==
  [state : {"ready", "wrong_window", "done", "unclear", "loop", "error"},
   text : Texts \cup {None}, mode : Modes, index : Nat]

Stages == {"capture", "sent", "docs", "list", "body", "exists", "prepare", "vision", "verify",
           "drop", "purge", "answered", "over"}

CallType ==
  [panel : Panels, kind : {"start", "step", "stuck", "finish"}, sid : Nat \ {0},
   source : {"same"} \cup Modes, confirm : BOOLEAN, shot : BOOLEAN, at : Stages,
   asked : Texts \cup {None}, aborted : BOOLEAN, dropped : BOOLEAN, answer : AnswerType \cup {None}]

SessionType ==
  [open : BOOLEAN, mode : Modes, planned : BOOLEAN, cursor : 0 .. Len(Guide), count : Nat,
   said : Texts \cup {None}, last : Texts \cup {None}, confirmed : SUBSET Texts,
   docs : BOOLEAN, files : SUBSET (Nat \X {"shot", "copy"})]

StepType == [call : Nat, state : {"ready", "wrong_window", "done", "unclear", "loop", "error", "hole"}, text : Texts \cup {None}]

PanelType ==
  [place : {"new", "shown", "gone"}, session : Nat, current : Nat, mode : Modes,
   track : Seq(StepType), trackMode : Modes \cup {None}, view : {"step", "error", "cancelled"},
   calm : BOOLEAN, did : SUBSET (Texts \cup {None})]

Typed ==
  /\ calls \in Seq(CallType) /\ sessions \in Seq(SessionType) /\ Len(sessions) = Len(calls)
  /\ panels \in [Panels -> PanelType]
  /\ disk \subseteq (DOMAIN calls) \X {"shot", "copy"}

Asks == {"start", "step", "stuck"}
Turns == {"step", "stuck"}
Turning == {"exists", "prepare", "vision", "verify"}

\* A call, its panel and its session belong together.
CallLinked(c) ==
  /\ Call(c).sid \in DOMAIN calls
  /\ Call(c).at = "answered" => Call(c).answer \in AnswerType
  /\ panels[Call(c).panel].place # "new"
  /\ Call(c).kind \in Asks /\ ~Call(c).dropped /\ Call(c).at # "over" => Awaited(c)
  /\ Call(c).dropped => ~panels[Call(c).panel].calm
  /\ Call(c).aborted => Call(c).dropped
  /\ Call(c).kind = "start" => Call(c).sid = c
  /\ Call(c).kind # "start" =>
       /\ Call(Call(c).sid).kind = "start" /\ Call(Call(c).sid).at = "over"
       /\ Call(Call(c).sid).panel = Call(c).panel
  /\ Call(c).kind = "stuck" => ~Call(c).confirm
  /\ Call(c).kind = "step" /\ Call(c).at = "list" => Call(c).source = "plan"
  /\ Call(c).at \in Turning => Call(c).kind \in Turns
  /\ Call(c).at = "verify" => Call(c).asked \in Instr
  /\ Call(c).at = "capture" => Call(c).kind \in Turns
  /\ Call(c).kind = "finish" => panels[Call(c).panel].place = "gone"

CallsLinked == \A c \in DOMAIN calls : CallLinked(c)

PanelLinked(p) ==
  LET P == panels[p]
  IN /\ P.session # NoCall =>
          /\ P.session \in DOMAIN calls /\ Call(P.session).kind = "start"
          /\ Call(P.session).at = "over" /\ Call(P.session).panel = p
     /\ P.current # NoCall =>
          /\ P.current \in DOMAIN calls /\ Call(P.current).panel = p
          /\ Call(P.current).kind \in Asks /\ ~Call(P.current).dropped /\ Call(P.current).at # "over"
          /\ Call(P.current).kind \in Turns => Call(P.current).sid = P.session
          /\ Call(P.current).confirm => P.track # <<>>
     /\ P.session = NoCall => P.track = <<>>
     /\ P.view = "cancelled" => ~P.calm
     /\ P.place = "new" => P.session = NoCall /\ P.current = NoCall
     /\ P.track # <<>> => P.trackMode = P.mode

PanelsLinked == \A p \in Panels : PanelLinked(p)

\* The steps of a panel are answers of its session that nobody has dropped.
TrackLinked(p) ==
  \A i \in DOMAIN panels[p].track :
    LET c == panels[p].track[i].call
    IN c # NoCall => /\ c \in DOMAIN calls /\ ~Call(c).dropped /\ Call(c).at = "over"
                     /\ Call(c).sid = panels[p].session /\ Call(c).panel = p

TracksLinked == \A p \in Panels : TrackLinked(p)

Links == CallsLinked /\ PanelsLinked /\ TracksLinked

\* The dropped calls that may have counted in session s.
Spent(p, s) ==
  {c \in DOMAIN calls : /\ Call(c).panel = p /\ Call(c).sid = s
                        /\ Call(c).dropped /\ Call(c).at \in {"answered", "over"}}

Allowed(p, s) == MaxSteps + Cardinality(Spent(p, s))

\* A step that has passed the limit has room for itself until it ends.
CountsOf(p) ==
  \A c \in DOMAIN calls : Call(c).panel = p =>
    /\ sessions[c].count <= Allowed(p, c)
    /\ Call(c).kind = "step" /\ Call(c).at \in Turning /\ ~Call(c).dropped =>
         Session(c).count < Allowed(p, Call(c).sid)

\* Call c has an answer that its panel has yet to show.
Told(c) == c # NoCall /\ Call(c).at = "answered" /\ Call(c).answer.state # "error"

\* Panel p waits for a step.
Mine(p) == panels[p].current # NoCall /\ Call(panels[p].current).kind \in Turns

\* The mode the panel knows is the mode of its session, but for a switch that
\* is on its way.
AgreedOf(p) ==
  LET P == panels[p]
      c == P.current
      S == sessions[P.session]
  IN /\ c # NoCall /\ Call(c).kind = "start" =>
          /\ P.session = NoCall
          /\ Told(c) => sessions[c].mode = Call(c).answer.mode /\ sessions[c].cursor = 0
     /\ Mine(p) =>
          /\ Call(c).at \in {"exists", "prepare", "vision"} => S.mode = "vision"
          /\ Call(c).at # "verify"
          /\ Told(c) => Call(c).answer.mode = S.mode
          /\ Call(c).kind = "stuck" \/ Call(c).confirm => P.mode = "vision" /\ Call(c).source = "same"
     /\ P.session # NoCall /\ P.mode = "vision" /\ S.mode = "plan" =>
          Mine(p) /\ Call(c).source = "plan" /\ (Call(c).at = "body" \/ Told(c))

\* What a step in manual mode is added to.
Fresh(P) == IF P.trackMode = "plan" THEN P.track ELSE <<>>

\* The session is not ahead of the list on the screen.
OrderedOf(p) ==
  panels[p].session # NoCall =>
    LET P == panels[p]
        c == P.current
        S == sessions[P.session]
    IN /\ S.mode = "plan" /\ ~Told(c) => S.cursor <= Len(Fresh(P))
       /\ Mine(p) /\ Told(c) /\ Call(c).answer.mode = "plan" =>
            LET a == Call(c).answer
            IN \/ a.index = NoIndex /\ a.text = "limit" /\ S.cursor <= Len(Fresh(P))
               \/ /\ a.index <= Len(Fresh(P)) /\ a.index <= Len(Guide) /\ S.cursor <= a.index + 1
                  /\ a.index < Len(Guide) => a.text = Guide[a.index + 1]

\* The session has confirmed what the user has marked as done, and would
\* confirm what is on the screen.
HeededOf(p) ==
  panels[p].session # NoCall =>
    LET P == panels[p]
        c == P.current
        S == sessions[P.session]
    IN /\ P.did \subseteq S.confirmed \/ S.count >= MaxSteps
       /\ P.track # <<>> /\ P.mode = "vision" /\ LastOf(P).state = "ready" /\ ~Told(c) =>
            S.said = LastOf(P).text /\ LastOf(P).text \in Instr
       /\ Mine(p) /\ Call(c).kind = "step" /\ Call(c).at \in {"exists", "prepare", "vision"} =>
            Done(c) \subseteq S.confirmed
       /\ Mine(p) /\ Told(c) =>
            /\ Done(c) \subseteq S.confirmed \/ S.count >= MaxSteps
            /\ Call(c).answer.mode = "vision" /\ Call(c).answer.state = "ready" =>
                 /\ S.said = Call(c).answer.text /\ Call(c).answer.text \in Instr

\* A finish of session s of panel p stands at one of these stages.
Finishing(p, s, stages) ==
  \E f \in DOMAIN calls : Call(f).kind = "finish" /\ Call(f).panel = p /\ Call(f).sid = s /\ Call(f).at \in stages

OpenedOf(p) ==
  \A c \in DOMAIN calls : Call(c).panel = p =>
    /\ sessions[c].open => Call(c).kind = "start" /\ (Told(c) \/ Call(c).at = "over")
    /\ Call(c).kind = "finish" =>
         \A d \in DOMAIN calls : Call(d).kind = "finish" /\ Call(d).panel = p => d = c

\* Whatever is left of a panel, its finish has yet to take away.
LeftOf(p) ==
  LET P == panels[p]
  IN /\ P.place = "gone" => P.current = NoCall
     /\ P.place = "shown" /\ P.session # NoCall => sessions[P.session].open
     /\ P.current # NoCall /\ Call(P.current).kind = "start" /\ Told(P.current) => sessions[P.current].open
     /\ \A c \in DOMAIN calls : Call(c).panel = p =>
          /\ Call(c).kind \in Turns /\ P.place = "shown" => P.session # NoCall
          /\ Call(c).kind = "finish" /\ Call(c).at \in {"sent", "drop"} => Session(c).open
          /\ sessions[c].open =>
               \/ P.place = "shown" /\ c \in {P.session, P.current}
               \/ Finishing(p, c, {"sent", "drop"})
          /\ Shot(c) \in disk \/ Copy(c) \in disk =>
               /\ Call(c).kind \in Turns
               /\ P.place = "shown" \/ \E s \in DOMAIN calls : Finishing(p, s, {"sent", "drop", "purge"})

\* What a user who has done nothing in a hurry can rely on.
CalmOf(p) == AgreedOf(p) /\ OrderedOf(p) /\ HeededOf(p) /\ LeftOf(p)

LinksOf(p) ==
  /\ \A c \in DOMAIN calls : Call(c).panel = p => CallLinked(c)
  /\ PanelLinked(p) /\ TrackLinked(p)

\* All that concerns panel p.
Sound(p) == LinksOf(p) /\ CountsOf(p) /\ OpenedOf(p) /\ (panels[p].calm => CalmOf(p))

\* The inductive invariant.
IInv == Typed /\ \A p \in Panels : Sound(p)

-----------------------------------------------------------------------------
(* Data *)

\* What the assumptions say of the constants.
LEMMA Known ==
  /\ NoCall = 0 /\ None \notin Instr /\ Len(Guide) \in Nat \ {0}
  /\ \A i \in 1 .. Len(Guide) : Guide[i] \in Instr
  /\ Instr \subseteq Texts /\ "allDone" \in Texts /\ ServiceTexts \subseteq Texts
  /\ StartModes \subseteq Modes /\ MaxSteps \in Nat
<1> QED BY SessionAssumption, WindowAssumption DEF Texts

\* The record of a call without a session is a session.
LEMMA NoSessionType == NoSession \in SessionType
<1> QED BY Known DEF NoSession, SessionType, Modes

\* createSession makes an open session at the start of its list, with no step counted.
LEMMA NewSessionType ==
  ASSUME NEW mode \in Modes, NEW matched \in BOOLEAN
  PROVE  /\ NewSession(mode, matched) \in SessionType
         /\ NewSession(mode, matched).open /\ NewSession(mode, matched).mode = mode
         /\ NewSession(mode, matched).cursor = 0 /\ NewSession(mode, matched).count = 0
<1> DEFINE planned == mode = "plan"
<1>1. NewSession(mode, matched) = [NoSession EXCEPT !.open = TRUE, !.mode = mode, !.planned = planned, !.docs = matched]
  BY DEF NewSession
<1>2. planned \in BOOLEAN
  OBVIOUS
<1>3. NoSession.cursor = 0 /\ NoSession.count = 0
  BY DEF NoSession
<1> HIDE DEF planned
<1> QED BY <1>1, <1>2, <1>3, NoSessionType DEF SessionType

\* confirmPreviousStep adds to the confirmed instructions and touches nothing else the user sees.
LEMMA ConfirmType ==
  ASSUME NEW s \in SessionType
  PROVE  /\ Confirm(s) \in SessionType
         /\ Confirm(s).open = s.open /\ Confirm(s).mode = s.mode /\ Confirm(s).cursor = s.cursor
         /\ Confirm(s).count = s.count /\ Confirm(s).said = s.said /\ Confirm(s).docs = s.docs
         /\ Confirm(s).confirmed = IF s.said = None THEN s.confirmed ELSE s.confirmed \cup {s.said}
<1> QED BY DEF Confirm, SessionType

CommitLeaves(s, state, text, own, advance) ==
  LET r == Commit(s, state, text, own, advance)
  IN /\ r \in SessionType
     /\ r.open = s.open /\ r.mode = s.mode /\ r.cursor = s.cursor /\ r.confirmed = s.confirmed
     /\ r.count \in {s.count, s.count + 1}
     /\ (~advance \/ state \in NoProgress) => r.count = s.count
     /\ r.said = IF own \/ state = "loop" THEN s.said ELSE text
     /\ r.files = s.files /\ r.docs = s.docs

\* commitStep counts at most one step, and none without progress.
LEMMA CommitType ==
  ASSUME NEW s \in SessionType, NEW state, NEW text \in Texts, NEW own \in BOOLEAN, NEW advance \in BOOLEAN
  PROVE  CommitLeaves(s, state, text, own, advance)
<1> DEFINE count == IF advance /\ state \notin NoProgress THEN s.count + 1 ELSE s.count
           said == IF own \/ state = "loop" THEN s.said ELSE text
<1>1. Commit(s, state, text, own, advance) = [s EXCEPT !.count = count, !.said = said]
  BY DEF Commit
<1>2. count \in Nat /\ said \in Texts \cup {None}
  BY DEF SessionType
<1>3. count \in {s.count, s.count + 1} /\ ((~advance \/ state \in NoProgress) => count = s.count)
  OBVIOUS
<1>4. said = IF own \/ state = "loop" THEN s.said ELSE text
  OBVIOUS
<1> HIDE DEF count, said
<1> QED BY <1>1, <1>2, <1>3, <1>4 DEF SessionType, CommitLeaves

\* The same, for the ways the code calls it.
LEMMA CommitsType ==
  ASSUME NEW s \in SessionType, NEW state, NEW text \in Texts
  PROVE  /\ CommitLeaves(s, state, text, TRUE, TRUE)
         /\ CommitLeaves(s, state, text, TRUE, FALSE)
         /\ CommitLeaves(s, state, text, FALSE, TRUE)
         /\ CommitLeaves(s, state, text, FALSE, FALSE)
<1>1. \A own, advance \in BOOLEAN : CommitLeaves(s, state, text, own, advance)
  BY CommitType
<1> QED BY <1>1

\* switchStepSource sets the mode and goes back to the first item of the list.
LEMMA SwitchedType ==
  ASSUME NEW s \in SessionType, NEW mode \in Modes
  PROVE  LET r == Switched(s, mode)
         IN /\ r \in SessionType
            /\ r.open = s.open /\ r.mode = mode /\ r.cursor = 0 /\ r.confirmed = s.confirmed
            /\ r.count = s.count /\ r.said = s.said
<1> DEFINE planned == s.planned \/ mode = "plan"
<1>1. Switched(s, mode) = [s EXCEPT !.mode = mode, !.planned = planned, !.cursor = 0, !.last = None]
  BY DEF Switched
<1>2. planned \in BOOLEAN
  OBVIOUS
<1>3. 0 \in 0 .. Len(Guide) /\ None \in Texts \cup {None}
  BY Known
<1> HIDE DEF planned
<1> QED BY <1>1, <1>2, <1>3 DEF SessionType

-----------------------------------------------------------------------------
(* What a step of a handler may touch                                      *)

SameRequest(r, call) ==
  /\ r.panel = call.panel /\ r.kind = call.kind /\ r.sid = call.sid /\ r.source = call.source
  /\ r.confirm = call.confirm /\ r.aborted = call.aborted /\ r.dropped = call.dropped

Served(c) ==
  /\ DOMAIN calls' = DOMAIN calls /\ DOMAIN sessions' = DOMAIN sessions /\ Len(sessions') = Len(calls')
  /\ calls' \in Seq(CallType) /\ sessions' \in Seq(SessionType)
  /\ \A d \in DOMAIN calls : d # c => calls'[d] = calls[d]
  /\ SameRequest(calls'[c], calls[c])
  /\ calls[c].at \notin {"capture", "answered", "over"} /\ calls'[c].at \notin {"capture", "sent", "over"}
  /\ calls'[c].at = "answered" => calls'[c].answer \in AnswerType
  /\ \A t \in DOMAIN sessions : t # calls[c].sid => sessions'[t] = sessions[t]

\* A call has a session, if only an empty one.
LEMMA CallKnown ==
  ASSUME Typed, CallsLinked, NEW c \in DOMAIN calls
  PROVE  /\ calls[c] \in CallType /\ calls[c].sid \in DOMAIN calls /\ sessions[calls[c].sid] \in SessionType
         /\ DOMAIN sessions = DOMAIN calls
<1> QED BY DEF Typed, CallsLinked, CallLinked, Call

\* A handler changes its own call and the session of that call.
LEMMA Moves ==
  ASSUME Typed, CallsLinked, NEW c \in DOMAIN calls, NEW r \in CallType, NEW s \in SessionType,
         calls[c].at \notin {"capture", "answered", "over"}, r.at \notin {"capture", "sent", "over"},
         SameRequest(r, calls[c]), r.at = "answered" => r.answer \in AnswerType,
         calls' = [calls EXCEPT ![c] = r], sessions' = [sessions EXCEPT ![calls[c].sid] = s]
  PROVE  Served(c) /\ calls'[c] = r /\ sessions'[calls[c].sid] = s
<1>1. calls' \in Seq(CallType) /\ DOMAIN calls' = DOMAIN calls /\ Len(calls') = Len(calls)
  BY DEF Typed
<1>2. calls[c].sid \in DOMAIN sessions
  BY CallKnown
<1>3. sessions' \in Seq(SessionType) /\ DOMAIN sessions' = DOMAIN sessions /\ Len(sessions') = Len(sessions)
  BY <1>2 DEF Typed
<1>4. calls'[c] = r /\ sessions'[calls[c].sid] = s
  BY <1>2
<1> QED BY <1>1, <1>2, <1>3, <1>4 DEF Served, Typed

\* An await changes the stage of the call and nothing else of it.
LEMMA GoesEffect ==
  ASSUME Typed, CallsLinked, NEW c \in DOMAIN calls, NEW stage \in Stages, NEW s \in SessionType,
         calls[c].at \notin {"capture", "answered", "over"}, stage \notin {"capture", "sent", "answered", "over"},
         Goes(c, stage, s)
  PROVE  /\ Served(c) /\ sessions'[calls[c].sid] = s
         /\ calls'[c].at = stage /\ calls'[c].asked = calls[c].asked
<1> DEFINE r == [calls[c] EXCEPT !.at = stage]
<1>1. calls[c] \in CallType
  BY CallKnown
<1>2. r \in CallType /\ SameRequest(r, calls[c]) /\ r.at = stage /\ r.asked = calls[c].asked
  BY <1>1 DEF CallType, SameRequest
<1>3. calls' = [calls EXCEPT ![c] = r] /\ sessions' = [sessions EXCEPT ![calls[c].sid] = s]
  BY DEF Goes
<1> HIDE DEF r
<1> QED BY <1>2, <1>3, Moves

\* An answer ends the call.
LEMMA AnswersEffect ==
  ASSUME Typed, CallsLinked, NEW c \in DOMAIN calls, NEW s \in SessionType, NEW answer \in AnswerType,
         calls[c].at \notin {"capture", "answered", "over"},
         Answers(c, s, answer)
  PROVE  /\ Served(c) /\ sessions'[calls[c].sid] = s
         /\ calls'[c].at = "answered" /\ calls'[c].answer = answer
<1> DEFINE r == [calls[c] EXCEPT !.at = "answered", !.asked = None, !.answer = answer]
<1>1. calls[c] \in CallType
  BY CallKnown
<1>2. r \in CallType /\ SameRequest(r, calls[c]) /\ r.at = "answered" /\ r.answer = answer
  BY <1>1 DEF CallType, SameRequest, Stages
<1>3. calls' = [calls EXCEPT ![c] = r] /\ sessions' = [sessions EXCEPT ![calls[c].sid] = s]
  BY DEF Answers
<1> HIDE DEF r
<1> QED BY <1>2, <1>3, Moves

\* An answer is what it is made of.
LEMMA AnswerTyped ==
  ASSUME NEW state \in {"ready", "wrong_window", "done", "unclear", "loop", "error"},
         NEW text \in Texts \cup {None}, NEW mode \in Modes, NEW index \in Nat
  PROVE  /\ Answer(state, text, mode, index) \in AnswerType
         /\ Answer(state, text, mode, index).state = state /\ Answer(state, text, mode, index).text = text
         /\ Answer(state, text, mode, index).mode = mode /\ Answer(state, text, mode, index).index = index
<1> QED BY DEF Answer, AnswerType

\* A failure is an answer.
LEMMA FailsEffect ==
  ASSUME Typed, CallsLinked, NEW c \in DOMAIN calls, NEW s \in SessionType,
         calls[c].at \notin {"capture", "answered", "over"}, Fails(c, s)
  PROVE  /\ Served(c) /\ sessions'[calls[c].sid] = s
         /\ calls'[c].at = "answered" /\ calls'[c].answer.state = "error"
<1>1. s.mode \in Modes /\ NoIndex \in Nat
  BY Known DEF SessionType, NoIndex
<1> QED BY <1>1, AnswersEffect, AnswerTyped DEF Fails

-----------------------------------------------------------------------------
(* What the handlers do, told by what they leave                           *)

Unlike(t, s) == t.open = s.open /\ t.mode = s.mode /\ t.cursor = s.cursor

Kept(t, s) == Unlike(t, s) /\ t.count = s.count /\ t.said = s.said /\ t.confirmed = s.confirmed

\* The session as it was at the step, and as the step leaves it.
Was(c) == sessions[calls[c].sid]
Is(c) == sessions'[calls[c].sid]

Given(c, states) ==
  /\ calls'[c].at = "answered" /\ calls'[c].answer.state \in states
  /\ calls'[c].answer.mode = Was(c).mode /\ Is(c).mode = Was(c).mode

StartServed(c) ==
  /\ calls[c].kind = "start" /\ Served(c) /\ disk' \subseteq disk
  /\ \/ calls'[c].at \in {"docs", "list"} /\ Is(c) \in {Was(c), NoSession}
     \/ calls'[c].at = "answered" /\ calls'[c].answer.state = "error" /\ Is(c) = NoSession
     \/ /\ calls'[c].at = "answered" /\ calls'[c].answer.state = "ready"
        /\ Is(c).open /\ Is(c).mode = calls'[c].answer.mode /\ Is(c).cursor = 0 /\ Is(c).count = 0

FinishServed(c) ==
  /\ calls[c].kind = "finish" /\ Served(c) /\ disk' \subseteq disk
  /\ \/ calls[c].at \in {"sent", "drop"} /\ calls'[c].at = "drop" /\ Is(c) = Was(c)
     \/ /\ calls[c].at = "drop" /\ calls'[c].at = "purge"
        /\ Is(c) = [Was(c) EXCEPT !.open = FALSE]
     \/ calls[c].at = "purge" /\ disk' = {} /\ calls'[c].at = "answered" /\ Is(c) = Was(c)
     \/ calls[c].at = "sent" /\ ~Was(c).open /\ calls'[c].at = "answered" /\ Is(c) = Was(c)

\* It fails, whatever the user had said.
Failed(c) ==
  /\ calls'[c].at = "answered" /\ calls'[c].answer.state = "error"
  /\ Unlike(Is(c), Was(c)) /\ Is(c).count = Was(c).count /\ Is(c).said = Was(c).said
  /\ Was(c).confirmed \subseteq Is(c).confirmed
  /\ calls[c].at = "body" => Was(c).mode = "vision"

\* It goes on, and leaves the session as it is.
Goes1(c) ==
  /\ Kept(Is(c), Was(c))
  /\ \/ calls[c].at = "sent" /\ calls'[c].at = "list" /\ calls[c].source = "plan" /\ calls[c].kind = "step"
     \/ calls[c].at = "sent" /\ calls'[c].at = "exists" /\ calls[c].kind = "stuck"
     \/ calls[c].at = "exists" /\ calls'[c].at = "prepare"
     \/ calls[c].at = "prepare" /\ calls'[c].at = "vision"
     \/ calls[c].at = "prepare" /\ calls'[c].at = "verify" /\ calls[c].kind = "step" /\ Was(c).mode = "plan"
        /\ calls'[c].asked \in Instr

SwitchedOver(c) ==
  /\ calls[c].kind = "step" /\ calls[c].at \in {"sent", "list"} /\ calls'[c].at = "body"
  /\ calls[c].source \in Modes
  /\ Is(c).open = Was(c).open /\ Is(c).mode = calls[c].source /\ Is(c).cursor = 0
  /\ Is(c).count = Was(c).count /\ Is(c).said = Was(c).said /\ Is(c).confirmed = Was(c).confirmed

Limited(c) ==
  /\ calls[c].kind = "step" /\ calls[c].at \in {"sent", "body"}
  /\ Given(c, {"unclear"}) /\ calls'[c].answer.text = "limit" /\ calls'[c].answer.index = NoIndex
  /\ Was(c).count >= MaxSteps /\ Kept(Is(c), Was(c))

\* The body of a step hears the user first.
Hears(c) ==
  /\ calls[c].kind = "step" /\ calls[c].at \in {"sent", "body"} /\ Was(c).count < MaxSteps
  /\ Is(c).open = Was(c).open /\ Is(c).mode = Was(c).mode
  /\ Is(c).confirmed = Was(c).confirmed \cup (IF calls[c].confirm /\ Was(c).said # None THEN {Was(c).said} ELSE {})
  /\ Is(c).count \in {Was(c).count, Was(c).count + 1}

ReadOut(c) ==
  /\ Hears(c) /\ Was(c).mode = "plan" /\ Given(c, {"ready", "done"})
  /\ calls'[c].answer.index = Was(c).cursor
  /\ Was(c).cursor < Len(Guide) =>
       calls'[c].answer.text = Guide[Was(c).cursor + 1] /\ Is(c).cursor = Was(c).cursor + 1
  /\ ~(Was(c).cursor < Len(Guide)) => Is(c).cursor = Was(c).cursor

Looked(c) ==
  /\ Hears(c) /\ Was(c).mode = "vision" /\ Given(c, {"unclear", "wrong_window"})
  /\ Is(c).cursor = Was(c).cursor /\ Is(c).said = Was(c).said

Turned(c) ==
  /\ Hears(c) /\ Was(c).mode = "vision" /\ calls'[c].at = "exists"
  /\ Is(c).cursor = Was(c).cursor /\ Is(c).said = Was(c).said /\ Is(c).count = Was(c).count

\* A turn ends: what it says, and what it adds to the session.
Proposed(c) ==
  /\ \/ calls[c].at = "exists" /\ Given(c, {"unclear"}) /\ Is(c).count = Was(c).count
     \/ calls[c].at = "vision"
     \/ calls[c].at = "verify"
  /\ Given(c, {"ready", "wrong_window", "done", "unclear", "loop"})
  /\ calls[c].kind = "stuck" => Is(c).count = Was(c).count
  /\ Is(c).count \in {Was(c).count, Was(c).count + 1}
  /\ Is(c).open = Was(c).open /\ Is(c).cursor = Was(c).cursor /\ Is(c).confirmed = Was(c).confirmed
  /\ calls[c].at # "verify" /\ calls'[c].answer.state = "ready" =>
       /\ calls'[c].answer.text \in Instr /\ Is(c).said = calls'[c].answer.text
       /\ calls[c].kind = "step" => ~Confirmed(Was(c), calls'[c].answer.text)

TurnServed(c) ==
  /\ calls[c].kind \in Turns /\ Served(c)
  /\ disk' \subseteq disk \cup {Copy(c)}
  /\ \/ Failed(c) \/ Goes1(c) \/ SwitchedOver(c) \/ Limited(c) \/ ReadOut(c) \/ Looked(c)
     \/ Turned(c) \/ Proposed(c)

\* What the handler of walkthrough.start does.
LEMMA StartsServed ==
  ASSUME Typed, CallsLinked, NEW c \in DOMAIN calls,
         StartUnknown(c) \/ StartPurge(c) \/ StartDocs(c) \/ StartList(c)
  PROVE  StartServed(c)
<1> USE DEF At, Call
<1>0. calls[c].kind = "start" /\ calls[c].at \in {"sent", "docs", "list"} /\ "vision" \in Modes /\ "plan" \in Modes
  BY DEF StartUnknown, StartPurge, StartDocs, StartList, Modes
<1>1. CASE StartPurge(c)
  <2> DEFINE r == [calls[c] EXCEPT !.at = "docs"]
  <2>1. r \in CallType /\ SameRequest(r, calls[c]) /\ r.at = "docs"
    BY CallKnown DEF CallType, SameRequest, Stages
  <2>2. calls' = [calls EXCEPT ![c] = r] /\ sessions' = [sessions EXCEPT ![calls[c].sid] = Was(c)] /\ disk' = {}
    BY <1>1, CallKnown DEF StartPurge, Was, Typed
  <2> HIDE DEF r
  <2>3. Served(c) /\ calls'[c].at = "docs" /\ Is(c) = Was(c)
    BY <1>0, <2>1, <2>2, CallKnown, Moves DEF Was, Is
  <2> QED BY <1>0, <2>2, <2>3 DEF StartServed
<1>2. CASE StartDocs(c)
  <2>1. PICK mode \in StartModes, matched \in BOOLEAN :
          \/ Answers(c, NewSession(mode, matched), Answer("ready", None, mode, NoIndex))
          \/ Goes(c, "list", NoSession)
          \/ Fails(c, NoSession)
    BY <1>2 DEF StartDocs, DocsMatch
  <2>2. mode \in Modes /\ NoIndex \in Nat /\ disk' = disk
    BY <1>2, Known DEF StartDocs, DocsMatch, NoIndex
  <2>3. CASE Answers(c, NewSession(mode, matched), Answer("ready", None, mode, NoIndex))
    <3>0. /\ NewSession(mode, matched) \in SessionType /\ NewSession(mode, matched).open
          /\ NewSession(mode, matched).mode = mode /\ NewSession(mode, matched).cursor = 0
          /\ NewSession(mode, matched).count = 0
      BY <2>1, <2>2, NewSessionType
    <3>2. LET a == Answer("ready", None, mode, NoIndex) IN a \in AnswerType /\ a.state = "ready" /\ a.mode = mode
      BY <2>2, AnswerTyped
    <3>1. Served(c) /\ Is(c) = NewSession(mode, matched)
          /\ calls'[c].at = "answered" /\ calls'[c].answer = Answer("ready", None, mode, NoIndex)
      BY <1>0, <2>3, <3>0, <3>2, AnswersEffect DEF Is
    <3> QED BY <1>0, <2>2, <3>0, <3>1, <3>2 DEF StartServed
  <2>4. CASE Goes(c, "list", NoSession)
    <3>1. Served(c) /\ Is(c) = NoSession /\ calls'[c].at = "list"
      BY <1>0, <2>4, GoesEffect, NoSessionType DEF Is, Stages
    <3> QED BY <1>0, <2>2, <3>1 DEF StartServed
  <2>5. CASE Fails(c, NoSession)
    <3>1. Served(c) /\ Is(c) = NoSession /\ calls'[c].at = "answered" /\ calls'[c].answer.state = "error"
      BY <1>0, <2>5, FailsEffect, NoSessionType DEF Is
    <3> QED BY <1>0, <2>2, <3>1 DEF StartServed
  <2> QED BY <2>1, <2>3, <2>4, <2>5
<1>3. CASE StartList(c)
  <2>2. NoIndex \in Nat /\ disk' = disk
    BY <1>3, Known DEF StartList, NoIndex
  <2>3. CASE Answers(c, NewSession("plan", TRUE), Answer("ready", None, "plan", NoIndex))
    <3>0. LET s == NewSession("plan", TRUE)
          IN s \in SessionType /\ s.open /\ s.mode = "plan" /\ s.cursor = 0 /\ s.count = 0
      BY <1>0, NewSessionType
    <3>2. LET a == Answer("ready", None, "plan", NoIndex) IN a \in AnswerType /\ a.state = "ready" /\ a.mode = "plan"
      BY <1>0, <2>2, AnswerTyped
    <3>1. Served(c) /\ Is(c) = NewSession("plan", TRUE)
          /\ calls'[c].at = "answered" /\ calls'[c].answer = Answer("ready", None, "plan", NoIndex)
      BY <1>0, <2>3, <3>0, <3>2, AnswersEffect DEF Is
    <3> QED BY <1>0, <2>2, <3>0, <3>1, <3>2 DEF StartServed
  <2>4. CASE Fails(c, NoSession)
    <3>1. Served(c) /\ Is(c) = NoSession /\ calls'[c].at = "answered" /\ calls'[c].answer.state = "error"
      BY <1>0, <2>4, FailsEffect, NoSessionType DEF Is
    <3> QED BY <1>0, <2>2, <3>1 DEF StartServed
  <2> QED BY <1>3, <2>3, <2>4 DEF StartList
<1>4. CASE StartUnknown(c)
  <2>1. Fails(c, NoSession) /\ disk' = disk
    BY <1>4 DEF StartUnknown
  <2>2. Served(c) /\ Is(c) = NoSession /\ calls'[c].at = "answered" /\ calls'[c].answer.state = "error"
    BY <1>0, <2>1, FailsEffect, NoSessionType DEF Is
  <2> QED BY <1>0, <2>1, <2>2 DEF StartServed
<1> QED BY <1>1, <1>2, <1>3, <1>4

\* What the handler of walkthrough.finish does.
LEMMA FinishesServed ==
  ASSUME Typed, CallsLinked, NEW c \in DOMAIN calls,
         FinishRemoves(c) \/ FinishDrop(c) \/ FinishPurge(c) \/ FinishUnknown(c)
  PROVE  FinishServed(c)
<1> USE DEF At, Call, Session
<1>0. Was(c) \in SessionType /\ Was(c).mode \in Modes /\ NoIndex \in Nat
  BY CallKnown, Known DEF SessionType, Was, NoIndex
<1>1. CASE FinishDrop(c)
  <2> DEFINE s == [Was(c) EXCEPT !.open = FALSE]
  <2>1. s \in SessionType
    BY <1>0 DEF SessionType
  <2>2. Goes(c, "purge", s) /\ disk' \subseteq disk
    BY <1>1 DEF FinishDrop, Was
  <2> HIDE DEF s
  <2>3. Served(c) /\ Is(c) = s /\ calls'[c].at = "purge"
    BY <1>1, <2>1, <2>2, GoesEffect DEF FinishDrop, Is, Stages
  <2> QED BY <1>1, <2>2, <2>3 DEF FinishServed, FinishDrop, Was, s
<1>2. CASE FinishPurge(c)
  <2>1. Answers(c, Was(c), Answer("ready", None, Was(c).mode, NoIndex)) /\ disk' = {}
    BY <1>2 DEF FinishPurge, Was
  <2>2. Served(c) /\ Is(c) = Was(c) /\ calls'[c].at = "answered"
    BY <1>0, <1>2, <2>1, AnswersEffect, AnswerTyped DEF FinishPurge, Is
  <2> QED BY <1>2, <2>1, <2>2 DEF FinishServed, FinishPurge
<1>3. CASE FinishUnknown(c)
  <2>1. Fails(c, Was(c)) /\ disk' = disk
    BY <1>3 DEF FinishUnknown, Was
  <2>2. Served(c) /\ Is(c) = Was(c) /\ calls'[c].at = "answered"
    BY <1>0, <1>3, <2>1, FailsEffect DEF FinishUnknown, Is
  <2> QED BY <1>3, <2>1, <2>2 DEF FinishServed, FinishUnknown, Was
<1>4. CASE FinishRemoves(c)
  <2>1. Goes(c, "drop", Was(c)) /\ disk' \subseteq disk /\ calls[c].kind = "finish" /\ calls[c].at \in {"sent", "drop"}
    BY <1>4 DEF FinishRemoves, Was
  <2>2. Served(c) /\ Is(c) = Was(c) /\ calls'[c].at = "drop"
    BY <1>0, <2>1, GoesEffect DEF Is, Stages
  <2> QED BY <2>1, <2>2 DEF FinishServed
<1> QED BY <1>1, <1>2, <1>3, <1>4

\* The session of a call has the values the code gives one.
LEMMA WasKnown ==
  ASSUME Typed, CallsLinked, NEW c \in DOMAIN calls
  PROVE  /\ Session(c) = Was(c) /\ Was(c) \in SessionType /\ Was(c).mode \in Modes
         /\ Was(c).cursor \in 0 .. Len(Guide) /\ Was(c).count \in Nat /\ Was(c).confirmed \subseteq Texts
         /\ Was(c).said \in Texts \cup {None}
         /\ NoIndex \in Nat /\ NoIndex = Len(Guide) + 1
<1> QED BY CallKnown, Known DEF SessionType, Was, NoIndex, Session, Call

\* What a step hears of the user, in what it leaves of the session.
LEMMA HeardType ==
  ASSUME Typed, CallsLinked, NEW c \in DOMAIN calls
  PROVE  LET h == Heard(c)
         IN /\ h \in SessionType /\ Unlike(h, Was(c)) /\ h.count = Was(c).count /\ h.said = Was(c).said
            /\ h.docs = Was(c).docs
            /\ h.confirmed = Was(c).confirmed \cup (IF calls[c].confirm /\ Was(c).said # None THEN {Was(c).said} ELSE {})
<1>1. CASE calls[c].confirm
  <2>1. Heard(c) = Confirm(Was(c))
    BY <1>1, WasKnown DEF Heard, Call
  <2>2. Was(c) \in SessionType
    BY WasKnown
  <2> QED BY <1>1, <2>1, <2>2, ConfirmType DEF Unlike
<1>2. CASE ~calls[c].confirm
  BY <1>2, WasKnown DEF Heard, Unlike, Call
<1> QED BY <1>1, <1>2

\* A session that is left alone is kept.
LEMMA KeptSelf == ASSUME NEW s PROVE Kept(s, s)
<1> QED BY DEF Kept, Unlike

\* walkthrough.step and walkthrough.stuck up to their first await.
LEMMA Entered ==
  ASSUME Typed, CallsLinked, NEW c \in DOMAIN calls, StepEnter(c) \/ StepList(c) \/ StuckEnter(c)
  PROVE  TurnServed(c)
<1> USE DEF At, Call
<1>0. calls[c].kind \in Turns /\ calls[c].at \in {"sent", "list"} /\ disk' = disk
  BY DEF StepEnter, StepList, StuckEnter, Turns
<1>1. ASSUME Fails(c, Was(c))
      PROVE  TurnServed(c)
  <2>1. Served(c) /\ Is(c) = Was(c) /\ calls'[c].at = "answered" /\ calls'[c].answer.state = "error"
    BY <1>0, <1>1, WasKnown, FailsEffect DEF Is, Was
  <2> QED BY <1>0, <2>1, KeptSelf DEF TurnServed, Failed, Kept
<1>2. ASSUME NEW stage \in {"list", "exists"}, Goes(c, stage, Was(c)),
             calls[c].at = "sent",
             stage = "list" => calls[c].source = "plan" /\ calls[c].kind = "step",
             stage = "exists" => calls[c].kind = "stuck"
      PROVE  TurnServed(c)
  <2>1. Served(c) /\ Is(c) = Was(c) /\ calls'[c].at = stage
    BY <1>0, <1>2, WasKnown, GoesEffect DEF Is, Was, Stages
  <2> QED BY <1>0, <1>2, <2>1, KeptSelf DEF TurnServed, Goes1
<1>3. ASSUME calls[c].kind = "step", calls[c].source \in Modes, Goes(c, "body", Switched(Was(c), calls[c].source))
      PROVE  TurnServed(c)
  <2> DEFINE s == Switched(Was(c), calls[c].source)
  <2>1. /\ s \in SessionType /\ s.open = Was(c).open /\ s.mode = calls[c].source /\ s.cursor = 0
        /\ s.count = Was(c).count /\ s.said = Was(c).said /\ s.confirmed = Was(c).confirmed
    BY <1>3, WasKnown, SwitchedType
  <2> HIDE DEF s
  <2>2. Served(c) /\ Is(c) = s /\ calls'[c].at = "body"
    BY <1>0, <1>3, <2>1, GoesEffect DEF Is, Stages, s
  <2> QED BY <1>0, <1>3, <2>1, <2>2 DEF TurnServed, SwitchedOver
<1>4. CASE StepEnter(c)
  <2>1. calls[c].kind = "step" /\ calls[c].at = "sent" /\ calls[c].source \in {"same"} \cup Modes
    BY <1>4, CallKnown DEF StepEnter, CallType
  <2>2. \/ Fails(c, Was(c))
        \/ calls[c].source = "plan" /\ Goes(c, "list", Was(c))
        \/ calls[c].source \in Modes /\ Goes(c, "body", Switched(Was(c), calls[c].source))
    BY <1>4, <2>1, WasKnown DEF StepEnter, Switches
  <2> QED BY <1>1, <1>2, <1>3, <2>1, <2>2
<1>5. CASE StepList(c)
  <2>1. calls[c].kind = "step" /\ calls[c].source = "plan" /\ "plan" \in Modes
    BY <1>5 DEF StepList, CallsLinked, CallLinked, Modes
  <2> QED BY <1>1, <1>3, <1>5, <2>1, WasKnown DEF StepList
<1>6. CASE StuckEnter(c)
  BY <1>1, <1>2, <1>6, WasKnown DEF StuckEnter
<1> QED BY <1>4, <1>5, <1>6

\* The body of walkthrough.step up to its next await.
LEMMA Bodied ==
  ASSUME Typed, CallsLinked, NEW c \in DOMAIN calls,
         StepLimit(c) \/ ManualStep(c) \/ StepNoDocs(c) \/ StepElsewhere(c) \/ StepTurn(c)
  PROVE  TurnServed(c)
<1> USE DEF At, Call
<1>0. calls[c].kind = "step" /\ calls[c].at \in {"sent", "body"} /\ disk' = disk
  BY DEF StepLimit, ManualStep, StepNoDocs, StepElsewhere, StepTurn, Looks, InBody
<1>0a. calls[c].kind \in Turns
  BY <1>0 DEF Turns
<1>1. CASE StepLimit(c)
  <2> DEFINE a == Answer("unclear", "limit", Was(c).mode, NoIndex)
  <2>1. a \in AnswerType /\ a.state = "unclear" /\ a.text = "limit" /\ a.mode = Was(c).mode /\ a.index = NoIndex
    BY WasKnown, AnswerTyped, Known DEF ServiceTexts
  <2> HIDE DEF a
  <2>2. Answers(c, Was(c), a) /\ Was(c).count >= MaxSteps
    BY <1>1, WasKnown, Known DEF StepLimit, BelowLimit, a
  <2>3. Served(c) /\ Is(c) = Was(c) /\ calls'[c].at = "answered" /\ calls'[c].answer = a
    BY <1>0, <2>1, <2>2, WasKnown, AnswersEffect DEF Is, Was
  <2>4. Limited(c)
    BY <1>0, <2>1, <2>2, <2>3, KeptSelf DEF Limited, Given
  <2> QED BY <1>0, <1>0a, <2>3, <2>4 DEF TurnServed
<1>h. ASSUME ~StepLimit(c)
      PROVE  /\ Was(c).count < MaxSteps
             /\ ManualStep(c) => Was(c).mode = "plan"
             /\ ~ManualStep(c) => Was(c).mode = "vision"
  BY <1>h, WasKnown DEF ManualStep, StepNoDocs, StepElsewhere, StepTurn, Looks, BelowLimit
<1> DEFINE h == Heard(c)
<1>9. /\ h \in SessionType /\ Unlike(h, Was(c)) /\ h.count = Was(c).count /\ h.said = Was(c).said
      /\ h.docs = Was(c).docs
      /\ h.confirmed = Was(c).confirmed \cup (IF calls[c].confirm /\ Was(c).said # None THEN {Was(c).said} ELSE {})
  BY HeardType
<1> HIDE DEF h
<1>2. CASE ManualStep(c) /\ ~StepLimit(c)
  <2> DEFINE item == h.cursor < Len(Guide)
             state == IF item THEN "ready" ELSE "done"
             text == IF item THEN Guide[h.cursor + 1] ELSE "allDone"
             a == Answer(state, text, "plan", h.cursor)
             s == Commit(h, state, text, FALSE, TRUE)
             t == [s EXCEPT !.cursor = IF item THEN @ + 1 ELSE @]
  <2>0. Answers(c, t, a)
    BY <1>2 DEF ManualStep, h
  <2>1. h.cursor \in 0 .. Len(Guide) /\ h.cursor = Was(c).cursor /\ h.cursor \in Nat
    BY <1>9, WasKnown, Known DEF Unlike
  <2>2. text \in Texts /\ state \in {"ready", "done"}
    BY <2>1, Known
  <2>3. a \in AnswerType /\ a.state = state /\ a.text = text /\ a.mode = "plan" /\ a.index = h.cursor
    BY <2>1, <2>2, AnswerTyped DEF Modes
  <2>4a. CommitLeaves(h, state, text, FALSE, TRUE)
    BY <1>9, <2>2, CommitsType
  <2>4. /\ s \in SessionType /\ s.open = h.open /\ s.mode = h.mode /\ s.cursor = h.cursor
        /\ s.confirmed = h.confirmed /\ s.count \in {h.count, h.count + 1}
    BY <2>4a DEF CommitLeaves
  <2> HIDE DEF s, a, state
  <2>5. /\ t \in SessionType /\ t.open = s.open /\ t.mode = s.mode /\ t.confirmed = s.confirmed /\ t.count = s.count
        /\ t.cursor = IF item THEN h.cursor + 1 ELSE h.cursor
    BY <2>1, <2>4, Known DEF SessionType
  <2> HIDE DEF t
  <2>6. Served(c) /\ Is(c) = t /\ calls'[c].at = "answered" /\ calls'[c].answer = a
    BY <1>0, <2>0, <2>3, <2>5, AnswersEffect DEF Is
  <2>7. Was(c).mode = "plan" /\ Was(c).count < MaxSteps
    BY <1>2, <1>h
  <2>8. Hears(c)
    BY <1>0, <1>9, <2>4, <2>5, <2>6, <2>7 DEF Hears, Unlike
  <2>9. ReadOut(c)
    BY <1>9, <2>1, <2>2, <2>3, <2>4, <2>5, <2>6, <2>7, <2>8 DEF ReadOut, Given, Unlike
  <2> QED BY <1>0, <1>0a, <2>6, <2>9 DEF TurnServed
<1>3. CASE StepNoDocs(c) /\ ~StepLimit(c) /\ ~ManualStep(c)
  <2> DEFINE a == Answer("unclear", "noDocs", "vision", NoIndex)
             s == Commit(h, "unclear", "noDocs", TRUE, FALSE)
             t == [s EXCEPT !.docs = TRUE]
  <2>0. Answers(c, t, a)
    BY <1>3 DEF StepNoDocs, h
  <2>1. "noDocs" \in Texts /\ "vision" \in Modes
    BY Known DEF ServiceTexts, Modes
  <2>2. a \in AnswerType /\ a.state = "unclear" /\ a.mode = "vision"
    BY <2>1, AnswerTyped, WasKnown
  <2>3a. CommitLeaves(h, "unclear", "noDocs", TRUE, FALSE)
    BY <1>9, <2>1, CommitsType
  <2>3. /\ s \in SessionType /\ s.open = h.open /\ s.mode = h.mode /\ s.cursor = h.cursor
        /\ s.confirmed = h.confirmed /\ s.count \in {h.count, h.count + 1} /\ s.said = h.said
    BY <2>3a DEF CommitLeaves
  <2> HIDE DEF s, a
  <2>4. /\ t \in SessionType /\ t.open = s.open /\ t.mode = s.mode /\ t.cursor = s.cursor
        /\ t.confirmed = s.confirmed /\ t.count = s.count /\ t.said = s.said
    BY <2>3 DEF SessionType
  <2> HIDE DEF t
  <2>5. Served(c) /\ Is(c) = t /\ calls'[c].at = "answered" /\ calls'[c].answer = a
    BY <1>0, <2>0, <2>2, <2>4, AnswersEffect DEF Is
  <2>6. Hears(c)
    BY <1>0, <1>3, <1>h, <1>9, <2>3, <2>4, <2>5 DEF Hears, Unlike
  <2>7. Looked(c)
    BY <1>3, <1>h, <1>9, <2>2, <2>3, <2>4, <2>5, <2>6 DEF Looked, Given, Unlike
  <2> QED BY <1>0, <1>0a, <2>5, <2>7 DEF TurnServed
<1>4. CASE StepElsewhere(c) /\ ~StepLimit(c) /\ ~ManualStep(c)
  <2> DEFINE a == Answer("wrong_window", "elsewhere", "vision", NoIndex)
             s == Commit(h, "wrong_window", "elsewhere", TRUE, TRUE)
             t == [s EXCEPT !.last = None, !.files = @ \cup {Shot(c)}]
  <2>0. Answers(c, t, a)
    BY <1>4 DEF StepElsewhere, h
  <2>1. "elsewhere" \in Texts /\ "vision" \in Modes /\ Shot(c) \in Nat \X {"shot", "copy"}
    BY Known DEF ServiceTexts, Modes, Shot, Typed
  <2>2. a \in AnswerType /\ a.state = "wrong_window" /\ a.mode = "vision"
    BY <2>1, AnswerTyped, WasKnown
  <2>3a. CommitLeaves(h, "wrong_window", "elsewhere", TRUE, TRUE)
    BY <1>9, <2>1, CommitsType
  <2>3. /\ s \in SessionType /\ s.open = h.open /\ s.mode = h.mode /\ s.cursor = h.cursor
        /\ s.confirmed = h.confirmed /\ s.count \in {h.count, h.count + 1} /\ s.said = h.said
    BY <2>3a DEF CommitLeaves
  <2> HIDE DEF s, a
  <2>4. /\ t \in SessionType /\ t.open = s.open /\ t.mode = s.mode /\ t.cursor = s.cursor
        /\ t.confirmed = s.confirmed /\ t.count = s.count /\ t.said = s.said
    BY <2>1, <2>3 DEF SessionType
  <2> HIDE DEF t
  <2>5. Served(c) /\ Is(c) = t /\ calls'[c].at = "answered" /\ calls'[c].answer = a
    BY <1>0, <2>0, <2>2, <2>4, AnswersEffect DEF Is
  <2>6. Hears(c)
    BY <1>0, <1>4, <1>h, <1>9, <2>3, <2>4, <2>5 DEF Hears, Unlike
  <2>7. Looked(c)
    BY <1>4, <1>h, <1>9, <2>2, <2>3, <2>4, <2>5, <2>6 DEF Looked, Given, Unlike
  <2> QED BY <1>0, <1>0a, <2>5, <2>7 DEF TurnServed
<1>5. CASE StepTurn(c) /\ ~StepLimit(c) /\ ~ManualStep(c)
  <2>1. CASE Goes(c, "exists", h)
    <3>1. Served(c) /\ Is(c) = h /\ calls'[c].at = "exists"
      BY <1>0, <1>9, <2>1, GoesEffect DEF Is, Stages
    <3>2. Turned(c)
      BY <1>0, <1>5, <1>h, <1>9, <3>1 DEF Turned, Hears, Unlike
    <3> QED BY <1>0, <1>0a, <3>1, <3>2 DEF TurnServed
  <2>2. CASE Fails(c, h)
    <3>1. Served(c) /\ Is(c) = h /\ calls'[c].at = "answered" /\ calls'[c].answer.state = "error"
      BY <1>0, <1>9, <2>2, FailsEffect DEF Is
    <3>2. Failed(c)
      BY <1>5, <1>h, <1>9, <3>1 DEF Failed
    <3> QED BY <1>0, <1>0a, <3>1, <3>2 DEF TurnServed
  <2> QED BY <1>5, <2>1, <2>2 DEF StepTurn, h
<1> QED BY <1>1, <1>2, <1>3, <1>4, <1>5

\* prepareTurn: the screenshot is looked for, and the model is asked.
LEMMA TurnsTaken ==
  ASSUME Typed, CallsLinked, NEW c \in DOMAIN calls,
         TurnBlocked(c) \/ TurnTracked(c) \/ TurnPrepared(c) \/ TurnFails(c) \/ VisionAborted(c)
  PROVE  TurnServed(c)
<1> USE DEF At, Call
<1>0. calls[c].kind \in Turns /\ calls[c].at \in Turning
  BY DEF TurnBlocked, TurnTracked, TurnPrepared, TurnFails, VisionAborted, RequestAborted, Turns, Turning, CallsLinked, CallLinked
<1>a. calls[c].at \notin {"capture", "answered", "over"}
  BY <1>0 DEF Turning
<1>1. CASE TurnFails(c) \/ VisionAborted(c)
  <2>1. Fails(c, Was(c)) /\ disk' = disk
    BY <1>1, WasKnown DEF TurnFails, VisionAborted, RequestAborted
  <2>2. Served(c) /\ Is(c) = Was(c) /\ calls'[c].at = "answered" /\ calls'[c].answer.state = "error"
    BY <1>a, <2>1, WasKnown, FailsEffect DEF Is, Was
  <2> QED BY <1>0, <2>1, <2>2, KeptSelf DEF TurnServed, Failed, Kept, Turning
<1>2. CASE TurnTracked(c)
  <2> DEFINE s == [Was(c) EXCEPT !.files = @ \cup {Shot(c)}]
  <2>1. Shot(c) \in Nat \X {"shot", "copy"}
    BY DEF Shot, Typed
  <2>2. s \in SessionType /\ Kept(s, Was(c))
    BY <2>1, WasKnown DEF SessionType, Kept, Unlike
  <2>3. Goes(c, "prepare", s) /\ disk' = disk /\ calls[c].at = "exists"
    BY <1>2, WasKnown DEF TurnTracked
  <2> HIDE DEF s
  <2>4. Served(c) /\ Is(c) = s /\ calls'[c].at = "prepare"
    BY <1>a, <2>2, <2>3, GoesEffect DEF Is, Stages
  <2> QED BY <1>0, <2>2, <2>3, <2>4 DEF TurnServed, Goes1
<1>3. CASE TurnPrepared(c)
  <2> DEFINE verify == calls[c].kind = "step" /\ Was(c).mode = "plan"
             stage == IF verify THEN "verify" ELSE "vision"
             asked == IF verify THEN Item(Was(c)) ELSE Was(c).said
             r == [calls[c] EXCEPT !.at = stage, !.asked = asked]
             s == [Was(c) EXCEPT !.files = @ \cup {Copy(c)}]
  <2>1. calls' = [calls EXCEPT ![c] = r]
    BY <1>3, WasKnown DEF TurnPrepared
  <2>2. sessions' = [sessions EXCEPT ![calls[c].sid] = s]
    BY <1>3 DEF TurnPrepared, Was
  <2>3. calls[c].at = "prepare" /\ disk' = disk \cup {Copy(c)}
    BY <1>3 DEF TurnPrepared
  <2>4. Copy(c) \in Nat \X {"shot", "copy"}
    BY DEF Copy, Typed
  <2>5. s \in SessionType /\ Kept(s, Was(c))
    BY <2>4, WasKnown DEF SessionType, Kept, Unlike
  <2>6. Item(Was(c)) \in Instr
    BY WasKnown, Known DEF Item
  <2>7. stage \in {"verify", "vision"} /\ stage \in Stages /\ asked \in Texts \cup {None}
    BY <2>6, WasKnown, Known DEF Stages
  <2>8. stage = "verify" => calls[c].kind = "step" /\ Was(c).mode = "plan" /\ asked \in Instr
    BY <2>6
  <2> HIDE DEF s, asked, stage
  <2>b. calls[c] \in CallType
    BY CallKnown
  <2>9. r \in CallType /\ SameRequest(r, calls[c]) /\ r.at = stage /\ r.asked = asked
    BY <2>7, <2>b DEF CallType, SameRequest
  <2> HIDE DEF r
  <2>10. Served(c) /\ calls'[c] = r /\ Is(c) = s
    BY <1>a, <2>1, <2>2, <2>5, <2>7, <2>9, Moves DEF Is
  <2> QED BY <1>0, <2>3, <2>5, <2>7, <2>8, <2>9, <2>10 DEF TurnServed, Goes1
<1>4. CASE TurnBlocked(c)
  <2> DEFINE a == Answer("unclear", "noScreenshot", Was(c).mode, NoIndex)
             s == Commit(Was(c), "unclear", "noScreenshot", FALSE, FALSE)
             t == IF calls[c].kind = "stuck" THEN Was(c) ELSE s
  <2>1. "noScreenshot" \in Texts
    BY Known DEF ServiceTexts
  <2>2. a \in AnswerType /\ a.state = "unclear" /\ a.mode = Was(c).mode
    BY <2>1, AnswerTyped, WasKnown
  <2>3. CommitLeaves(Was(c), "unclear", "noScreenshot", FALSE, FALSE)
    BY <2>1, WasKnown, CommitsType
  <2>4. /\ s \in SessionType /\ Unlike(s, Was(c)) /\ s.confirmed = Was(c).confirmed /\ s.count = Was(c).count
    BY <2>3 DEF CommitLeaves, Unlike
  <2>5. Answers(c, t, a) /\ disk' = disk /\ calls[c].at = "exists"
    BY <1>4, WasKnown DEF TurnBlocked
  <2> HIDE DEF a, s
  <2>6. /\ t \in SessionType /\ Unlike(t, Was(c)) /\ t.confirmed = Was(c).confirmed /\ t.count = Was(c).count
    BY <2>4, WasKnown DEF Unlike
  <2> HIDE DEF t
  <2>7. Served(c) /\ Is(c) = t /\ calls'[c].at = "answered" /\ calls'[c].answer = a
    BY <1>a, <2>2, <2>5, <2>6, AnswersEffect DEF Is
  <2>8. Proposed(c)
    BY <2>2, <2>5, <2>6, <2>7, WasKnown DEF Proposed, Given, Unlike
  <2> QED BY <1>0, <2>5, <2>7, <2>8 DEF TurnServed
<1> QED BY <1>1, <1>2, <1>3, <1>4

\* What the model may answer.
LEMMA ModelTyped ==
  ASSUME NEW c, NEW m \in ModelAnswers(c)
  PROVE  /\ m.state \in {"ready", "wrong_window", "done", "unclear"} /\ m.text \in Texts
         /\ m.denied \in BOOLEAN
         /\ m.state = "ready" => m.text \in Instr
<1>1. CASE m \in [state : ModelStates, text : Instr, denied : Denials(c)]
  BY <1>1, Known DEF ModelStates, Denials
<1>2. CASE m = NoAnswer
  BY <1>2, Known DEF ServiceTexts, NoAnswer
<1> QED BY <1>1, <1>2 DEF ModelAnswers

\* The model has answered, or was cut off.
LEMMA Modelled ==
  ASSUME Typed, CallsLinked, NEW c \in DOMAIN calls,
         VisionStep(c) \/ VerifiedStep(c) \/ VisionStuck(c)
  PROVE  TurnServed(c)
<1> USE DEF At, Call
<1>0. /\ calls[c].kind \in Turns /\ calls[c].at \in {"vision", "verify"} /\ disk' = disk
      /\ calls[c].at \notin {"capture", "answered", "over"}
  BY DEF VisionStep, VerifiedStep, VisionStuck, Turns
<1>1. CASE VisionStep(c)
  <2>1. PICK m \in ModelAnswers(c) : Guarded(c, m)
    BY <1>1 DEF VisionStep
  <2>2. /\ m.state \in {"ready", "wrong_window", "done", "unclear"} /\ m.text \in Texts
        /\ m.state = "ready" => m.text \in Instr
    BY ModelTyped
  <2> DEFINE w == Was(c)
             human == calls[c].confirm \/ (calls[c].asked # None /\ Confirmed(w, calls[c].asked))
             known == Confirmed(w, m.text) /\ m.state # "done"
             again == m.text = w.last /\ m.state = "ready"
             state == IF known \/ again THEN "loop" ELSE m.state
             text == IF known THEN "repeats" ELSE m.text
             advance == human \/ ~m.denied
             v == [w EXCEPT !.last = m.text]
             s == Commit(v, state, text, FALSE, advance)
             a == Answer(state, text, w.mode, NoIndex)
  <2>3. Answers(c, s, a)
    BY <2>1, WasKnown DEF Guarded
  <2>4. /\ state \in {"ready", "wrong_window", "done", "unclear", "loop"} /\ text \in Texts
        /\ state = "ready" => text \in Instr /\ ~Confirmed(w, text)
    BY <2>2, Known DEF ServiceTexts
  <2>5. advance \in BOOLEAN
    BY DEF Confirmed
  <2> HIDE DEF advance, state, text
  <2>6. v \in SessionType /\ Kept(v, w)
    BY <2>2, WasKnown DEF SessionType, Kept, Unlike
  <2> HIDE DEF v
  <2>7. \A own, ad \in BOOLEAN : CommitLeaves(v, state, text, own, ad)
    BY <2>4, <2>6, CommitType
  <2>8. CommitLeaves(v, state, text, FALSE, advance)
    BY <2>5, <2>7
  <2>9. /\ s \in SessionType /\ s.open = v.open /\ s.mode = v.mode /\ s.cursor = v.cursor
        /\ s.confirmed = v.confirmed /\ s.count \in {v.count, v.count + 1} /\ (state = "ready" => s.said = text)
    BY <2>8 DEF CommitLeaves
  <2>10. a \in AnswerType /\ a.state = state /\ a.text = text /\ a.mode = w.mode
    BY <2>4, AnswerTyped, WasKnown
  <2> HIDE DEF s, a
  <2>11. Served(c) /\ Is(c) = s /\ calls'[c].at = "answered" /\ calls'[c].answer = a
    BY <1>0, <2>3, <2>9, <2>10, AnswersEffect DEF Is
  <2>12. calls[c].kind = "step" /\ calls[c].at = "vision"
    BY <1>1 DEF VisionStep
  <2>13. Proposed(c)
    BY <2>4, <2>6, <2>9, <2>10, <2>11, <2>12 DEF Proposed, Given, Kept, Unlike
  <2> QED BY <1>0, <2>11, <2>13 DEF TurnServed
<1>2. ASSUME NEW state \in {"ready", "wrong_window", "done", "unclear"}, NEW text \in Texts, NEW advance \in {FALSE, TRUE},
             CommitLeaves(Was(c), state, text, FALSE, advance),
             Answers(c, Commit(Was(c), state, text, FALSE, advance), Answer(state, text, Was(c).mode, NoIndex)),
             calls[c].kind = "step" => calls[c].at = "verify",
             calls[c].kind = "stuck" => ~advance,
             calls[c].at # "verify" /\ state = "ready" => text \in Instr
      PROVE  TurnServed(c)
  <2> DEFINE w == Was(c)
             s == Commit(w, state, text, FALSE, advance)
             a == Answer(state, text, w.mode, NoIndex)
  <2>1. /\ s \in SessionType /\ s.open = w.open /\ s.mode = w.mode /\ s.cursor = w.cursor
        /\ s.confirmed = w.confirmed /\ s.count \in {w.count, w.count + 1} /\ s.said = text
        /\ ~advance => s.count = w.count
    BY <1>2 DEF CommitLeaves
  <2>2. a \in AnswerType /\ a.state = state /\ a.text = text /\ a.mode = w.mode
    BY AnswerTyped, WasKnown
  <2>3. Answers(c, s, a)
    BY <1>2
  <2> HIDE DEF s, a
  <2>4. Served(c) /\ Is(c) = s /\ calls'[c].at = "answered" /\ calls'[c].answer = a
    BY <1>0, <2>1, <2>2, <2>3, AnswersEffect DEF Is
  <2>5. Proposed(c)
    BY <1>0, <1>2, <2>1, <2>2, <2>4 DEF Proposed, Given, Turns
  <2> QED BY <1>0, <2>4, <2>5 DEF TurnServed
<1>3. CASE VerifiedStep(c)
  <2>1. calls[c].kind = "step" /\ calls[c].at = "verify"
    BY <1>3 DEF VerifiedStep
  <2>2. PICK m \in ModelAnswers(c) :
          LET text == IF m.state \in {"ready", "done"} THEN calls[c].asked ELSE m.text
          IN Answers(c, Commit(Was(c), m.state, text, FALSE, TRUE), Answer(m.state, text, Was(c).mode, NoIndex))
    BY <1>3, WasKnown DEF VerifiedStep
  <2> DEFINE text == IF m.state \in {"ready", "done"} THEN calls[c].asked ELSE m.text
  <2>3. m.state \in {"ready", "wrong_window", "done", "unclear"} /\ m.text \in Texts
    BY ModelTyped
  <2>4. text \in Texts
    BY <2>1, <2>3, Known DEF CallsLinked, CallLinked
  <2>5. CommitLeaves(Was(c), m.state, text, FALSE, TRUE)
    BY <2>4, WasKnown, CommitsType
  <2> HIDE DEF text
  <2> QED BY <1>2, <2>1, <2>2, <2>3, <2>4, <2>5 DEF text
<1>4. CASE VisionStuck(c)
  <2>1. calls[c].kind = "stuck" /\ calls[c].at = "vision"
    BY <1>4 DEF VisionStuck
  <2>2. PICK m \in ModelAnswers(c) :
          Answers(c, Commit(Was(c), m.state, m.text, FALSE, FALSE), Answer(m.state, m.text, Was(c).mode, NoIndex))
    BY <1>4, WasKnown DEF VisionStuck
  <2>3. /\ m.state \in {"ready", "wrong_window", "done", "unclear"} /\ m.text \in Texts
        /\ m.state = "ready" => m.text \in Instr
    BY ModelTyped
  <2>5. CommitLeaves(Was(c), m.state, m.text, FALSE, FALSE)
    BY <2>3, WasKnown, CommitsType
  <2> QED BY <1>2, <2>1, <2>2, <2>3, <2>5
<1> QED BY <1>1, <1>3, <1>4

\* A step of a handler is a step of start, of finish or of a turn.
LEMMA Serves ==
  ASSUME Typed, CallsLinked, NEW c \in DOMAIN calls, Serve(c)
  PROVE  StartServed(c) \/ FinishServed(c) \/ TurnServed(c)
<1> QED BY StartsServed, FinishesServed, Entered, Bodied, TurnsTaken, Modelled DEF Serve

-----------------------------------------------------------------------------
(* What the users and the hooks do                                         *)

\* A call as its maker sends it is a call.
LEMMA NewCallType ==
  ASSUME NEW p \in Panels, NEW kind \in {"start", "step", "stuck", "finish"}, NEW sid \in Nat \ {0},
         NEW source \in {"same"} \cup Modes, NEW confirm \in BOOLEAN, NEW shot \in BOOLEAN
  PROVE  LET k == NewCall(p, kind, sid, source, confirm, shot)
         IN /\ k \in CallType /\ k.panel = p /\ k.kind = kind /\ k.sid = sid /\ k.source = source
            /\ k.confirm = confirm /\ k.at = (IF shot THEN "capture" ELSE "sent")
            /\ ~k.aborted /\ ~k.dropped /\ k.answer = None
<1> DEFINE at == IF shot THEN "capture" ELSE "sent"
<1>1. NewCall(p, kind, sid, source, confirm, shot) =
        [panel |-> p, kind |-> kind, sid |-> sid, source |-> source, confirm |-> confirm,
         shot |-> shot, at |-> at, asked |-> None, aborted |-> FALSE, dropped |-> FALSE, answer |-> None]
  BY Zenon DEF NewCall
<1>2. at \in Stages
  BY DEF Stages
<1> HIDE DEF at
<1>3. [panel |-> p, kind |-> kind, sid |-> sid, source |-> source, confirm |-> confirm,
       shot |-> shot, at |-> at, asked |-> None, aborted |-> FALSE, dropped |-> FALSE, answer |-> None] \in CallType
  BY <1>2 DEF CallType
<1> QED BY <1>1, <1>3 DEF at

PlainCall(p, kind, sid) == NewCall(p, kind, sid, "same", FALSE, FALSE)

\* The same for a call without a screenshot.
LEMMA PlainCallType ==
  ASSUME NEW p \in Panels, NEW kind \in {"start", "step", "stuck", "finish"}, NEW sid \in Nat \ {0}
  PROVE  LET k == PlainCall(p, kind, sid)
         IN /\ k \in CallType /\ k.panel = p /\ k.kind = kind /\ k.sid = sid /\ k.at = "sent"
            /\ ~k.aborted /\ ~k.dropped /\ ~k.confirm
<1>1. \A source \in {"same"} \cup Modes, confirm, shot \in BOOLEAN :
        LET k == NewCall(p, kind, sid, source, confirm, shot)
        IN /\ k \in CallType /\ k.panel = p /\ k.kind = kind /\ k.sid = sid
           /\ k.confirm = confirm /\ k.at = (IF shot THEN "capture" ELSE "sent")
           /\ ~k.aborted /\ ~k.dropped
  BY NewCallType
<1>2. "same" \in {"same"} \cup Modes
  OBVIOUS
<1> QED BY <1>1, <1>2 DEF PlainCall

\* What is left of a call keeps its panel, its kind and its session.
LEMMA OverType ==
  ASSUME NEW k \in CallType
  PROVE  /\ Over(k) \in CallType /\ Over(k).panel = k.panel /\ Over(k).kind = k.kind /\ Over(k).sid = k.sid
         /\ Over(k).at = "over" /\ Over(k).dropped = k.dropped /\ ~Over(k).aborted /\ ~Over(k).confirm
<1> DEFINE n == PlainCall(k.panel, k.kind, k.sid)
<1>1. /\ n \in CallType /\ n.panel = k.panel /\ n.kind = k.kind /\ n.sid = k.sid /\ ~n.aborted /\ ~n.confirm
  BY PlainCallType DEF CallType
<1>2. Over(k) = [n EXCEPT !.at = "over", !.dropped = k.dropped]
  BY DEF Over, PlainCall
<1> HIDE DEF n
<1> QED BY <1>1, <1>2 DEF CallType, Stages

\* A call is added, and a place for its session.
Added(those, k) ==
  /\ DOMAIN calls' = DOMAIN calls \cup {Next1} /\ Next1 \notin DOMAIN calls /\ Next1 \in Nat \ {0}
  /\ DOMAIN sessions' = DOMAIN calls' /\ Len(sessions') = Len(calls')
  /\ calls' \in Seq(CallType) /\ sessions' \in Seq(SessionType)
  /\ \A d \in DOMAIN calls : calls'[d] = those[d] /\ sessions'[d] = sessions[d]
  /\ calls'[Next1] = k /\ sessions'[Next1] = NoSession

\* A new call comes after the others, with a place for its session.
LEMMA MakesEffect ==
  ASSUME Typed, NEW those \in Seq(CallType), Len(those) = Len(calls), NEW k \in CallType, Makes(those, k)
  PROVE  Added(those, k)
<1>1. /\ Len(calls) \in Nat /\ DOMAIN calls = 1 .. Len(calls) /\ DOMAIN sessions = 1 .. Len(calls)
      /\ sessions \in Seq(SessionType)
  BY DEF Typed
<1>2. /\ calls' \in Seq(CallType) /\ Len(calls') = Len(calls) + 1
      /\ DOMAIN calls' = 1 .. Len(calls) + 1
      /\ \A d \in DOMAIN calls : calls'[d] = those[d]
      /\ calls'[Next1] = k
  BY <1>1 DEF Makes, Next1
<1>3. /\ sessions' \in Seq(SessionType) /\ Len(sessions') = Len(calls) + 1
      /\ DOMAIN sessions' = 1 .. Len(calls) + 1
      /\ \A d \in DOMAIN calls : sessions'[d] = sessions[d]
      /\ sessions'[Next1] = NoSession
  BY <1>1, NoSessionType DEF Makes, Next1, Typed
<1> QED BY <1>1, <1>2, <1>3 DEF Added, Next1

\* Panel p is changed.
Changed(p, P) ==
  /\ P \in PanelType /\ panels' \in [Panels -> PanelType] /\ panels'[p] = P
  /\ \A q \in Panels : q # p => panels'[q] = panels[q]

\* A step of the hook changes one panel.
LEMMA PanelSet ==
  ASSUME Typed, NEW p \in Panels, NEW P \in PanelType, panels' = [panels EXCEPT ![p] = P]
  PROVE  Changed(p, P)
<1> QED BY DEF Typed, Changed

\* Call c is changed, and nothing else of the sidecar.
Altered(c, k) ==
  /\ k \in CallType /\ calls' \in Seq(CallType) /\ DOMAIN calls' = DOMAIN calls /\ Len(calls') = Len(calls)
  /\ calls'[c] = k /\ \A d \in DOMAIN calls : d # c => calls'[d] = calls[d]
  /\ sessions' = sessions

\* A step of the hook changes one call.
LEMMA CallSet ==
  ASSUME Typed, NEW c \in DOMAIN calls, NEW k \in CallType, calls' = [calls EXCEPT ![c] = k], sessions' = sessions
  PROVE  Altered(c, k)
<1> QED BY DEF Typed, Altered

\* A user asks for a session, or for a step in it.
Began(p) ==
  \E k \in CallType, P \in PanelType :
    /\ Added(calls, k) /\ Changed(p, P) /\ disk' = disk
    /\ panels[p].current = NoCall /\ P.current = Next1 /\ P.place = "shown"
    /\ P = [panels[p] EXCEPT !.current = Next1, !.place = "shown"]
    /\ k.panel = p /\ ~k.aborted /\ ~k.dropped /\ k.at \in {"capture", "sent"}
    /\ \/ /\ k.kind = "start" /\ k.sid = Next1 /\ k.at = "sent" /\ ~k.confirm /\ panels[p].place \in {"new", "shown"}
          /\ panels[p].session = NoCall \/ ~panels[p].calm
       \/ /\ k.kind \in Turns /\ k.sid = panels[p].session /\ panels[p].session # NoCall
          /\ panels[p].place = "shown"
          /\ k.kind = "stuck" => ~k.confirm
          /\ k.kind = "stuck" \/ k.confirm => panels[p].mode = "vision" /\ k.source = "same"
          /\ k.confirm => panels[p].track # <<>>

Cancelled(p) ==
  \E k \in CallType, P \in PanelType :
    LET c == panels[p].current
    IN /\ c # NoCall /\ Altered(c, k) /\ Changed(p, P) /\ disk' = disk
       /\ k.panel = p /\ k.kind = calls[c].kind /\ k.sid = calls[c].sid /\ k.source = calls[c].source
       /\ k.confirm = calls[c].confirm /\ k.at = calls[c].at /\ k.answer = calls[c].answer
       /\ k.asked = calls[c].asked /\ k.dropped
       /\ P = [panels[p] EXCEPT !.current = NoCall, !.view = "cancelled", !.calm = FALSE]

\* beginBusy: the panel waits for the new call.
LEMMA BeginsEffect ==
  ASSUME Typed, Links, NEW p \in Panels, NEW k \in CallType, Begins(p, k), panels[p].current = NoCall,
         panels' = [panels EXCEPT ![p] = [panels[p] EXCEPT !.current = Next1, !.place = "shown"]]
  PROVE  LET P == [panels[p] EXCEPT !.current = Next1, !.place = "shown"]
         IN P \in PanelType /\ Added(calls, k) /\ Changed(p, P) /\ disk' = disk /\ P.current = Next1 /\ P.place = "shown"
<1> DEFINE P == [panels[p] EXCEPT !.current = Next1, !.place = "shown"]
<1>1. Added(calls, k) /\ disk' = disk
  BY MakesEffect DEF Begins, Typed
<1>2. P \in PanelType /\ P.current = Next1 /\ P.place = "shown"
  BY <1>1 DEF Typed, PanelType, Added
<1> HIDE DEF P
<1>3. Changed(p, P)
  BY <1>2, PanelSet DEF P
<1> QED BY <1>1, <1>2, <1>3 DEF P

\* The panel opens, or starts its session again.
LEMMA Starting ==
  ASSUME Typed, Links, NEW p \in Panels, Open(p) \/ Restart(p)
  PROVE  Began(p)
<1> DEFINE k == PlainCall(p, "start", Next1)
<1>0. Next1 \in Nat \ {0}
  BY DEF Next1, Typed
<1>1. /\ k \in CallType /\ k.panel = p /\ k.kind = "start" /\ k.sid = Next1 /\ ~k.aborted /\ ~k.dropped
      /\ k.at = "sent" /\ ~k.confirm
  BY <1>0, PlainCallType
<1>2. /\ panels[p].current = NoCall /\ panels[p].place \in {"new", "shown"}
      /\ panels[p].session = NoCall \/ ~panels[p].calm
  BY DEF Open, Restart, Idle, Waits, Links, PanelsLinked, PanelLinked
<1>3. panels' = [panels EXCEPT ![p] = [panels[p] EXCEPT !.current = Next1, !.place = "shown"]]
  BY DEF Open, Restart, Idle, Typed, PanelType
<1>4. Begins(p, k)
  BY DEF Open, Restart, StartCall, PlainCall
<1> HIDE DEF k
<1> QED BY <1>1, <1>2, <1>3, <1>4, BeginsEffect DEF Began

\* advance: a panel that has a session asks for a step of it.
LEMMA Asking ==
  ASSUME Typed, Links, NEW p \in Panels,
         NEW kind \in Turns, NEW source \in {"same"} \cup Modes, NEW confirm \in BOOLEAN,
         InSession(p), AsksFor(p, kind, source, confirm),
         kind = "stuck" => ~confirm,
         kind = "stuck" \/ confirm => panels[p].mode = "vision" /\ source = "same",
         confirm => panels[p].track # <<>>
  PROVE  Began(p)
<1> DEFINE shot == kind = "stuck" \/ (IF source = "same" THEN panels[p].mode ELSE source) = "vision"
           k == NewCall(p, kind, panels[p].session, source, confirm, shot)
<1>0. panels[p].session \in Nat \ {0} /\ panels[p].current = NoCall /\ panels[p].place = "shown"
  BY DEF InSession, Idle, Waits, Typed, PanelType, Links, PanelsLinked, PanelLinked
<1>1. shot \in BOOLEAN
  OBVIOUS
<1>2. Begins(p, k)
  BY DEF AsksFor, StepCall
<1> HIDE DEF shot
<1>3. kind \in {"start", "step", "stuck", "finish"}
  BY DEF Turns
<1>4. /\ k \in CallType /\ k.panel = p /\ k.kind = kind /\ k.sid = panels[p].session /\ ~k.aborted /\ ~k.dropped
      /\ k.at \in {"capture", "sent"} /\ k.source = source /\ k.confirm = confirm
  BY <1>0, <1>1, <1>3, NewCallType
<1>5. panels' = [panels EXCEPT ![p] = [panels[p] EXCEPT !.current = Next1, !.place = "shown"]]
  BY <1>0 DEF AsksFor, Typed, PanelType
<1> HIDE DEF k
<1> QED BY <1>0, <1>2, <1>4, <1>5, BeginsEffect DEF Began, InSession

\* Each button of a panel asks for a step.
LEMMA Stepping ==
  ASSUME Typed, Links, NEW p \in Panels,
         Retry(p) \/ GoOn(p) \/ ConfirmDone(p) \/ Stuck(p) \/ SwitchMode(p)
  PROVE  Began(p)
<1>1. "step" \in Turns /\ "stuck" \in Turns /\ FALSE \in BOOLEAN /\ TRUE \in BOOLEAN
  BY DEF Turns
<1>2. \A kind \in Turns, source \in {"same"} \cup Modes, confirm \in BOOLEAN :
        /\ InSession(p) /\ AsksFor(p, kind, source, confirm)
        /\ (kind = "stuck" => ~confirm)
        /\ (kind = "stuck" \/ confirm => panels[p].mode = "vision" /\ source = "same")
        /\ (confirm => panels[p].track # <<>>)
        => Began(p)
  BY Asking
<1>3. ASSUME NEW source \in {"same"} \cup Modes, InSession(p), AsksFor(p, "step", source, FALSE)
      PROVE  Began(p)
  BY <1>1, <1>2, <1>3
<1>4. CASE Retry(p) \/ GoOn(p)
  BY <1>3, <1>4 DEF Retry, GoOn, Shows
<1>5. CASE SwitchMode(p)
  <2> DEFINE source == IF panels[p].mode = "vision" THEN "plan" ELSE "vision"
  <2>1. source \in {"same"} \cup Modes
    BY DEF Modes
  <2>2. InSession(p) /\ AsksFor(p, "step", source, FALSE)
    BY <1>5 DEF SwitchMode
  <2> HIDE DEF source
  <2> QED BY <1>3, <2>1, <2>2
<1>6. CASE ConfirmDone(p)
  <2>1. /\ InSession(p) /\ AsksFor(p, "step", "same", TRUE)
        /\ panels[p].mode = "vision" /\ panels[p].track # <<>>
    BY <1>6 DEF ConfirmDone, Shows
  <2> QED BY <1>1, <1>2, <2>1
<1>7. CASE Stuck(p)
  <2>1. InSession(p) /\ AsksFor(p, "stuck", "same", FALSE) /\ panels[p].mode = "vision"
    BY <1>7 DEF Stuck, Shows
  <2> QED BY <1>1, <1>2, <2>1
<1> QED BY <1>4, <1>5, <1>6, <1>7

\* The user cancels the call the panel waits for.
LEMMA Cancelling ==
  ASSUME Typed, Links, NEW p \in Panels, Cancel(p)
  PROVE  Cancelled(p)
<1> DEFINE c == panels[p].current
<1>1. c \in DOMAIN calls /\ c # NoCall /\ calls[c] \in CallType /\ calls[c].panel = p
  BY DEF Cancel, Waits, Links, PanelsLinked, PanelLinked, Typed, Call
<1>2. PICK known \in BOOLEAN : calls' = [calls EXCEPT ![c].dropped = TRUE, ![c].aborted = known]
  BY DEF Cancel
<1> DEFINE k == [calls[c] EXCEPT !.dropped = TRUE, !.aborted = known]
           P == [panels[p] EXCEPT !.current = NoCall, !.view = "cancelled", !.calm = FALSE]
<1>3. /\ k \in CallType /\ k.panel = p /\ k.kind = calls[c].kind /\ k.sid = calls[c].sid /\ k.source = calls[c].source
      /\ k.confirm = calls[c].confirm /\ k.at = calls[c].at /\ k.answer = calls[c].answer
      /\ k.asked = calls[c].asked /\ k.dropped
  BY <1>1 DEF CallType
<1>4. calls' = [calls EXCEPT ![c] = k]
  BY <1>1, <1>2 DEF Typed
<1>5. P \in PanelType
  BY Known DEF Typed, PanelType
<1>6. panels' = [panels EXCEPT ![p] = P] /\ sessions' = sessions /\ disk' = disk
  BY DEF Cancel, Typed
<1> HIDE DEF k, P
<1>7. Altered(c, k)
  BY <1>1, <1>3, <1>4, <1>6, CallSet
<1>8. Changed(p, P)
  BY <1>5, <1>6, PanelSet
<1> QED BY <1>1, <1>3, <1>5, <1>6, <1>7, <1>8 DEF Cancelled, P

-----------------------------------------------------------------------------
(* A step of one panel leaves the others alone                             *)

Untouched(q) ==
  /\ panels'[q] = panels[q]
  /\ \A d \in DOMAIN calls : calls[d].panel = q =>
       /\ d \in DOMAIN calls' /\ calls'[d] = calls[d] /\ sessions'[d] = sessions[d]
       /\ Shot(d) \in disk' => Shot(d) \in disk
       /\ Copy(d) \in disk' => Copy(d) \in disk
  /\ \A d \in DOMAIN calls' : calls'[d].panel = q => d \in DOMAIN calls /\ calls[d].panel = q

\* A panel left alone keeps its calls, its session and its steps together.
LEMMA UntouchedLinks ==
  ASSUME NEW q \in Panels, LinksOf(q), Untouched(q)
  PROVE  LinksOf(q)'
<1> USE DEF Untouched, Call
<1>1. ASSUME NEW c \in DOMAIN calls', calls'[c].panel = q
      PROVE  CallLinked(c)'
  <2>1. CallLinked(c) /\ c \in DOMAIN calls /\ calls'[c] = calls[c]
    BY <1>1 DEF LinksOf
  <2>2. calls[c].sid \in DOMAIN calls /\ calls[calls[c].sid].panel = q
    BY <1>1, <2>1 DEF CallLinked
  <2>3. calls'[calls[c].sid] = calls[calls[c].sid]
    BY <2>2
  <2> QED BY <1>1, <2>1, <2>2, <2>3 DEF CallLinked, Awaited
<1>2. PanelLinked(q)'
  BY DEF PanelLinked, LinksOf
<1>3. TrackLinked(q)'
  BY DEF TrackLinked, LinksOf
<1> QED BY <1>1, <1>2, <1>3 DEF LinksOf

\* The dropped calls of a panel left alone are the same.
LEMMA UntouchedSpent ==
  ASSUME NEW q \in Panels, Untouched(q), NEW s
  PROVE  Spent(q, s)' = Spent(q, s)
<1> QED BY DEF Untouched, Spent, Call

\* A panel left alone stays sound.
LEMMA UntouchedRest ==
  ASSUME NEW q \in Panels, Sound(q), Untouched(q)
  PROVE  Sound(q)'
<1> USE DEF Call
<1>1. LinksOf(q)'
  BY UntouchedLinks DEF Sound
<1>2. ASSUME NEW c \in DOMAIN calls', calls'[c].panel = q
      PROVE  /\ c \in DOMAIN calls /\ calls[c].panel = q /\ calls'[c] = calls[c] /\ sessions'[c] = sessions[c]
             /\ calls[c].sid \in DOMAIN calls /\ calls[calls[c].sid].panel = q
             /\ calls'[calls[c].sid] = calls[calls[c].sid] /\ sessions'[calls[c].sid] = sessions[calls[c].sid]
  <2>1. c \in DOMAIN calls /\ calls[c].panel = q /\ calls'[c] = calls[c] /\ sessions'[c] = sessions[c]
    BY <1>2 DEF Untouched
  <2>2. calls[c].sid \in DOMAIN calls /\ calls[calls[c].sid].panel = q
    BY <2>1 DEF Sound, LinksOf, CallLinked
  <2> QED BY <2>1, <2>2 DEF Untouched
<1>3. CountsOf(q)'
  BY <1>2, UntouchedSpent DEF CountsOf, Allowed, Sound, Session
<1>4. OpenedOf(q)'
  BY <1>2 DEF OpenedOf, Sound, Told
<1>5. ASSUME panels'[q].calm
      PROVE  CalmOf(q)'
  <2>1. CalmOf(q) /\ panels'[q] = panels[q]
    BY <1>5 DEF Sound, Untouched
  <2>2. panels[q].session # NoCall =>
          /\ panels[q].session \in DOMAIN calls /\ calls'[panels[q].session] = calls[panels[q].session]
          /\ sessions'[panels[q].session] = sessions[panels[q].session]
    BY DEF Sound, LinksOf, PanelLinked, Untouched
  <2>3. panels[q].current # NoCall =>
          /\ panels[q].current \in DOMAIN calls /\ calls'[panels[q].current] = calls[panels[q].current]
          /\ sessions'[panels[q].current] = sessions[panels[q].current]
          /\ calls[panels[q].current].panel = q
    BY DEF Sound, LinksOf, PanelLinked, Untouched
  <2>9. Mine(q) => sessions'[panels[q].session] = sessions[panels[q].session]
    <3>1. Mine(q) => panels[q].current \in DOMAIN calls' /\ calls[panels[q].current].sid = panels[q].session
      BY <2>3 DEF Mine, Sound, LinksOf, PanelLinked, Untouched
    <3> QED BY <1>2, <2>3, <3>1 DEF Mine
  <2>4. AgreedOf(q)'
    BY <2>1, <2>2, <2>3, <2>9 DEF CalmOf, AgreedOf, Mine, Told
  <2>5. OrderedOf(q)'
    BY <2>1, <2>2, <2>3 DEF CalmOf, OrderedOf, Mine, Told, Fresh
  <2>6. HeededOf(q)'
    BY <2>1, <2>2, <2>3 DEF CalmOf, HeededOf, Mine, Told, LastOf, Done
  <2>7. \A s, stages : Finishing(q, s, stages) => Finishing(q, s, stages)'
    BY DEF Untouched, Finishing
  <2>8. LeftOf(q)'
    <3>1. ASSUME NEW c \in DOMAIN calls', calls'[c].panel = q
          PROVE  LET P == panels[q]
                 IN /\ calls'[c].kind \in Turns /\ P.place = "shown" => P.session # NoCall
                    /\ calls'[c].kind = "finish" /\ calls'[c].at \in {"sent", "drop"} => sessions'[calls'[c].sid].open
                    /\ sessions'[c].open =>
                         \/ P.place = "shown" /\ c \in {P.session, P.current}
                         \/ Finishing(q, c, {"sent", "drop"})'
                    /\ Shot(c) \in disk' \/ Copy(c) \in disk' =>
                         /\ calls'[c].kind \in Turns
                         /\ P.place = "shown" \/ (\E s \in DOMAIN calls : Finishing(q, s, {"sent", "drop", "purge"}))'
      <4>1. c \in DOMAIN calls /\ calls[c].panel = q /\ calls'[c] = calls[c] /\ sessions'[c] = sessions[c]
            /\ sessions'[calls[c].sid] = sessions[calls[c].sid]
        BY <1>2, <3>1
      <4>2. Finishing(q, c, {"sent", "drop"}) => Finishing(q, c, {"sent", "drop"})'
        BY <2>7
      <4>3. (\E s \in DOMAIN calls : Finishing(q, s, {"sent", "drop", "purge"})) =>
              (\E s \in DOMAIN calls : Finishing(q, s, {"sent", "drop", "purge"}))'
        BY <1>2 DEF Finishing, Untouched
      <4>4. (Shot(c) \in disk' => Shot(c) \in disk) /\ (Copy(c) \in disk' => Copy(c) \in disk)
        BY <4>1 DEF Untouched
      <4> QED BY <2>1, <4>1, <4>2, <4>3, <4>4 DEF CalmOf, LeftOf, Session
    <3>2. /\ panels[q].place = "gone" => panels[q].current = NoCall
          /\ panels[q].place = "shown" /\ panels[q].session # NoCall => sessions'[panels[q].session].open
          /\ panels[q].current # NoCall /\ calls'[panels[q].current].kind = "start" /\ Told(panels[q].current)' =>
               sessions'[panels[q].current].open
      BY <2>1, <2>2, <2>3 DEF CalmOf, LeftOf, Told
    <3> QED BY <2>1, <3>1, <3>2 DEF LeftOf, Session
  <2> QED BY <2>4, <2>5, <2>6, <2>8 DEF CalmOf
<1> QED BY <1>1, <1>3, <1>4, <1>5 DEF Sound

-----------------------------------------------------------------------------
(* A step of a handler                                                     *)

\* Every call, panel and step is linked when every panel is sound.
LEMMA SoundLinks ==
  ASSUME IInv
  PROVE  Links
<1>0. \A c \in DOMAIN calls : calls[c] \in CallType
  BY DEF IInv, Typed
<1>1. \A c \in DOMAIN calls : calls[c].panel \in Panels
  BY <1>0 DEF CallType
<1> QED BY <1>1 DEF IInv, Sound, LinksOf, Links, CallsLinked, PanelsLinked, TracksLinked, Call

ServedBy(c) ==
  /\ StartServed(c) \/ FinishServed(c) \/ TurnServed(c)
  /\ panels' = panels

\* Whatever a handler does, it adds no file but the copy of its own screenshot.
LEMMA ServedWhole ==
  ASSUME NEW c, ServedBy(c)
  PROVE  Served(c) /\ disk' \subseteq disk \cup {Copy(c)} /\ panels' = panels
<1> QED BY DEF ServedBy, StartServed, FinishServed, TurnServed

\* A handler keeps every variable within its values.
LEMMA ServedType ==
  ASSUME Typed, NEW c \in DOMAIN calls, ServedBy(c)
  PROVE  Typed'
<1>1. Copy(c) \in (DOMAIN calls) \X {"shot", "copy"}
  BY DEF Copy
<1> QED BY <1>1, ServedWhole DEF Typed, Served

\* A handler leaves the other panels alone.
LEMMA ServedOthers ==
  ASSUME IInv, NEW c \in DOMAIN calls, ServedBy(c), NEW q \in Panels, q # calls[c].panel
  PROVE  Untouched(q)
<1>1. Served(c) /\ disk' \subseteq disk \cup {Copy(c)} /\ panels' = panels
  BY ServedWhole
<1>2. calls[calls[c].sid].panel = calls[c].panel
  BY SoundLinks DEF Links, CallsLinked, CallLinked, Call
<1>3. ASSUME NEW d \in DOMAIN calls, calls[d].panel = q
      PROVE  /\ d \in DOMAIN calls' /\ calls'[d] = calls[d] /\ sessions'[d] = sessions[d]
             /\ Shot(d) \in disk' => Shot(d) \in disk
             /\ Copy(d) \in disk' => Copy(d) \in disk
  <2>1. d # c /\ d # calls[c].sid /\ d \in DOMAIN sessions
    BY <1>2, <1>3 DEF IInv, Typed
  <2>2. Shot(d) # Copy(c) /\ Copy(d) # Copy(c)
    BY <2>1 DEF Shot, Copy
  <2> QED BY <1>1, <2>1, <2>2 DEF Served
<1>4. ASSUME NEW d \in DOMAIN calls', calls'[d].panel = q
      PROVE  d \in DOMAIN calls /\ calls[d].panel = q
  BY <1>1, <1>4 DEF Served, SameRequest
<1> QED BY <1>1, <1>3, <1>4 DEF Untouched

\* What is said of the handlers' stages.
LEMMA ServedStages ==
  ASSUME NEW c \in DOMAIN calls, ServedBy(c)
  PROVE  /\ calls[c].kind = "step" /\ calls'[c].at = "list" => calls[c].source = "plan"
         /\ calls'[c].at \in Turning => calls[c].kind \in Turns
         /\ calls'[c].at = "verify" => calls'[c].asked \in Instr
<1>1. CASE StartServed(c) \/ FinishServed(c)
  BY <1>1 DEF StartServed, FinishServed, Turning
<1>2. CASE TurnServed(c)
  BY <1>2 DEF TurnServed, Failed, Goes1, SwitchedOver, Limited, ReadOut, Looked, Turned, Proposed, Given
<1> QED BY <1>1, <1>2 DEF ServedBy

\* A handler keeps its call, its panel and its session together.
LEMMA ServedLinks ==
  ASSUME IInv, NEW c \in DOMAIN calls, ServedBy(c), NEW p \in Panels, p = calls[c].panel
  PROVE  LinksOf(p)'
<1> USE DEF Call
<1>0. Served(c) /\ panels' = panels /\ Links
  BY ServedWhole, SoundLinks
<1>1. \A d \in DOMAIN calls : SameRequest(calls'[d], calls[d]) /\ (calls[d].at = "over" => calls'[d] = calls[d])
  BY <1>0 DEF Served, SameRequest
<1>2. ASSUME NEW d \in DOMAIN calls', calls'[d].panel = p
      PROVE  CallLinked(d)'
  <2>1. d \in DOMAIN calls /\ CallLinked(d) /\ calls[d].panel = p
    BY <1>0, <1>1, <1>2 DEF Served, Links, CallsLinked, SameRequest
  <2>2. /\ calls'[d].sid \in DOMAIN calls'
        /\ calls'[d].kind # "start" =>
             /\ calls'[calls'[d].sid].kind = "start" /\ calls'[calls'[d].sid].at = "over"
             /\ calls'[calls'[d].sid].panel = calls'[d].panel
    BY <1>0, <1>1, <2>1 DEF CallLinked, SameRequest, Served
  <2>3. CASE d # c
    <3>1. calls'[d] = calls[d]
      BY <1>0, <2>1, <2>3 DEF Served
    <3> QED BY <1>0, <2>1, <2>2, <3>1 DEF CallLinked, Awaited
  <2>4. CASE d = c
    <3>1. SameRequest(calls'[c], calls[c]) /\ calls[c].at # "over" /\ calls'[c].at # "capture"
      BY <1>0 DEF Served
    <3>2. calls'[c].at = "answered" => calls'[c].answer \in AnswerType
      BY <1>0 DEF Served
    <3> QED BY <1>0, <2>1, <2>2, <2>4, <3>1, <3>2, ServedStages DEF CallLinked, Awaited, SameRequest
  <2> QED BY <2>3, <2>4
<1>3. PanelLinked(p)'
  <2>1. PanelLinked(p)
    BY <1>0 DEF Links, PanelsLinked
  <2>2. panels[p].current # NoCall => calls'[panels[p].current].at # "over"
    BY <1>0, <2>1 DEF PanelLinked, Served
  <2> QED BY <1>0, <1>1, <2>1, <2>2 DEF PanelLinked, Served, SameRequest
<1>4. TrackLinked(p)'
  <2>1. TrackLinked(p)
    BY <1>0 DEF Links, TracksLinked
  <2> QED BY <1>0, <1>1, <2>1 DEF TrackLinked, Served
<1> QED BY <1>2, <1>3, <1>4 DEF LinksOf

\* A handler opens no session but that of its own start.
LEMMA ServedOpened ==
  ASSUME IInv, NEW c \in DOMAIN calls, ServedBy(c), NEW p \in Panels, p = calls[c].panel
  PROVE  OpenedOf(p)'
<1> USE DEF Call
<1>0. Served(c) /\ Links /\ OpenedOf(p)
  BY ServedWhole, SoundLinks DEF IInv, Sound
<1>1. \A d \in DOMAIN calls' : d \in DOMAIN calls /\ calls'[d].panel = calls[d].panel /\ calls'[d].kind = calls[d].kind
  BY <1>0 DEF Served, SameRequest
<1>2. ASSUME NEW d \in DOMAIN calls, calls[d].panel = p, sessions'[d].open
      PROVE  calls[d].kind = "start" /\ (Told(d)' \/ calls'[d].at = "over")
  <2>1. calls[c].at \notin {"answered", "over"} /\ CallLinked(c)
    BY <1>0 DEF Served, Links, CallsLinked
  <2>2. CASE d # calls[c].sid
    <3>1. sessions[d].open /\ (Told(d) \/ calls[d].at = "over") /\ calls[d].kind = "start"
      BY <1>0, <1>2, <2>2 DEF Served, OpenedOf, IInv, Typed
    <3>2. d # c
      BY <2>1, <3>1 DEF Told
    <3> QED BY <1>0, <3>1, <3>2 DEF Served, Told
  <2>3. CASE d = calls[c].sid /\ calls[c].kind = "start"
    <3>1. d = c /\ StartServed(c)
      BY <2>1, <2>3 DEF CallLinked, ServedBy, FinishServed, TurnServed, Turns
    <3>2. ~Was(c).open
      BY <1>0, <1>2, <2>1, <3>1, <2>3 DEF OpenedOf, Told, Was
    <3>3. c # NoCall
      BY Known DEF IInv, Typed
    <3> QED BY <1>2, <2>3, <3>1, <3>2, <3>3 DEF StartServed, Is, Told, NoSession
  <2>4. CASE d = calls[c].sid /\ calls[c].kind # "start"
    <3>1. d # c /\ calls[d].kind = "start" /\ calls[d].at = "over"
      BY <2>1, <2>4 DEF CallLinked
    <3> QED BY <1>0, <3>1 DEF Served
  <2> QED BY <2>2, <2>3, <2>4
<1> QED BY <1>0, <1>1, <1>2 DEF OpenedOf

-----------------------------------------------------------------------------
(* The limit                                                               *)

\* A sequence has finitely many positions.
LEMMA SomeOfSequence ==
  ASSUME NEW S, NEW f \in Seq(S), NEW T \in SUBSET DOMAIN f
  PROVE  IsFiniteSet(T) /\ Cardinality(T) \in Nat
<1>1. DOMAIN f = 1 .. Len(f) /\ Len(f) \in Nat
  OBVIOUS
<1>2. IsFiniteSet(DOMAIN f)
  BY <1>1, FS_Interval
<1> QED BY <1>2, FS_Subset, FS_CardinalityType

\* What is allowed is at least the limit.
LEMMA AllowedType ==
  ASSUME Typed, NEW p, NEW s
  PROVE  Allowed(p, s) \in Nat /\ Allowed(p, s) >= MaxSteps
<1>1. Spent(p, s) \in SUBSET DOMAIN calls
  BY DEF Spent
<1> QED BY <1>1, SomeOfSequence, Known DEF Allowed, Typed

\* One more dropped call allows one more step.
LEMMA SpentGrows ==
  ASSUME Typed, Typed', NEW p, NEW s, Spent(p, s) \subseteq Spent(p, s)'
  PROVE  /\ Allowed(p, s) <= Allowed(p, s)' /\ Allowed(p, s) \in Nat /\ Allowed(p, s)' \in Nat
         /\ \A c \in Spent(p, s)' : c \notin Spent(p, s) => Allowed(p, s) + 1 <= Allowed(p, s)'
<1> DEFINE A == Spent(p, s)
           B == Spent(p, s)'
<1>1. /\ IsFiniteSet(A) /\ IsFiniteSet(B) /\ A \subseteq B
      /\ Cardinality(A) \in Nat /\ Cardinality(B) \in Nat
      /\ Allowed(p, s) = MaxSteps + Cardinality(A) /\ Allowed(p, s)' = MaxSteps + Cardinality(B)
  <2>1. A \in SUBSET DOMAIN calls /\ B \in SUBSET DOMAIN calls'
    BY DEF Spent
  <2>2. calls \in Seq(CallType) /\ calls' \in Seq(CallType)
    BY DEF Typed
  <2> QED BY <2>1, <2>2, SomeOfSequence DEF Allowed
<1> HIDE DEF A, B
<1>2. Cardinality(A) <= Cardinality(B)
  BY <1>1, FS_Subset
<1>3. ASSUME NEW c \in B, c \notin A
      PROVE  Cardinality(A) + 1 <= Cardinality(B)
  <2>1. IsFiniteSet(A \cup {c}) /\ Cardinality(A \cup {c}) = Cardinality(A) + 1
    BY <1>1, <1>3, FS_AddElement
  <2>2. (A \cup {c}) \in SUBSET B
    BY <1>1, <1>3
  <2> QED BY <1>1, <2>1, <2>2, FS_Subset
<1> QED BY <1>1, <1>2, <1>3, Known DEF A, B

\* What a step of a handler adds to the count, and to what is allowed.
LEMMA ServedSpent ==
  ASSUME IInv, NEW c \in DOMAIN calls, ServedBy(c), NEW p \in Panels, p = calls[c].panel, NEW t
  PROVE  /\ Spent(p, t) \subseteq Spent(p, t)'
         /\ calls[c].dropped /\ calls'[c].at = "answered" /\ t = calls[c].sid =>
              c \in Spent(p, t)' /\ c \notin Spent(p, t)
         /\ t # calls[c].sid \/ ~calls[c].dropped \/ calls'[c].at # "answered" => Spent(p, t)' = Spent(p, t)
<1>1. Served(c)
  BY ServedWhole
<1>2. \A d \in DOMAIN calls : d # c => (d \in Spent(p, t)' <=> d \in Spent(p, t))
  BY <1>1 DEF Served, Spent, Call
<1>3. c \notin Spent(p, t)
  BY <1>1 DEF Served, Spent, Call
<1>4. c \in Spent(p, t)' <=> t = calls[c].sid /\ calls[c].dropped /\ calls'[c].at = "answered"
  BY <1>1 DEF Served, SameRequest, Spent, Call
<1>5. Spent(p, t) \subseteq DOMAIN calls /\ Spent(p, t)' \subseteq DOMAIN calls
  BY <1>1 DEF Served, Spent
<1> QED BY <1>2, <1>3, <1>4, <1>5

\* A step of a handler that counts has room for it, or was dropped and adds to what is allowed.
LEMMA ServedCount ==
  ASSUME IInv, NEW c \in DOMAIN calls, ServedBy(c), NEW p \in Panels, p = calls[c].panel
  PROVE  /\ Is(c).count \in Nat /\ Was(c).count \in Nat
         /\ \/ Is(c).count = 0
            \/ Is(c).count = Was(c).count
            \/ /\ calls'[c].at = "answered" /\ calls[c].kind = "step" /\ Is(c).count = Was(c).count + 1
               /\ Was(c).count < MaxSteps \/ calls[c].at \in Turning
         /\ calls[c].kind \notin Turns => Is(c).count \in {0, Was(c).count}
         /\ calls[c].kind = "step" /\ calls'[c].at \in Turning =>
              Is(c).count = Was(c).count /\ (Was(c).count < MaxSteps \/ calls[c].at \in Turning)
<1>1. Served(c) /\ Typed /\ Links /\ CallsLinked
  BY ServedWhole, SoundLinks DEF IInv, Links
<1>2. Was(c).count \in Nat
  BY <1>1, WasKnown
<1>3. Is(c) \in SessionType
  BY <1>1, CallKnown DEF Served, Is
<1>4. Is(c).count \in Nat
  BY <1>3 DEF SessionType
<1>5. CASE StartServed(c)
  BY <1>2, <1>4, <1>5 DEF StartServed, NoSession, Turns, Turning
<1>6. CASE FinishServed(c)
  <2>1. Is(c).count = Was(c).count
    BY <1>1, <1>6, WasKnown DEF FinishServed, SessionType
  <2> QED BY <1>2, <1>6, <2>1 DEF FinishServed, Turns, Turning
<1>7. CASE TurnServed(c)
  <2>1. CASE Failed(c)
    BY <1>2, <1>4, <1>7, <2>1 DEF TurnServed, Failed, Turning
  <2>2. CASE Goes1(c)
    BY <1>2, <1>4, <1>7, <2>2 DEF TurnServed, Goes1, Kept, Turning
  <2>3. CASE SwitchedOver(c)
    BY <1>2, <1>4, <1>7, <2>3 DEF TurnServed, SwitchedOver, Turning
  <2>4. CASE Limited(c)
    BY <1>2, <1>4, <1>7, <2>4 DEF TurnServed, Limited, Given, Kept, Turning
  <2>5. CASE ReadOut(c) \/ Looked(c)
    BY <1>2, <1>4, <1>7, <2>5 DEF TurnServed, ReadOut, Looked, Hears, Given, Turning
  <2>6. CASE Turned(c)
    BY <1>2, <1>4, <1>7, <2>6 DEF TurnServed, Turned, Hears, Turning
  <2>7. CASE Proposed(c)
    <3>1. calls[c].at \in Turning /\ calls'[c].at = "answered" /\ Is(c).count \in {Was(c).count, Was(c).count + 1}
      BY <2>7 DEF Proposed, Given, Turning
    <3>2. calls[c].kind = "stuck" => Is(c).count = Was(c).count
      BY <2>7 DEF Proposed
    <3>3. "answered" \notin Turning /\ calls[c].kind \in {"step", "stuck"}
      BY <1>7 DEF Turning, TurnServed, Turns
    <3> QED BY <1>2, <1>4, <3>1, <3>2, <3>3 DEF Turns
  <2> QED BY <1>7, <2>1, <2>2, <2>3, <2>4, <2>5, <2>6, <2>7 DEF TurnServed
<1> QED BY <1>5, <1>6, <1>7 DEF ServedBy

\* A handler keeps to the limit.
LEMMA ServedCounts ==
  ASSUME IInv, NEW c \in DOMAIN calls, ServedBy(c), NEW p \in Panels, p = calls[c].panel
  PROVE  CountsOf(p)'
<1> USE DEF Call
<1>s. PICK s : s = calls[c].sid
  OBVIOUS
<1>1. Served(c) /\ Typed /\ Links /\ CountsOf(p) /\ Typed' /\ CallLinked(c) /\ DOMAIN calls' = DOMAIN calls
  BY ServedWhole, SoundLinks, ServedType DEF IInv, Sound, Links, CallsLinked, Served
<1>c. /\ Is(c) = sessions'[s] /\ Was(c) = sessions[s] /\ Is(c).count \in Nat /\ Was(c).count \in Nat
      /\ \/ Is(c).count = 0
         \/ Is(c).count = Was(c).count
         \/ /\ calls'[c].at = "answered" /\ calls[c].kind = "step" /\ Is(c).count = Was(c).count + 1
            /\ Was(c).count < MaxSteps \/ calls[c].at \in Turning
      /\ calls[c].kind \notin Turns => Is(c).count \in {0, Was(c).count}
      /\ calls[c].kind = "step" /\ calls'[c].at \in Turning =>
           Is(c).count = Was(c).count /\ (Was(c).count < MaxSteps \/ calls[c].at \in Turning)
  BY <1>s, ServedCount DEF Is, Was
<1>2. s \in DOMAIN calls /\ calls[s].panel = p /\ Was(c).count <= Allowed(p, s)
      /\ (calls[c].kind = "step" /\ calls[c].at \in Turning /\ ~calls[c].dropped => Was(c).count < Allowed(p, s))
  BY <1>1, <1>s DEF CallLinked, CountsOf, Was, Session
<1>3. \A t : /\ Allowed(p, t) <= Allowed(p, t)' /\ Allowed(p, t) \in Nat /\ Allowed(p, t)' \in Nat
             /\ Allowed(p, t) >= MaxSteps
  <2>1. \A t : Spent(p, t) \subseteq Spent(p, t)'
    BY ServedSpent
  <2> QED BY <1>1, <2>1, SpentGrows, AllowedType
<1>4. calls[c].dropped /\ calls'[c].at = "answered" => Allowed(p, s) + 1 <= Allowed(p, s)'
  <2>1. Spent(p, s) \subseteq Spent(p, s)'
    BY ServedSpent
  <2>2. calls[c].dropped /\ calls'[c].at = "answered" => c \in Spent(p, s)' /\ c \notin Spent(p, s)
    BY <1>s, ServedSpent
  <2> QED BY <1>1, <2>1, <2>2, SpentGrows
<1>m. MaxSteps \in Nat
  BY Known
<1>5. Is(c).count <= Allowed(p, s)'
  <2>n. Allowed(p, s) <= Allowed(p, s)' /\ Allowed(p, s) \in Nat /\ Allowed(p, s)' \in Nat /\ Allowed(p, s) >= MaxSteps
    BY <1>3
  <2>1. CASE Is(c).count = 0 \/ Is(c).count = Was(c).count
    BY <1>2, <1>c, <2>1, <2>n
  <2>2. CASE calls'[c].at = "answered" /\ Is(c).count = Was(c).count + 1 /\ calls[c].dropped
    BY <1>2, <1>c, <1>4, <2>2, <2>n
  <2>3. CASE /\ calls[c].kind = "step" /\ Is(c).count = Was(c).count + 1 /\ ~calls[c].dropped
             /\ Was(c).count < MaxSteps \/ calls[c].at \in Turning
    <3>1. Was(c).count < Allowed(p, s)
      BY <1>2, <1>c, <1>m, <2>3, <2>n
    <3> QED BY <1>c, <2>3, <2>n, <3>1
  <2> QED BY <1>c, <2>1, <2>2, <2>3
<1>6. ASSUME NEW d \in DOMAIN calls, calls[d].panel = p
      PROVE  sessions'[d].count <= Allowed(p, d)'
  <2>1. CASE d = s
    BY <1>5, <1>c, <2>1
  <2>2. CASE d # s
    <3>1. sessions'[d] = sessions[d] /\ sessions[d] \in SessionType
      BY <1>1, <1>s, <2>2 DEF Served, Typed
    <3>2. sessions[d].count <= Allowed(p, d) /\ sessions[d].count \in Nat
      BY <1>1, <1>6, <3>1 DEF CountsOf, SessionType
    <3>3. Allowed(p, d) <= Allowed(p, d)' /\ Allowed(p, d) \in Nat /\ Allowed(p, d)' \in Nat
      BY <1>3
    <3> QED BY <3>1, <3>2, <3>3
  <2> QED BY <2>1, <2>2
<1>7. ASSUME NEW d \in DOMAIN calls, calls[d].panel = p, calls[d].kind = "step", calls'[d].at \in Turning, ~calls[d].dropped,
             NEW e, e = calls[d].sid
      PROVE  sessions'[e].count < Allowed(p, e)'
  <2>n. Allowed(p, e) <= Allowed(p, e)' /\ Allowed(p, e) \in Nat /\ Allowed(p, e)' \in Nat /\ Allowed(p, e) >= MaxSteps
    BY <1>3
  <2>1. CASE d = c
    <3>1. e = s /\ (Was(c).count < MaxSteps \/ Was(c).count < Allowed(p, s)) /\ Is(c).count = Was(c).count
      BY <1>2, <1>7, <1>c, <1>s, <2>1
    <3> QED BY <1>c, <1>m, <2>n, <3>1
  <2>2. CASE d # c /\ e # s
    <3>1. calls'[d] = calls[d] /\ e \in DOMAIN calls /\ e \in DOMAIN sessions /\ sessions'[e] = sessions[e]
      BY <1>1, <1>7, <1>s, <2>2 DEF Served, Links, CallsLinked, CallLinked, Typed
    <3>2. sessions[e].count < Allowed(p, e)
      BY <1>1, <1>7, <3>1 DEF CountsOf, Session
    <3>4. sessions[e] \in SessionType
      BY <1>1, <3>1 DEF Typed
    <3>3. sessions[e].count \in Nat
      BY <3>4 DEF SessionType
    <3> QED BY <2>n, <3>1, <3>2, <3>3
  <2>3. CASE d # c /\ e = s
    <3>1. calls'[d] = calls[d] /\ CallLinked(d)
      BY <1>1, <2>3 DEF Served, Links, CallsLinked
    <3>2. Was(c).count < Allowed(p, s)
      BY <1>1, <1>7, <1>c, <2>3, <3>1 DEF CountsOf, Session
    <3>3. panels[p].current = d
      BY <1>7, <3>1 DEF CallLinked, Awaited, Asks, Turning
    <3>4. calls[c].kind = "start" => FALSE
      BY <1>1, <1>7, <1>s, <2>3, <3>1 DEF CallLinked, Served
    <3>5. calls[c].kind \in Turns => calls[c].dropped
      BY <1>1, <2>3, <3>3 DEF CallLinked, Awaited, Asks, Turns, Served
    <3>6. CASE calls'[c].at = "answered" /\ calls[c].dropped
      BY <1>4, <1>c, <2>3, <2>n, <3>2, <3>6
    <3>7. CASE Is(c).count \in {0, Was(c).count}
      BY <1>c, <2>3, <2>n, <3>2, <3>7
    <3> QED BY <1>c, <3>5, <3>6, <3>7 DEF Turns
  <2> QED BY <2>1, <2>2, <2>3
<1>8. \A d \in DOMAIN calls : calls'[d].panel = calls[d].panel /\ calls'[d].kind = calls[d].kind
                              /\ calls'[d].sid = calls[d].sid /\ calls'[d].dropped = calls[d].dropped
  BY <1>1 DEF Served, SameRequest
<1> QED BY <1>1, <1>6, <1>7, <1>8 DEF CountsOf, Session

-----------------------------------------------------------------------------
(* Calm panels: start and finish                                           *)

\* Of a calm panel, only finish calls are served that it does not wait for.
LEMMA CalmServed ==
  ASSUME IInv, NEW c \in DOMAIN calls, ServedBy(c), NEW p \in Panels, p = calls[c].panel, panels[p].calm
  PROVE  /\ CalmOf(p) /\ LinksOf(p) /\ OpenedOf(p) /\ Typed /\ Links /\ Served(c) /\ panels' = panels
         /\ ~calls[c].dropped /\ calls[c].at \notin {"answered", "over"} /\ c # NoCall
         /\ calls[c].sid \in DOMAIN calls
         /\ calls[c].kind \in Asks => panels[p].current = c /\ panels[p].place = "shown"
         /\ calls[c].kind = "finish" => panels[p].current = NoCall /\ panels[p].place = "gone"
<1> USE DEF Call
<1>1. CalmOf(p) /\ LinksOf(p) /\ OpenedOf(p) /\ Typed /\ Links /\ Served(c) /\ panels' = panels /\ CallLinked(c)
  BY ServedWhole, SoundLinks DEF IInv, Sound, Links, CallsLinked
<1>2. ~calls[c].dropped /\ calls[c].at \notin {"answered", "over"} /\ c # NoCall
  BY <1>1, Known DEF CallLinked, Served, Typed
<1>3. calls[c].kind \in Asks => panels[p].current = c /\ panels[p].place # "new"
  BY <1>1, <1>2 DEF CallLinked, Awaited
<1>4. panels[p].place \in {"new", "shown", "gone"}
  BY <1>1 DEF Typed, PanelType
<1>5. panels[p].place = "gone" => panels[p].current = NoCall
  BY <1>1 DEF CalmOf, LeftOf
<1> QED BY <1>1, <1>2, <1>3, <1>4, <1>5 DEF CallLinked

\* A calm panel stays as promised while its start is served.
LEMMA StartCalm ==
  ASSUME IInv, NEW c \in DOMAIN calls, ServedBy(c), NEW p \in Panels, p = calls[c].panel, panels[p].calm,
         StartServed(c)
  PROVE  CalmOf(p)'
<1> USE DEF Call
<1>1. /\ CalmOf(p) /\ LinksOf(p) /\ OpenedOf(p) /\ Typed /\ Links /\ Served(c) /\ panels' = panels
      /\ calls[c].kind = "start" /\ calls[c].at \notin {"answered", "over"} /\ c # NoCall
      /\ panels[p].current = c /\ panels[p].place = "shown" /\ calls[c].sid = c
      /\ calls'[c].kind = "start" /\ disk' \subseteq disk
  BY CalmServed DEF StartServed, Asks, Served, SameRequest, Links, CallsLinked, CallLinked
<1>2. panels[p].session = NoCall
  BY <1>1 DEF CalmOf, AgreedOf
<1>3. Told(c)' => /\ sessions'[c].open /\ sessions'[c].mode = calls'[c].answer.mode /\ sessions'[c].cursor = 0
  BY <1>1 DEF StartServed, Told, Is
<1>4. ~Mine(p)'
  BY <1>1 DEF Mine, Turns
<1>5. AgreedOf(p)'
  BY <1>1, <1>2, <1>3, <1>4 DEF AgreedOf
<1>6. OrderedOf(p)' /\ HeededOf(p)'
  BY <1>1, <1>2 DEF OrderedOf, HeededOf
<1>7. ASSUME NEW d \in DOMAIN calls, calls[d].panel = p
      PROVE  /\ calls[d].kind \notin Turns /\ calls[d].kind # "finish"
             /\ sessions'[d].open => d = c
             /\ Shot(d) \notin disk' /\ Copy(d) \notin disk'
  <2>1. /\ calls[d].kind \notin Turns
        /\ sessions[d].open => d = c \/ Finishing(p, d, {"sent", "drop"})
        /\ Shot(d) \notin disk /\ Copy(d) \notin disk
    BY <1>1, <1>2, <1>7, Known DEF CalmOf, LeftOf, Typed
  <2>2. \A f \in DOMAIN calls : calls[f].kind = "finish" => calls[f].panel # p
    BY <1>1 DEF LinksOf, CallLinked
  <2>3. d # c => sessions'[d] = sessions[d]
    BY <1>1 DEF Served, Typed
  <2> QED BY <1>1, <1>7, <2>1, <2>2, <2>3 DEF Finishing
<1>8. LeftOf(p)'
  <2>1. \A d \in DOMAIN calls' : d \in DOMAIN calls /\ calls'[d].panel = calls[d].panel /\ calls'[d].kind = calls[d].kind
    BY <1>1 DEF Served, SameRequest
  <2> QED BY <1>1, <1>2, <1>3, <1>7, <2>1 DEF LeftOf
<1> QED BY <1>5, <1>6, <1>8 DEF CalmOf

\* A calm panel stays as promised while its finish is served.
LEMMA FinishCalm ==
  ASSUME IInv, NEW c \in DOMAIN calls, ServedBy(c), NEW p \in Panels, p = calls[c].panel, panels[p].calm,
         FinishServed(c)
  PROVE  CalmOf(p)'
<1> USE DEF Call
<1>s. PICK s : s = calls[c].sid
  OBVIOUS
<1>1. /\ CalmOf(p) /\ LinksOf(p) /\ OpenedOf(p) /\ Typed /\ Links /\ Served(c) /\ panels' = panels
      /\ calls[c].kind = "finish" /\ calls[c].at \notin {"answered", "over"} /\ c # NoCall
      /\ panels[p].current = NoCall /\ panels[p].place = "gone" /\ s \in DOMAIN calls
      /\ calls'[c].kind = "finish" /\ disk' \subseteq disk /\ calls'[c].sid = s /\ calls'[c].panel = p
      /\ Was(c) = sessions[s] /\ Is(c) = sessions'[s]
  BY <1>s, CalmServed DEF FinishServed, Served, SameRequest, Was, Is
<1>2. /\ Is(c).mode = Was(c).mode /\ Is(c).cursor = Was(c).cursor /\ Is(c).count = Was(c).count
      /\ Is(c).said = Was(c).said /\ Is(c).confirmed = Was(c).confirmed
  BY <1>1, WasKnown DEF FinishServed, SessionType, Links
<1>3. ~Mine(p) /\ ~Mine(p)' /\ ~Told(NoCall) /\ ~Told(NoCall)'
  BY <1>1 DEF Mine, Told
<1>4. panels[p].session # NoCall =>
        LET S == sessions[panels[p].session]
            T == sessions'[panels[p].session]
        IN /\ T.mode = S.mode /\ T.cursor = S.cursor /\ T.count = S.count /\ T.said = S.said
           /\ T.confirmed = S.confirmed
  <2>1. panels[p].session # NoCall => panels[p].session \in DOMAIN sessions
    BY <1>1 DEF LinksOf, PanelLinked, Typed
  <2>2. panels[p].session # s /\ panels[p].session # NoCall => sessions'[panels[p].session] = sessions[panels[p].session]
    BY <1>1, <1>s, <2>1 DEF Served
  <2> QED BY <1>1, <1>2, <2>2
<1>5. AgreedOf(p)'
  BY <1>1, <1>3, <1>4 DEF AgreedOf, CalmOf
<1>6. OrderedOf(p)'
  BY <1>1, <1>3, <1>4 DEF OrderedOf, CalmOf, Fresh
<1>7. HeededOf(p)'
  BY <1>1, <1>3, <1>4 DEF HeededOf, CalmOf, LastOf
<1>8. \A f \in DOMAIN calls : calls[f].kind = "finish" /\ calls[f].panel = p => f = c
  BY <1>1 DEF OpenedOf
<1>9. ASSUME NEW d \in DOMAIN calls, calls[d].panel = p
      PROVE  /\ calls'[d].kind = "finish" /\ calls'[d].at \in {"sent", "drop"} => sessions'[calls'[d].sid].open
             /\ sessions'[d].open => Finishing(p, d, {"sent", "drop"})'
             /\ Shot(d) \in disk' \/ Copy(d) \in disk' =>
                  /\ calls[d].kind \in Turns
                  /\ Finishing(p, s, {"sent", "drop", "purge"})'
  <2>1. sessions[d].open => d = s /\ calls[c].at \in {"sent", "drop"}
    BY <1>1, <1>9, <1>8, <1>s DEF CalmOf, LeftOf, Finishing
  <2>2. Shot(d) \in disk \/ Copy(d) \in disk => calls[d].kind \in Turns
    BY <1>1, <1>9 DEF CalmOf, LeftOf
  <2>3. d # s => sessions'[d] = sessions[d]
    BY <1>1, <1>s DEF Served, Typed
  <2>4. calls[c].at \in {"sent", "drop"} => Was(c).open
    BY <1>1, <1>s DEF CalmOf, LeftOf, Session
  <2>5. calls'[d].kind = "finish" => d = c
    BY <1>1, <1>8, <1>9 DEF Served, SameRequest
  <2>6. c \in DOMAIN calls'
    BY <1>1 DEF Served
  <2>7. CASE calls'[c].at = "drop"
    <3>1. Is(c) = Was(c) /\ calls[c].at \in {"sent", "drop"}
      BY <2>7 DEF FinishServed
    <3>2. Finishing(p, s, {"sent", "drop"})' /\ Finishing(p, s, {"sent", "drop", "purge"})'
      BY <1>1, <2>6, <2>7 DEF Finishing
    <3> QED BY <1>1, <2>1, <2>2, <2>3, <2>4, <2>5, <3>1, <3>2
  <2>8. CASE calls'[c].at = "purge"
    <3>1. ~sessions'[s].open
      BY <1>1, <2>8, WasKnown DEF FinishServed, SessionType, Links
    <3>2. Finishing(p, s, {"sent", "drop", "purge"})'
      BY <1>1, <2>6, <2>8 DEF Finishing
    <3> QED BY <1>1, <2>1, <2>2, <2>3, <2>5, <2>8, <3>1, <3>2
  <2>9. CASE calls'[c].at \notin {"drop", "purge"}
    <3>1. disk' = {} /\ calls[c].at = "purge" /\ calls'[c].at = "answered" /\ Is(c) = Was(c)
      BY <2>4, <2>9 DEF FinishServed
    <3> QED BY <1>1, <2>1, <2>3, <2>5, <3>1
  <2> QED BY <2>7, <2>8, <2>9
<1>10. LeftOf(p)'
  <2>1. \A d \in DOMAIN calls' : d \in DOMAIN calls /\ calls'[d].panel = calls[d].panel /\ calls'[d].kind = calls[d].kind
    BY <1>1 DEF Served, SameRequest
  <2>2. s \in DOMAIN calls'
    BY <1>1 DEF Served
  <2> QED BY <1>1, <1>9, <2>1, <2>2 DEF LeftOf, Session
<1> QED BY <1>5, <1>6, <1>7, <1>10 DEF CalmOf

-----------------------------------------------------------------------------
(* Calm panels: step and stuck                                             *)

\* A served turn of a calm panel is the call the panel waits for.
CalmTurn(c, p, s) ==
  /\ AgreedOf(p) /\ OrderedOf(p) /\ HeededOf(p) /\ LeftOf(p)
  /\ TurnServed(c) /\ panels' = panels
  /\ Was(c) = sessions[s] /\ Is(c) = sessions'[s] /\ panels[p].session = s /\ s # NoCall
  /\ panels[p].current = c /\ c # NoCall /\ panels[p].place = "shown"
  /\ calls[c].kind \in Turns /\ calls[c].panel = p /\ calls[c].at \notin {"answered", "over"}
  /\ calls'[c].kind = calls[c].kind /\ calls'[c].source = calls[c].source /\ calls'[c].confirm = calls[c].confirm
  /\ calls'[c].panel = p
  /\ calls[c].kind = "stuck" => ~calls[c].confirm
  /\ calls[c].confirm => panels[p].track # <<>>
  /\ Mine(p) /\ Mine(p)' /\ ~Told(c)
  /\ panels[p].mode \in Modes /\ sessions[s].mode \in Modes
  /\ sessions[s].count \in Nat /\ sessions'[s].count \in Nat /\ sessions[s].cursor \in 0 .. Len(Guide)
  /\ sessions'[s].mode \in Modes /\ panels[p].track \in Seq(StepType) /\ Len(Fresh(panels[p])) \in Nat

\* A turn that is served for a calm panel is the call the panel waits for.
LEMMA CalmTurns ==
  ASSUME IInv, NEW c \in DOMAIN calls, ServedBy(c), NEW p \in Panels, p = calls[c].panel, panels[p].calm,
         TurnServed(c), NEW s, s = calls[c].sid
  PROVE  CalmTurn(c, p, s)
<1> USE DEF Call
<1>9. calls[c].confirm => panels[p].track # <<>>
  BY CalmServed DEF Links, PanelsLinked, PanelLinked, TurnServed, Asks, Turns
<1>1. /\ CalmOf(p) /\ LinksOf(p) /\ Typed /\ Links /\ Served(c) /\ panels' = panels
      /\ calls[c].kind \in Turns /\ calls[c].at \notin {"answered", "over"} /\ c # NoCall
      /\ panels[p].current = c /\ panels[p].place = "shown" /\ s \in DOMAIN calls
      /\ CallLinked(c) /\ PanelLinked(p) /\ Typed'
  BY CalmServed, ServedType DEF TurnServed, Asks, Turns, Links, CallsLinked, PanelsLinked
<1>2. panels[p].session = s /\ s # NoCall /\ s \in DOMAIN sessions /\ s \in DOMAIN sessions'
  BY <1>1, Known DEF PanelLinked, Typed, Served
<1>3. /\ calls'[c].kind = calls[c].kind /\ calls'[c].source = calls[c].source /\ calls'[c].confirm = calls[c].confirm
      /\ calls'[c].panel = p
  BY <1>1 DEF Served, SameRequest
<1>4. sessions[s] \in SessionType /\ sessions'[s] \in SessionType /\ panels[p] \in PanelType
  BY <1>1, <1>2 DEF Typed
<1>5. /\ sessions[s].mode \in Modes /\ sessions'[s].mode \in Modes /\ panels[p].mode \in Modes
      /\ sessions[s].count \in Nat /\ sessions'[s].count \in Nat /\ sessions[s].cursor \in 0 .. Len(Guide)
  BY <1>4 DEF SessionType, PanelType
<1>7. panels[p].track \in Seq(StepType)
  BY <1>4 DEF PanelType
<1>8. Len(Fresh(panels[p])) \in Nat
  BY <1>7 DEF Fresh
<1>6. Mine(p) /\ Mine(p)' /\ ~Told(c)
  BY <1>1, <1>3 DEF Mine, Told
<1> QED BY <1>1, <1>2, <1>3, <1>5, <1>6, <1>7, <1>8, <1>9 DEF CalmTurn, CalmOf, CallLinked, Was, Is

\* What a calm turn finds.
LEMMA CalmBefore ==
  ASSUME NEW c, NEW p, NEW s, CalmTurn(c, p, s)
  PROVE  /\ calls[c].at \in {"exists", "prepare", "vision"} => sessions[s].mode = "vision"
         /\ calls[c].at # "verify"
         /\ calls[c].kind = "stuck" \/ calls[c].confirm => panels[p].mode = "vision" /\ calls[c].source = "same"
         /\ calls[c].confirm => panels[p].track # <<>>
         /\ panels[p].mode = "vision" /\ sessions[s].mode = "plan" => calls[c].source = "plan" /\ calls[c].at = "body"
         /\ calls[c].kind = "stuck" => sessions[s].mode = "vision"
         /\ sessions[s].mode = "plan" => sessions[s].cursor <= Len(Fresh(panels[p]))
<1> USE DEF Call
<1>1. /\ calls[c].at \in {"exists", "prepare", "vision"} => sessions[s].mode = "vision"
      /\ calls[c].at # "verify"
      /\ calls[c].kind = "stuck" \/ calls[c].confirm => panels[p].mode = "vision" /\ calls[c].source = "same"
      /\ panels[p].mode = "vision" /\ sessions[s].mode = "plan" => calls[c].source = "plan" /\ calls[c].at = "body"
  BY DEF CalmTurn, AgreedOf
<1>2. sessions[s].mode = "plan" => sessions[s].cursor <= Len(Fresh(panels[p]))
  BY DEF CalmTurn, OrderedOf
<1> QED BY <1>1, <1>2 DEF CalmTurn, Modes

\* A turn leaves the mode as the panel knows it, but for a switch that is on its way.
LEMMA TurnAgreed ==
  ASSUME NEW c, NEW p, NEW s, CalmTurn(c, p, s)
  PROVE  AgreedOf(p)'
<1> USE DEF Call
<1>1. CASE Failed(c)
  BY <1>1, CalmBefore DEF CalmTurn, AgreedOf, Failed, Unlike, Told, Turns
<1>2. CASE Goes1(c)
  BY <1>2, CalmBefore DEF CalmTurn, AgreedOf, Goes1, Kept, Unlike, Told, Turns
<1>3. CASE SwitchedOver(c)
  BY <1>3, CalmBefore DEF CalmTurn, AgreedOf, SwitchedOver, Told, Turns
<1>4. CASE Limited(c)
  BY <1>4, CalmBefore DEF CalmTurn, AgreedOf, Limited, Given, Told, Turns
<1>5. CASE ReadOut(c) \/ Looked(c)
  BY <1>5, CalmBefore DEF CalmTurn, AgreedOf, ReadOut, Looked, Given, Told, Turns
<1>6. CASE Turned(c)
  BY <1>6, CalmBefore DEF CalmTurn, AgreedOf, Turned, Hears, Told, Turns
<1>7. CASE Proposed(c)
  BY <1>7, CalmBefore DEF CalmTurn, AgreedOf, Proposed, Given, Told, Turns
<1> QED BY <1>1, <1>2, <1>3, <1>4, <1>5, <1>6, <1>7 DEF CalmTurn, TurnServed

\* A turn leaves the session no further in the list than the screen will be.
LEMMA TurnOrdered ==
  ASSUME NEW c, NEW p, NEW s, CalmTurn(c, p, s)
  PROVE  OrderedOf(p)'
<1> USE DEF Call
<1>0. panels'[p] = panels[p] /\ panels[p].session = s /\ panels[p].current = c
  BY DEF CalmTurn
<1>l. Len(Fresh(panels[p])) >= 0
  BY DEF CalmTurn
<1>1. CASE Failed(c)
  BY <1>0, <1>1, CalmBefore DEF CalmTurn, OrderedOf, Failed, Unlike, Told
<1>2. CASE Goes1(c)
  BY <1>0, <1>2, CalmBefore DEF CalmTurn, OrderedOf, Goes1, Kept, Unlike, Told
<1>3. CASE SwitchedOver(c)
  BY <1>0, <1>l, <1>3, CalmBefore DEF CalmTurn, OrderedOf, SwitchedOver, Told
<1>4. CASE Limited(c)
  BY <1>0, <1>4, CalmBefore DEF CalmTurn, OrderedOf, Limited, Given, Kept, Unlike, Told
<1>5. CASE ReadOut(c)
  BY <1>0, <1>5, CalmBefore, Known DEF CalmTurn, OrderedOf, ReadOut, Given, Told
<1>6. CASE Looked(c) \/ Turned(c)
  BY <1>0, <1>6, CalmBefore DEF CalmTurn, OrderedOf, Looked, Turned, Hears, Given, Told
<1>7. CASE Proposed(c)
  BY <1>0, <1>7, CalmBefore DEF CalmTurn, OrderedOf, Proposed, Given, Told
<1> QED BY <1>1, <1>2, <1>3, <1>4, <1>5, <1>6, <1>7 DEF CalmTurn, TurnServed

\* What the user has said is heard, unless the limit is reached.
LEMMA CalmHears ==
  ASSUME NEW c, NEW p, NEW s, CalmTurn(c, p, s), Hears(c)
  PROVE  Done(c) \subseteq sessions'[s].confirmed /\ panels[p].did \subseteq sessions'[s].confirmed
<1> USE DEF Call
<1>1. /\ panels[p].did \subseteq sessions[s].confirmed
      /\ sessions'[s].confirmed =
           sessions[s].confirmed \cup (IF calls[c].confirm /\ sessions[s].said # None THEN {sessions[s].said} ELSE {})
  <2>1. sessions[s].count < MaxSteps /\ MaxSteps \in Nat
    BY Known DEF CalmTurn, Hears
  <2>2. panels[p].did \subseteq sessions[s].confirmed \/ sessions[s].count >= MaxSteps
    BY DEF CalmTurn, HeededOf
  <2>3. panels[p].did \subseteq sessions[s].confirmed
    BY <2>1, <2>2 DEF CalmTurn
  <2> QED BY <2>3 DEF CalmTurn, Hears
<1>2. CASE calls[c].confirm /\ LastOf(panels[p]).state = "ready"
  <2>1. sessions[s].said = LastOf(panels[p]).text /\ sessions[s].said # None
    BY <1>2, CalmBefore, Known DEF CalmTurn, HeededOf
  <2> QED BY <1>1, <1>2, <2>1 DEF Done, CalmTurn
<1>3. CASE ~(calls[c].confirm /\ LastOf(panels[p]).state = "ready")
  BY <1>1, <1>3 DEF Done, CalmTurn
<1> QED BY <1>2, <1>3

\* A turn has heard what the user marked before it proposes anything.
LEMMA TurnHeeded ==
  ASSUME NEW c, NEW p, NEW s, CalmTurn(c, p, s)
  PROVE  HeededOf(p)'
<1> USE DEF Call
<1>0. panels'[p] = panels[p] /\ panels[p].session = s /\ panels[p].current = c /\ calls'[c].kind = calls[c].kind
      /\ MaxSteps \in Nat /\ sessions[s].count \in Nat /\ sessions'[s].count \in Nat
  BY Known DEF CalmTurn
<1>d. Done(c)' = Done(c)
  BY DEF Done, CalmTurn
<1>p. /\ panels[p].did \subseteq sessions[s].confirmed \/ sessions[s].count >= MaxSteps
      /\ panels[p].track # <<>> /\ panels[p].mode = "vision" /\ LastOf(panels[p]).state = "ready" =>
            sessions[s].said = LastOf(panels[p]).text /\ LastOf(panels[p]).text \in Instr
      /\ calls[c].kind = "step" /\ calls[c].at \in {"exists", "prepare", "vision"} => Done(c) \subseteq sessions[s].confirmed
  BY DEF CalmTurn, HeededOf
<1> DEFINE First == panels[p].did \subseteq sessions'[s].confirmed \/ sessions'[s].count >= MaxSteps
           Screen == panels[p].track # <<>> /\ panels[p].mode = "vision" /\ LastOf(panels[p]).state = "ready" /\ ~Told(c)' =>
                       sessions'[s].said = LastOf(panels[p]).text /\ LastOf(panels[p]).text \in Instr
           Turn == calls[c].kind = "step" /\ calls'[c].at \in {"exists", "prepare", "vision"} =>
                     Done(c) \subseteq sessions'[s].confirmed
           Answer1 == Told(c)' =>
                        /\ Done(c) \subseteq sessions'[s].confirmed \/ sessions'[s].count >= MaxSteps
                        /\ calls'[c].answer.mode = "vision" /\ calls'[c].answer.state = "ready" =>
                             sessions'[s].said = calls'[c].answer.text /\ calls'[c].answer.text \in Instr
<1>1. ASSUME First, Screen, Turn, Answer1
      PROVE  HeededOf(p)'
  BY <1>0, <1>d, <1>1 DEF HeededOf, LastOf
<1>2. CASE Failed(c)
  BY <1>0, <1>1, <1>2, <1>p DEF CalmTurn, Failed, Told
<1>3. CASE Goes1(c)
  <2>1. Turn
    BY <1>3, <1>p DEF CalmTurn, Goes1, Kept
  <2> QED BY <1>0, <1>1, <1>3, <1>p, <2>1 DEF CalmTurn, Goes1, Kept, Told
<1>4. CASE SwitchedOver(c)
  BY <1>0, <1>1, <1>4, <1>p DEF CalmTurn, SwitchedOver, Told
<1>5. CASE Limited(c)
  BY <1>0, <1>1, <1>5, <1>p DEF CalmTurn, Limited, Given, Kept, Told
<1>6. CASE ReadOut(c)
  BY <1>0, <1>1, <1>6, CalmHears DEF CalmTurn, ReadOut, Given, Told
<1>7. CASE Looked(c)
  BY <1>0, <1>1, <1>7, CalmHears DEF CalmTurn, Looked, Given, Told
<1>8. CASE Turned(c)
  BY <1>0, <1>1, <1>8, <1>p, CalmHears DEF CalmTurn, Turned, Told
<1>9. CASE Proposed(c)
  <2>1. Done(c) \subseteq sessions'[s].confirmed \/ sessions'[s].count >= MaxSteps
    <3>1. sessions'[s].confirmed = sessions[s].confirmed /\ sessions'[s].count >= sessions[s].count
      BY <1>0, <1>9 DEF Proposed, CalmTurn
    <3>2. calls[c].kind = "step" => Done(c) \subseteq sessions[s].confirmed
      BY <1>9, <1>p, CalmBefore DEF Proposed
    <3>3. calls[c].kind = "stuck" => Done(c) = panels[p].did
      BY DEF CalmTurn, Done
    <3> QED BY <1>0, <1>p, <3>1, <3>2, <3>3 DEF CalmTurn, Turns
  <2>2. First
    BY <1>0, <1>9, <1>p DEF Proposed, CalmTurn
  <2> QED BY <1>0, <1>1, <1>9, <2>1, <2>2, CalmBefore DEF CalmTurn, Proposed, Given, Told
<1> QED BY <1>2, <1>3, <1>4, <1>5, <1>6, <1>7, <1>8, <1>9 DEF CalmTurn, TurnServed

\* A turn neither opens nor closes a session.
LEMMA TurnOpen ==
  ASSUME NEW c, TurnServed(c)
  PROVE  Is(c).open = Was(c).open
<1> QED BY DEF TurnServed, Failed, Goes1, Kept, Unlike, SwitchedOver, Limited, ReadOut, Looked, Turned, Hears, Proposed

\* A turn of a calm panel leaves files only while the panel is there to clear them.
LEMMA TurnLeft ==
  ASSUME IInv, NEW c \in DOMAIN calls, ServedBy(c), NEW p \in Panels, p = calls[c].panel, panels[p].calm,
         NEW s, s = calls[c].sid, CalmTurn(c, p, s)
  PROVE  LeftOf(p)'
<1> USE DEF Call
<1>1. /\ LinksOf(p) /\ OpenedOf(p) /\ Typed /\ Served(c) /\ panels' = panels
      /\ panels[p].current = c /\ panels[p].place = "shown" /\ panels[p].session = s
      /\ s # NoCall /\ s \in DOMAIN calls /\ LeftOf(p) /\ disk' \subseteq disk \cup {Copy(c)}
      /\ calls[c].kind \in Turns /\ calls'[c].kind = calls[c].kind /\ sessions'[s].open = sessions[s].open
  BY CalmServed, ServedWhole, TurnOpen DEF CalmTurn
<1>2. \A d \in DOMAIN calls : sessions'[d].open = sessions[d].open
  BY <1>1 DEF Served, Typed
<1>3. \A f \in DOMAIN calls : calls[f].kind = "finish" => calls[f].panel # p
  BY <1>1 DEF LinksOf, CallLinked
<1>4. ASSUME NEW d \in DOMAIN calls, calls[d].panel = p
      PROVE  /\ calls[d].kind # "finish"
             /\ sessions'[d].open => d \in {panels[p].session, panels[p].current}
             /\ Shot(d) \in disk' \/ Copy(d) \in disk' => calls[d].kind \in Turns
  <2>1. sessions[d].open => d \in {panels[p].session, panels[p].current}
    BY <1>1, <1>3, <1>4 DEF LeftOf, Finishing
  <2>2. Shot(d) \in disk \/ Copy(d) \in disk => calls[d].kind \in Turns
    BY <1>1, <1>4 DEF LeftOf
  <2>3. Shot(d) # Copy(c) /\ (Copy(d) = Copy(c) => d = c)
    BY DEF Shot, Copy
  <2> QED BY <1>1, <1>2, <1>3, <1>4, <2>1, <2>2, <2>3
<1>5. \A d \in DOMAIN calls' : d \in DOMAIN calls /\ calls'[d].panel = calls[d].panel /\ calls'[d].kind = calls[d].kind
  BY <1>1 DEF Served, SameRequest
<1>6. panels[p].place = "shown" /\ sessions'[s].open
  BY <1>1 DEF LeftOf
<1> QED BY <1>1, <1>4, <1>5, <1>6 DEF LeftOf, Turns

\* A calm panel stays as promised while its turn is served.
LEMMA TurnCalm ==
  ASSUME IInv, NEW c \in DOMAIN calls, ServedBy(c), NEW p \in Panels, p = calls[c].panel, panels[p].calm,
         TurnServed(c)
  PROVE  CalmOf(p)'
<1>1. PICK s : s = calls[c].sid
  OBVIOUS
<1>2. CalmTurn(c, p, s)
  BY <1>1, CalmTurns
<1> QED BY <1>1, <1>2, TurnAgreed, TurnOrdered, TurnHeeded, TurnLeft DEF CalmOf

\* The handlers keep the invariant.
LEMMA ServedStep ==
  ASSUME IInv, NEW c \in DOMAIN calls, ServedBy(c)
  PROVE  IInv'
<1>1. calls[c] \in CallType
  BY DEF IInv, Typed
<1>2. PICK p \in Panels : p = calls[c].panel
  BY <1>1 DEF CallType
<1>3. panels' = panels
  BY DEF ServedBy
<1>4. panels[p].calm => CalmOf(p)'
  BY <1>2, StartCalm, FinishCalm, TurnCalm DEF ServedBy
<1>5. Sound(p)'
  BY <1>2, <1>3, <1>4, ServedLinks, ServedCounts, ServedOpened DEF Sound
<1>6. \A q \in Panels : q # p => Sound(q)'
  BY <1>2, ServedOthers, UntouchedRest DEF IInv
<1>7. Typed'
  BY ServedType DEF IInv
<1> QED BY <1>5, <1>6, <1>7 DEF IInv

-----------------------------------------------------------------------------
(* A step that no session counts                                           *)

\* Calls that stay dropped allow no less than before.
LEMMA SpentKept ==
  ASSUME Typed, Typed', NEW p, NEW t,
         \A d \in DOMAIN calls :
           /\ d \in DOMAIN calls' /\ calls'[d].panel = calls[d].panel /\ calls'[d].sid = calls[d].sid
           /\ calls[d].dropped /\ calls[d].at \in {"answered", "over"} =>
                calls'[d].dropped /\ calls'[d].at \in {"answered", "over"}
  PROVE  Allowed(p, t) <= Allowed(p, t)' /\ Allowed(p, t) \in Nat /\ Allowed(p, t)' \in Nat
<1>1. Spent(p, t) \subseteq Spent(p, t)'
  BY DEF Spent, Call
<1> QED BY <1>1, SpentGrows

\* The calls of before keep to their sessions, and the new ones count nothing yet.
CountsKept(p) ==
  /\ \A d \in DOMAIN calls :
       /\ d \in DOMAIN calls' /\ calls'[d].panel = calls[d].panel /\ calls'[d].sid = calls[d].sid
       /\ calls'[d].kind = calls[d].kind /\ sessions'[d].count = sessions[d].count
       /\ calls[d].dropped => calls'[d].dropped
       /\ calls[d].at \in {"answered", "over"} => calls'[d].at \in {"answered", "over"}
       /\ calls'[d].at \in Turning => calls[d].at \in Turning
  /\ \A d \in DOMAIN calls' : d \notin DOMAIN calls => sessions'[d].count = 0 /\ calls'[d].at \notin Turning

\* A step that counts nothing keeps to the limit.
LEMMA CountsStay ==
  ASSUME Typed, Typed', NEW p \in Panels, LinksOf(p), CountsOf(p), CountsKept(p)
  PROVE  CountsOf(p)'
<1> USE DEF Call
<1>1. \A t : Allowed(p, t) <= Allowed(p, t)' /\ Allowed(p, t) \in Nat /\ Allowed(p, t)' \in Nat
  BY SpentKept DEF CountsKept
<1>5. \A d \in DOMAIN calls : sessions[d] \in SessionType
  BY DEF Typed
<1>2. \A d \in DOMAIN calls : sessions[d].count \in Nat
  BY <1>5 DEF SessionType
<1>3. ASSUME NEW d \in DOMAIN calls', calls'[d].panel = p
      PROVE  sessions'[d].count <= Allowed(p, d)'
  <2>1. CASE d \in DOMAIN calls
    <3>1. sessions[d].count <= Allowed(p, d) /\ sessions'[d].count = sessions[d].count
      BY <1>3, <2>1 DEF CountsOf, CountsKept
    <3> QED BY <1>1, <1>2, <2>1, <3>1
  <2>2. CASE d \notin DOMAIN calls
    BY <1>1, <1>3, <2>2 DEF CountsKept
  <2> QED BY <2>1, <2>2
<1>4. ASSUME NEW d \in DOMAIN calls', calls'[d].panel = p, calls'[d].kind = "step", calls'[d].at \in Turning,
             ~calls'[d].dropped, NEW e, e = calls'[d].sid
      PROVE  sessions'[e].count < Allowed(p, e)'
  <2>1. d \in DOMAIN calls /\ calls[d].panel = p /\ calls[d].sid = e /\ calls[d].kind = "step" /\ ~calls[d].dropped
        /\ calls[d].at \in Turning
    BY <1>4 DEF CountsKept
  <2>2. e \in DOMAIN calls
    BY <2>1 DEF LinksOf, CallLinked
  <2>3. sessions[e].count < Allowed(p, e) /\ sessions'[e].count = sessions[e].count
    BY <2>1, <2>2 DEF CountsOf, CountsKept, Session
  <2> QED BY <1>1, <1>2, <2>2, <2>3
<1> QED BY <1>3, <1>4 DEF CountsOf, Session
-----------------------------------------------------------------------------
(* A user begins a call                                                    *)

BeganCall(p, k, P, n) ==
  /\ n \notin DOMAIN calls /\ n \in Nat \ {0} /\ DOMAIN calls' = DOMAIN calls \cup {n}
  /\ \A d \in DOMAIN calls : calls'[d] = calls[d] /\ sessions'[d] = sessions[d]
  /\ calls'[n] = k /\ sessions'[n] = NoSession
  /\ panels'[p] = P /\ disk' = disk
  /\ panels[p].current = NoCall /\ P.place = "shown" /\ P.current = n
  /\ P.session = panels[p].session /\ P.mode = panels[p].mode /\ P.track = panels[p].track
  /\ P.trackMode = panels[p].trackMode /\ P.view = panels[p].view /\ P.calm = panels[p].calm /\ P.did = panels[p].did
  /\ k.panel = p /\ ~k.aborted /\ ~k.dropped /\ k.at \in {"capture", "sent"}
  /\ \/ /\ k.kind = "start" /\ k.sid = n /\ k.at = "sent" /\ ~k.confirm /\ panels[p].place \in {"new", "shown"}
        /\ panels[p].session = NoCall \/ ~panels[p].calm
     \/ /\ k.kind \in Turns /\ k.sid = panels[p].session /\ panels[p].session # NoCall
        /\ panels[p].place = "shown"
        /\ k.kind = "stuck" => ~k.confirm
        /\ k.kind = "stuck" \/ k.confirm => panels[p].mode = "vision" /\ k.source = "same"
        /\ k.confirm => panels[p].track # <<>>

\* A call that begins leaves the other panels alone.
LEMMA BeganWhole ==
  ASSUME Typed, NEW p \in Panels, Began(p)
  PROVE  /\ \E k \in CallType, P \in PanelType, n \in Nat : BeganCall(p, k, P, n)
         /\ Typed'
         /\ \A q \in Panels : q # p => Untouched(q)
<1>1. PICK n : n = Next1
  OBVIOUS
<1>2. PICK k \in CallType, P \in PanelType :
        /\ Added(calls, k) /\ Changed(p, P) /\ disk' = disk
        /\ panels[p].current = NoCall /\ P.current = Next1 /\ P.place = "shown"
        /\ P = [panels[p] EXCEPT !.current = Next1, !.place = "shown"]
        /\ k.panel = p /\ ~k.aborted /\ ~k.dropped /\ k.at \in {"capture", "sent"}
        /\ \/ /\ k.kind = "start" /\ k.sid = Next1 /\ k.at = "sent" /\ ~k.confirm /\ panels[p].place \in {"new", "shown"}
              /\ panels[p].session = NoCall \/ ~panels[p].calm
           \/ /\ k.kind \in Turns /\ k.sid = panels[p].session /\ panels[p].session # NoCall
              /\ panels[p].place = "shown"
              /\ k.kind = "stuck" => ~k.confirm
              /\ k.kind = "stuck" \/ k.confirm => panels[p].mode = "vision" /\ k.source = "same"
              /\ k.confirm => panels[p].track # <<>>
  BY DEF Began
<1>3. panels[p] \in PanelType
  BY DEF Typed
<1>4. /\ P.session = panels[p].session /\ P.mode = panels[p].mode /\ P.track = panels[p].track
      /\ P.trackMode = panels[p].trackMode /\ P.view = panels[p].view /\ P.calm = panels[p].calm /\ P.did = panels[p].did
  BY <1>2, <1>3 DEF PanelType
<1>5. n \in Nat /\ BeganCall(p, k, P, n)
  BY <1>1, <1>2, <1>4 DEF BeganCall, Added, Changed
<1>6. Typed'
  BY <1>2 DEF Typed, Added, Changed
<1>7. \A q \in Panels : q # p => Untouched(q)
  BY <1>2 DEF Untouched, Added, Changed
<1> QED BY <1>5, <1>6, <1>7

\* A panel that begins a call stays sound.
LEMMA BeganSound ==
  ASSUME IInv, Typed', NEW p \in Panels, NEW k \in CallType, NEW P \in PanelType, NEW n \in Nat, BeganCall(p, k, P, n)
  PROVE  Sound(p)'
<1> USE DEF Call
<1>1. Typed /\ LinksOf(p) /\ CountsOf(p) /\ OpenedOf(p) /\ (panels[p].calm => CalmOf(p)) /\ PanelLinked(p)
  BY DEF IInv, Sound, LinksOf
<1>2. \A d \in DOMAIN calls : calls[d].panel = p =>
        /\ CallLinked(d) /\ calls[d].kind # "finish"
        /\ ~(calls[d].kind \in Asks /\ ~calls[d].dropped /\ calls[d].at # "over")
        /\ panels[p].place = "shown"
  <2>1. panels[p].place \in {"new", "shown"} /\ panels[p].current = NoCall
    BY DEF BeganCall
  <2>2. NoCall \notin DOMAIN calls
    BY <1>1, Known DEF Typed
  <2> QED BY <1>1, <2>1, <2>2 DEF LinksOf, CallLinked, Awaited
<1>3. ASSUME NEW d \in DOMAIN calls', calls'[d].panel = p
      PROVE  CallLinked(d)'
  <2>1. CASE d \in DOMAIN calls
    <3>1. CallLinked(d) /\ calls'[d] = calls[d] /\ calls[d].sid \in DOMAIN calls /\ calls[d].kind # "finish"
      BY <1>2, <1>3, <2>1 DEF BeganCall, CallLinked
    <3> QED BY <1>2, <1>3, <2>1, <3>1 DEF BeganCall, CallLinked, Awaited
  <2>2. CASE d = n
    <3>1. k.kind \in Turns => /\ panels[p].session \in DOMAIN calls /\ calls[panels[p].session].kind = "start"
                              /\ calls[panels[p].session].at = "over" /\ calls[panels[p].session].panel = p
                              /\ k.kind # "start" /\ k.kind # "finish"
      BY <1>1 DEF PanelLinked, BeganCall, Turns
    <3> QED BY <2>2, <3>1 DEF BeganCall, CallLinked, Awaited, Turning, Asks, Turns
  <2> QED BY <1>3, <2>1, <2>2 DEF BeganCall
<1>4. PanelLinked(p)'
  <2>1. k.kind \in Asks /\ n # NoCall
    BY Known DEF BeganCall, Asks, Turns
  <2>2. k.kind \in Turns => k.sid = P.session
    BY DEF BeganCall, Turns
  <2> QED BY <1>1, <2>1, <2>2 DEF PanelLinked, BeganCall
<1>5. TrackLinked(p)'
  BY <1>1 DEF TrackLinked, LinksOf, BeganCall
<1>6. LinksOf(p)'
  BY <1>3, <1>4, <1>5 DEF LinksOf
<1>7. CountsOf(p)'
  <2>1. CountsKept(p)
    BY DEF CountsKept, BeganCall, NoSession, Turning
  <2> QED BY <1>1, <2>1, CountsStay
<1>8. OpenedOf(p)'
  BY <1>1, <1>2 DEF OpenedOf, Told, BeganCall, NoSession, Turns
<1>9. ASSUME P.calm, k.kind = "start"
      PROVE  CalmOf(p)'
  <2>1. CalmOf(p) /\ P.session = NoCall /\ panels[p].session = NoCall /\ panels'[p] = P
    BY <1>1, <1>9 DEF BeganCall, Turns
  <2>2. ~Mine(p)' /\ ~Told(n)'
    BY <1>9 DEF Mine, Told, BeganCall, Turns
  <2>3. AgreedOf(p)' /\ OrderedOf(p)' /\ HeededOf(p)'
    BY <2>1, <2>2 DEF AgreedOf, OrderedOf, HeededOf, BeganCall
  <2>4. ASSUME NEW d \in DOMAIN calls, calls[d].panel = p
        PROVE  calls[d].kind \notin Turns /\ ~sessions[d].open /\ Shot(d) \notin disk /\ Copy(d) \notin disk
    <3>1. panels[p].place = "shown" /\ NoCall \notin DOMAIN calls
      BY <1>1, <1>2, <2>4, Known DEF Typed
    <3>2. calls[d].kind \notin Turns /\ Shot(d) \notin disk /\ Copy(d) \notin disk
      BY <2>1, <2>4, <3>1 DEF CalmOf, LeftOf
    <3>3. ~Finishing(p, d, {"sent", "drop"})
      BY <1>2 DEF Finishing
    <3> QED BY <2>1, <2>4, <3>1, <3>2, <3>3 DEF CalmOf, LeftOf, BeganCall
  <2>5. Shot(n) \notin disk /\ Copy(n) \notin disk
    BY <1>1 DEF Typed, BeganCall, Shot, Copy
  <2>6. LeftOf(p)'
    BY <1>2, <1>9, <2>1, <2>2, <2>4, <2>5 DEF LeftOf, BeganCall, Turns, NoSession
  <2> QED BY <2>3, <2>6 DEF CalmOf
<1>10. ASSUME P.calm, k.kind \in Turns
       PROVE  CalmOf(p)'
  <2>s. PICK s : s = panels[p].session
    OBVIOUS
  <2>1. /\ CalmOf(p) /\ P.session = s /\ s # NoCall /\ s \in DOMAIN calls /\ panels'[p] = P
        /\ sessions'[s] = sessions[s] /\ panels[p].place = "shown" /\ k.kind # "start" /\ k.kind # "finish"
    BY <1>1, <1>10, <2>s DEF BeganCall, Turns, PanelLinked
  <2>2. Mine(p)' /\ ~Told(n)' /\ ~Mine(p) /\ ~Told(NoCall)
    BY <1>10, Known DEF Mine, Told, BeganCall
  <2>3. AgreedOf(p)'
    BY <2>1, <2>2, <2>s DEF AgreedOf, BeganCall, CalmOf, Turns
  <2>4. OrderedOf(p)'
    BY <2>1, <2>2, <2>s DEF OrderedOf, BeganCall, CalmOf, Turns, Fresh
  <2>5. HeededOf(p)'
    BY <2>1, <2>2, <2>s DEF HeededOf, BeganCall, CalmOf, Turns, LastOf
  <2>6. \A d \in DOMAIN calls : calls[d].panel = p =>
          /\ sessions[d].open => d = s
          /\ Shot(d) \in disk \/ Copy(d) \in disk => calls[d].kind \in Turns
    <3>1. NoCall \notin DOMAIN calls /\ \A d : ~Finishing(p, d, {"sent", "drop"})
      BY <1>1, <1>2, Known DEF Typed, Finishing
    <3> QED BY <2>1, <2>s, <3>1 DEF CalmOf, LeftOf, BeganCall
  <2>7. Shot(n) \notin disk /\ Copy(n) \notin disk
    BY <1>1 DEF Typed, BeganCall, Shot, Copy
  <2>8. sessions[s].open
    BY <2>1, <2>s DEF CalmOf, LeftOf
  <2>9. LeftOf(p)'
    BY <1>2, <2>1, <2>2, <2>6, <2>7, <2>8 DEF LeftOf, BeganCall, NoSession
  <2> QED BY <2>3, <2>4, <2>5, <2>9 DEF CalmOf
<1> QED BY <1>6, <1>7, <1>8, <1>9, <1>10 DEF Sound, BeganCall

\* A user who asks for a session or a step keeps the invariant.
LEMMA BeganStep ==
  ASSUME IInv, NEW p \in Panels, Began(p)
  PROVE  IInv'
<1>1. Typed
  BY DEF IInv
<1> QED BY <1>1, BeganWhole, BeganSound, UntouchedRest DEF IInv

-----------------------------------------------------------------------------
(* Something happens to a call outside of the sidecar                      *)

Touched(c, k, p) ==
  /\ c \in DOMAIN calls /\ calls[c].panel = p /\ calls[c].at # "over" /\ c # NoCall
  /\ Altered(c, k) /\ k.panel = p /\ k.kind = calls[c].kind /\ k.sid = calls[c].sid /\ (k.confirm => calls[c].confirm)
  /\ \/ k.at = "over"
     \/ k.at = "sent" /\ calls[c].at = "capture"
     \/ /\ k.at = calls[c].at /\ k.answer = calls[c].answer /\ k.asked = calls[c].asked
        /\ k.source = calls[c].source
  /\ calls[c].dropped => k.dropped
  /\ k.dropped => ~panels'[p].calm
  /\ k.aborted => k.dropped
  /\ k.kind \in Asks /\ ~k.dropped /\ k.at # "over" => panels'[p].current = c
  /\ \/ panels'[p].current = panels[p].current
     \/ panels'[p].current = NoCall /\ panels[p].current = c
  /\ panels'[p].current = c => k.at # "over" /\ ~k.dropped
  /\ panels'[p].session = panels[p].session /\ panels'[p].place = panels[p].place
  /\ panels'[p].calm => panels[p].calm
  /\ panels' \in [Panels -> PanelType] /\ \A q \in Panels : q # p => panels'[q] = panels[q]
  /\ disk' \subseteq disk \cup {Shot(c)}

\* What the hook does to one call leaves the other panels alone.
LEMMA TouchedOthers ==
  ASSUME Typed, NEW p \in Panels, NEW c, NEW k, Touched(c, k, p)
  PROVE  Typed' /\ \A q \in Panels : q # p => Untouched(q)
<1>1. Typed'
  BY DEF Typed, Touched, Altered, Shot
<1>2. \A d \in DOMAIN calls : d # c => Shot(d) # Shot(c) /\ Copy(d) # Shot(c)
  BY DEF Shot, Copy
<1>3. \A q \in Panels : q # p => Untouched(q)
  BY <1>2 DEF Untouched, Touched, Altered
<1> QED BY <1>1, <1>3

\* It keeps the calls of its own panel together.
LEMMA TouchedCalls ==
  ASSUME NEW p \in Panels, NEW c, NEW k, LinksOf(p), Touched(c, k, p)
  PROVE  /\ \A d \in DOMAIN calls' : calls'[d].panel = p => CallLinked(d)'
         /\ panels[p].session # NoCall =>
              /\ panels[p].session \in DOMAIN calls' /\ calls'[panels[p].session] = calls[panels[p].session]
         /\ \A d \in DOMAIN calls : calls[d].at = "over" => calls'[d] = calls[d]
<1> USE DEF Call
<1>0. \A d \in DOMAIN calls : d # c => calls'[d] = calls[d]
  BY DEF Touched, Altered
<1>1. ASSUME NEW d \in DOMAIN calls', calls'[d].panel = p
      PROVE  CallLinked(d)'
  <2>1. d \in DOMAIN calls /\ calls[d].panel = p /\ CallLinked(d)
    BY <1>0, <1>1 DEF Touched, Altered, LinksOf
  <2>2. /\ calls'[d].sid = calls[d].sid /\ calls'[d].kind = calls[d].kind /\ calls[d].sid \in DOMAIN calls'
        /\ calls[d].kind # "start" => calls'[calls[d].sid] = calls[calls[d].sid]
    BY <1>0, <2>1 DEF Touched, Altered, CallLinked
  <2>3. CASE d # c
    <3>1. calls'[d] = calls[d]
      BY <1>0, <2>1, <2>3
    <3> QED BY <2>1, <2>2, <2>3, <3>1 DEF CallLinked, Touched, Awaited
  <2>4. CASE d = c
    <3>1. calls'[c] = k
      BY DEF Touched, Altered
    <3> QED BY <2>1, <2>2, <2>4, <3>1 DEF CallLinked, Touched, Awaited, Turning
  <2> QED BY <2>3, <2>4
<1>2. \A d \in DOMAIN calls : calls[d].at = "over" => calls'[d] = calls[d]
  BY <1>0 DEF Touched
<1>3. panels[p].session # NoCall =>
        panels[p].session \in DOMAIN calls /\ calls[panels[p].session].at = "over"
  BY DEF LinksOf, PanelLinked
<1> QED BY <1>1, <1>2, <1>3 DEF Touched, Altered

\* It keeps a panel linked that shows what it showed.
LEMMA TouchedLinks ==
  ASSUME NEW p \in Panels, NEW c, NEW k, LinksOf(p), Touched(c, k, p),
         panels'[p].track = panels[p].track, panels'[p].trackMode = panels[p].trackMode,
         panels'[p].mode = panels[p].mode, panels'[p].view = "cancelled" => ~panels'[p].calm
  PROVE  LinksOf(p)'
<1> USE DEF Call
<1>1. PanelLinked(p) /\ TrackLinked(p)
  BY DEF LinksOf
<1>2. PanelLinked(p)'
  <2>1. panels'[p].current # NoCall =>
          LET n == panels[p].current
          IN /\ panels'[p].current = n
             /\ n \in DOMAIN calls' /\ calls'[n].panel = p /\ calls'[n].kind = calls[n].kind
             /\ ~calls'[n].dropped /\ calls'[n].at # "over" /\ calls'[n].sid = calls[n].sid
             /\ calls'[n].confirm => calls[n].confirm
    BY <1>1 DEF PanelLinked, Touched, Altered
  <2> QED BY <1>1, <2>1, TouchedCalls DEF PanelLinked, Touched
<1>3. TrackLinked(p)'
  <2>1. \A d \in DOMAIN calls : calls[d].at = "over" => calls'[d] = calls[d]
    BY TouchedCalls
  <2>2. DOMAIN calls' = DOMAIN calls /\ panels'[p].session = panels[p].session
    BY DEF Touched, Altered
  <2> QED BY <1>1, <2>1, <2>2 DEF TrackLinked
<1> QED BY <1>2, <1>3, TouchedCalls DEF LinksOf

\* It counts no step and opens no session.
LEMMA TouchedCounts ==
  ASSUME Typed, NEW p \in Panels, NEW c, NEW k, LinksOf(p), CountsOf(p), OpenedOf(p), Touched(c, k, p)
  PROVE  CountsOf(p)' /\ OpenedOf(p)'
<1>1. Typed'
  BY TouchedOthers
<1>2. CountsKept(p)
  BY DEF CountsKept, Touched, Altered, Turning
<1>3. OpenedOf(p)'
  BY DEF OpenedOf, Touched, Altered, Told, Call
<1> QED BY <1>1, <1>2, <1>3, CountsStay

\* An altered call of a panel that is calm no more.
LEMMA TouchedStep ==
  ASSUME IInv, NEW p \in Panels, NEW c, NEW k, Touched(c, k, p), LinksOf(p)',
         panels'[p].calm => CalmOf(p)'
  PROVE  IInv'
<1>1. Typed /\ LinksOf(p) /\ CountsOf(p) /\ OpenedOf(p)
  BY DEF IInv, Sound
<1>2. Sound(p)'
  BY <1>1, TouchedCounts DEF Sound
<1>3. \A q \in Panels : q # p => Untouched(q)
  BY <1>1, TouchedOthers
<1>4. \A q \in Panels : q # p => Sound(q)'
  BY <1>3, UntouchedRest DEF IInv
<1>5. Typed'
  BY <1>1, TouchedOthers
<1> QED BY <1>2, <1>4, <1>5 DEF IInv

\* A user who cancels keeps the invariant.
LEMMA CancelledStep ==
  ASSUME IInv, NEW p \in Panels, Cancelled(p)
  PROVE  IInv'
<1>1. PICK c : c = panels[p].current
  OBVIOUS
<1>2. PICK k \in CallType, P \in PanelType :
        /\ c # NoCall /\ Altered(c, k) /\ Changed(p, P) /\ disk' = disk
        /\ k.panel = p /\ k.kind = calls[c].kind /\ k.sid = calls[c].sid /\ k.source = calls[c].source
        /\ k.confirm = calls[c].confirm /\ k.at = calls[c].at /\ k.answer = calls[c].answer
        /\ k.asked = calls[c].asked /\ k.dropped
        /\ P = [panels[p] EXCEPT !.current = NoCall, !.view = "cancelled", !.calm = FALSE]
  BY <1>1 DEF Cancelled
<1>3. panels[p] \in PanelType /\ LinksOf(p) /\ PanelLinked(p)
  BY DEF IInv, Typed, Sound, LinksOf
<1>4. /\ panels'[p].current = NoCall /\ panels'[p].view = "cancelled" /\ ~panels'[p].calm
      /\ panels'[p].session = panels[p].session /\ panels'[p].place = panels[p].place
      /\ panels'[p].track = panels[p].track /\ panels'[p].trackMode = panels[p].trackMode
      /\ panels'[p].mode = panels[p].mode
  BY <1>2, <1>3 DEF PanelType, Changed
<1>5. Touched(c, k, p)
  BY <1>1, <1>2, <1>3, <1>4 DEF Touched, PanelLinked, Changed, Call
<1>6. LinksOf(p)'
  BY <1>3, <1>4, <1>5, TouchedLinks
<1> QED BY <1>4, <1>5, <1>6, TouchedStep

-----------------------------------------------------------------------------
(* What the hook does as its awaits return                                 *)

\* A call that ends leaves the others as they are.
LEMMA OverCall ==
  ASSUME Typed, NEW c \in DOMAIN calls, calls' = Ended(c), sessions' = sessions
  PROVE  /\ Altered(c, Over(calls[c])) /\ Over(calls[c]).panel = calls[c].panel
         /\ Over(calls[c]).kind = calls[c].kind /\ Over(calls[c]).sid = calls[c].sid
         /\ Over(calls[c]).at = "over" /\ Over(calls[c]).dropped = calls[c].dropped
         /\ ~Over(calls[c]).aborted /\ ~Over(calls[c]).confirm
<1>1. calls[c] \in CallType
  BY DEF Typed
<1>2. Over(calls[c]) \in CallType
  BY <1>1, OverType
<1>3. calls' = [calls EXCEPT ![c] = Over(calls[c])]
  BY DEF Ended
<1> QED BY <1>1, <1>2, <1>3, OverType, CallSet

\* What is known of a call in flight.
LEMMA InFlight ==
  ASSUME IInv, NEW c \in DOMAIN calls, calls[c].at # "over"
  PROVE  /\ calls[c] \in CallType /\ calls[c].panel \in Panels /\ c # NoCall /\ CallLinked(c)
         /\ panels[calls[c].panel] \in PanelType /\ Sound(calls[c].panel) /\ PanelLinked(calls[c].panel)
         /\ calls[c].sid \in DOMAIN calls
         /\ calls[c].dropped => ~panels[calls[c].panel].calm
         /\ panels[calls[c].panel].current = c => ~calls[c].dropped /\ calls[c].kind \in Asks
         /\ panels[calls[c].panel].current # c => calls[c].dropped \/ calls[c].kind \notin Asks
<1>1. calls[c] \in CallType /\ c # NoCall /\ Typed
  BY Known DEF IInv, Typed
<1>2. calls[c].panel \in Panels
  BY <1>1 DEF CallType
<1>3. panels[calls[c].panel] \in PanelType
  BY <1>1, <1>2 DEF Typed
<1>4. CallLinked(c) /\ PanelLinked(calls[c].panel)
  BY <1>2 DEF IInv, Sound, LinksOf, Call
<1> QED BY <1>1, <1>2, <1>3, <1>4 DEF IInv, CallLinked, PanelLinked, Awaited, Call

\* It went off with its screenshot.
LEMMA SentStep ==
  ASSUME IInv, NEW c \in DOMAIN calls, Captured(c), Awaited(c)
  PROVE  IInv'
<1> USE DEF Call
<1> DEFINE k == [calls[c] EXCEPT !.at = "sent"]
<1>p. PICK p \in Panels : p = calls[c].panel
  BY InFlight DEF Captured
<1>1. /\ calls[c].at = "capture" /\ disk' = disk \cup {Shot(c)} /\ panels' = panels /\ sessions' = sessions
      /\ calls' = [calls EXCEPT ![c] = k] /\ calls[c] \in CallType
  BY InFlight DEF Captured
<1>2. /\ k \in CallType /\ k.panel = p /\ k.kind = calls[c].kind /\ k.sid = calls[c].sid /\ k.confirm = calls[c].confirm
      /\ k.at = "sent" /\ k.dropped = calls[c].dropped /\ k.aborted = calls[c].aborted /\ k.source = calls[c].source
  BY <1>1, <1>p DEF CallType, Stages
<1> HIDE DEF k
<1>t. Typed /\ panels[p].current = c
  BY <1>p DEF IInv, Awaited
<1>3. Altered(c, k)
  BY <1>1, <1>2, <1>t, CallSet
<1>4. Touched(c, k, p)
  BY <1>p, <1>1, <1>2, <1>3, <1>t, InFlight DEF Touched, CallLinked, Typed
<1>5. LinksOf(p)'
  BY <1>1, <1>4, <1>p, InFlight, TouchedLinks DEF Sound, LinksOf, PanelLinked
<1>6. ASSUME panels'[p].calm
      PROVE  CalmOf(p)'
  <2>s. PICK s : s = panels[p].session
    OBVIOUS
  <2>1. CalmOf(p) /\ LinksOf(p)
    BY <1>1, <1>6 DEF IInv, Sound
  <2>2. /\ DOMAIN calls' = DOMAIN calls /\ \A d \in DOMAIN calls : d # c => calls'[d] = calls[d]
        /\ calls'[c] = k
    BY <1>3 DEF Altered
  <2>3. calls[c].kind \in Turns /\ calls[c].kind # "start" /\ calls[c].kind # "finish"
    BY <1>1, InFlight DEF CallLinked, Turns
  <2>4. ~Told(c) /\ ~Told(c)' /\ Mine(p) /\ Mine(p)'
    BY <1>1, <1>2, <1>t, <2>2, <2>3, InFlight DEF Told, Mine
  <2>5. AgreedOf(p)'
    BY <1>1, <1>2, <1>t, <2>1, <2>2, <2>3, <2>4 DEF CalmOf, AgreedOf
  <2>6. OrderedOf(p)'
    BY <1>1, <1>2, <1>t, <2>1, <2>2, <2>3, <2>4 DEF CalmOf, OrderedOf, Fresh
  <2>7. HeededOf(p)'
    BY <1>1, <1>2, <1>t, <2>1, <2>2, <2>3, <2>4 DEF CalmOf, HeededOf, LastOf
  <2>8. panels[p].place = "shown" /\ c # NoCall
    BY <1>1, <1>p, <1>t, <2>1, InFlight DEF CalmOf, LeftOf, CallLinked, PanelType
  <2>9. \A d \in DOMAIN calls : calls[d].panel = p =>
          /\ calls[d].kind # "finish"
          /\ sessions[d].open => d \in {panels[p].session, panels[p].current}
          /\ Shot(d) \in disk' \/ Copy(d) \in disk' => calls[d].kind \in Turns
    <3>1. \A d \in DOMAIN calls : calls[d].panel = p => calls[d].kind # "finish"
      BY <2>1, <2>8 DEF LinksOf, CallLinked
    <3>2. \A d \in DOMAIN calls : d # c => Shot(d) # Shot(c) /\ Copy(d) # Shot(c)
      BY DEF Shot, Copy
    <3>3. Copy(c) # Shot(c)
      BY DEF Shot, Copy
    <3> QED BY <1>1, <2>1, <2>3, <2>8, <3>1, <3>2, <3>3 DEF CalmOf, LeftOf, Finishing
  <2>10. LeftOf(p)'
    <3>1. \A d \in DOMAIN calls' : d \in DOMAIN calls /\ calls'[d].panel = calls[d].panel /\ calls'[d].kind = calls[d].kind
      BY <1>2, <1>p, <2>2
    <3> QED BY <1>1, <1>t, <2>1, <2>3, <2>4, <2>8, <2>9, <3>1 DEF CalmOf, LeftOf
  <2> QED BY <2>5, <2>6, <2>7, <2>10 DEF CalmOf
<1> QED BY <1>4, <1>5, <1>6, TouchedStep

\* Nobody waits for it any more.
LEMMA IgnoredStep ==
  ASSUME IInv, NEW c \in DOMAIN calls, (Captured(c) /\ ~Awaited(c)) \/ NotCaptured(c) \/ Ignored(c)
  PROVE  IInv'
<1> USE DEF Call
<1>p. PICK p \in Panels : p = calls[c].panel
  BY InFlight DEF Captured, NotCaptured, Ignored, Answered
<1> DEFINE k == Over(calls[c])
<1>1. /\ calls[c].at \in {"capture", "answered"} /\ calls' = Ended(c) /\ sessions' = sessions /\ panels' = panels
      /\ disk' \subseteq disk \cup {Shot(c)} /\ (calls[c].at = "answered" => disk' = disk)
      /\ panels[p].current # c
  BY <1>p DEF Captured, NotCaptured, Ignored, Answered, Awaited
<1>2. Altered(c, k) /\ k.panel = p /\ k.kind = calls[c].kind /\ k.sid = calls[c].sid /\ k.at = "over"
      /\ k.dropped = calls[c].dropped /\ ~k.aborted /\ ~k.confirm /\ Typed
  BY <1>1, <1>p, OverCall DEF IInv
<1> HIDE DEF k
<1>3. Touched(c, k, p)
  BY <1>p, <1>1, <1>2, InFlight DEF Touched, CallLinked, Typed
<1>4. LinksOf(p)'
  BY <1>1, <1>3, <1>p, InFlight, TouchedLinks DEF Sound, LinksOf, PanelLinked
<1>5. ASSUME panels'[p].calm
      PROVE  CalmOf(p)'
  <2>1. CalmOf(p) /\ LinksOf(p) /\ OpenedOf(p)
    BY <1>1, <1>5 DEF IInv, Sound
  <2>2. /\ DOMAIN calls' = DOMAIN calls /\ \A d \in DOMAIN calls : d # c => calls'[d] = calls[d]
        /\ calls'[c] = k
    BY <1>2 DEF Altered
  <2>3. calls[c].kind \notin Asks
    BY <1>1, <1>5, <1>p, InFlight
  <2>4. calls[c].kind = "finish" /\ calls[c].kind \notin Turns
    BY <1>1, <2>3, <1>p, InFlight DEF CallType, Asks, Turns
  <2>5. panels[p].place = "gone" /\ panels[p].current = NoCall /\ disk' = disk
    BY <1>1, <1>p, <2>1, <2>4, InFlight DEF CallLinked, CalmOf, LeftOf, Turns
  <2>6. ~Mine(p) /\ ~Mine(p)' /\ ~Told(NoCall) /\ ~Told(NoCall)'
    BY <1>1, <2>5 DEF Mine, Told
  <2>7. AgreedOf(p)'
    BY <1>1, <2>1, <2>5, <2>6 DEF CalmOf, AgreedOf
  <2>8. OrderedOf(p)'
    BY <1>1, <2>1, <2>5, <2>6 DEF CalmOf, OrderedOf, Fresh
  <2>9. HeededOf(p)'
    BY <1>1, <2>1, <2>5, <2>6 DEF CalmOf, HeededOf, LastOf
  <2>10. ASSUME NEW d \in DOMAIN calls, calls[d].panel = p
         PROVE  /\ calls'[d].kind = "finish" /\ calls'[d].at \in {"sent", "drop"} => sessions[calls'[d].sid].open
                /\ sessions[d].open => Finishing(p, d, {"sent", "drop"})'
                /\ Shot(d) \in disk' \/ Copy(d) \in disk' =>
                     /\ calls'[d].kind \in Turns
                     /\ (\E s \in DOMAIN calls : Finishing(p, s, {"sent", "drop", "purge"}))'
    <3>3. Finishing(p, d, {"sent", "drop"}) => Finishing(p, d, {"sent", "drop"})'
      BY <1>1, <2>2 DEF Finishing
    <3>4. (\E s \in DOMAIN calls : Finishing(p, s, {"sent", "drop", "purge"})) =>
            (\E s \in DOMAIN calls : Finishing(p, s, {"sent", "drop", "purge"}))'
      BY <1>1, <2>2 DEF Finishing
    <3>5. /\ sessions[d].open => Finishing(p, d, {"sent", "drop"})
          /\ Shot(d) \in disk \/ Copy(d) \in disk =>
                     /\ calls[d].kind \in Turns
                     /\ \E s \in DOMAIN calls : Finishing(p, s, {"sent", "drop", "purge"})
      BY <2>1, <2>5, <2>10 DEF CalmOf, LeftOf
    <3>6. calls'[d].kind = calls[d].kind
      BY <1>2, <2>2
    <3>7. calls'[d].kind = "finish" /\ calls'[d].at \in {"sent", "drop"} => calls'[d] = calls[d]
      BY <1>2, <2>2
    <3>8. calls[d].kind = "finish" /\ calls[d].at \in {"sent", "drop"} => sessions[calls[d].sid].open
      BY <2>1, <2>10 DEF CalmOf, LeftOf, Session
    <3> QED BY <2>5, <3>3, <3>4, <3>5, <3>6, <3>7, <3>8
  <2>11. LeftOf(p)'
    <3>1. \A d \in DOMAIN calls' : d \in DOMAIN calls /\ calls'[d].panel = calls[d].panel
      BY <1>2, <1>p, <2>2
    <3> QED BY <1>1, <2>5, <2>10, <3>1 DEF LeftOf, Session
  <2> QED BY <2>7, <2>8, <2>9, <2>11 DEF CalmOf
<1> QED BY <1>3, <1>4, <1>5, TouchedStep

-----------------------------------------------------------------------------
(* The panel has what it waited for                                        *)

\* Call c of panel p ends, and the panel waits no more.
Settled(c, p) ==
  /\ Typed /\ Sound(p) /\ LinksOf(p) /\ p = calls[c].panel /\ c \in DOMAIN calls /\ c # NoCall
  /\ panels[p].current = c /\ ~calls[c].dropped /\ calls[c].kind \in Asks
  /\ calls[c].at \in {"capture", "answered"}
  /\ DOMAIN calls' = DOMAIN calls /\ (\A d \in DOMAIN calls : d # c => calls'[d] = calls[d])
  /\ calls'[c].panel = p /\ calls'[c].kind = calls[c].kind /\ calls'[c].at = "over"
  /\ sessions' = sessions /\ disk' = disk
  /\ panels'[p].current = NoCall /\ panels'[p].session = panels[p].session /\ panels'[p].place = panels[p].place
  /\ panels'[p].calm = panels[p].calm

\* A calm panel that waits no more has what it had.
LEMMA SettledLeft ==
  ASSUME NEW p \in Panels, NEW c, Settled(c, p), panels[p].calm,
         calls[c].kind = "start" => ~sessions[c].open
  PROVE  LeftOf(p)'
<1> USE DEF Call
<1>1. /\ LeftOf(p) /\ LinksOf(p) /\ c # NoCall /\ c \in DOMAIN calls /\ calls[c].panel = p
      /\ sessions' = sessions /\ disk' = disk
      /\ panels'[p].current = NoCall /\ panels'[p].session = panels[p].session /\ panels'[p].place = panels[p].place
  BY DEF Settled, Sound, CalmOf
<1>2. panels[p].place = "shown"
  <2>1. panels[p].place \in {"new", "shown", "gone"}
    BY DEF Settled, Typed, PanelType
  <2>2. panels[p].place # "new" /\ panels[p].place # "gone"
    BY <1>1 DEF Settled, LinksOf, CallLinked, LeftOf
  <2> QED BY <2>1, <2>2
<1>3. \A d \in DOMAIN calls : calls[d].panel = p =>
        /\ calls[d].kind # "finish"
        /\ sessions[d].open => d = panels[p].session
        /\ Shot(d) \in disk \/ Copy(d) \in disk => calls[d].kind \in Turns
        /\ calls[d].kind \in Turns => panels[p].session # NoCall
  <2>1. \A d \in DOMAIN calls : calls[d].panel = p => calls[d].kind # "finish"
    BY <1>1, <1>2 DEF LinksOf, CallLinked
  <2>2. sessions[c].open => calls[c].kind = "start"
    BY <1>1 DEF Settled, Sound, OpenedOf
  <2> QED BY <1>1, <1>2, <2>1, <2>2 DEF LeftOf, Finishing, Settled
<1>4. \A d \in DOMAIN calls' : d \in DOMAIN calls /\ calls'[d].panel = calls[d].panel /\ calls'[d].kind = calls[d].kind
  BY DEF Settled
<1> QED BY <1>1, <1>2, <1>3, <1>4 DEF LeftOf

\* It fails.
LEMMA RefusedStep ==
  ASSUME IInv, NEW c \in DOMAIN calls, CaptureFails(c) \/ ErrorArrives(c)
  PROVE  IInv'
<1> USE DEF Call
<1>p. PICK p \in Panels : p = calls[c].panel
  BY InFlight DEF CaptureFails, ErrorArrives, Answered
<1> DEFINE k == Over(calls[c])
           P == [panels[p] EXCEPT !.current = NoCall, !.view = "error"]
<1>1. /\ calls[c].at \in {"capture", "answered"} /\ calls' = Ended(c) /\ sessions' = sessions /\ disk' = disk
      /\ panels[p].current = c /\ ~Told(c) /\ c # NoCall /\ ~calls[c].dropped /\ calls[c].kind \in Asks
      /\ panels' = [panels EXCEPT ![p].current = NoCall, ![p].view = "error"]
      /\ panels[p] \in PanelType /\ Typed
  BY <1>p, InFlight DEF CaptureFails, ErrorArrives, Answered, Awaited, Told, IInv
<1>2. Altered(c, k) /\ k.panel = p /\ k.kind = calls[c].kind /\ k.sid = calls[c].sid /\ k.at = "over"
      /\ k.dropped = calls[c].dropped /\ ~k.aborted /\ ~k.confirm
  BY <1>1, <1>p, OverCall
<1>3. P \in PanelType /\ panels' = [panels EXCEPT ![p] = P]
  BY <1>1, Known DEF PanelType, Typed
<1>4. /\ P.current = NoCall /\ P.view = "error" /\ P.session = panels[p].session /\ P.place = panels[p].place
      /\ P.calm = panels[p].calm /\ P.track = panels[p].track /\ P.trackMode = panels[p].trackMode
      /\ P.mode = panels[p].mode /\ P.did = panels[p].did
  BY <1>1 DEF PanelType
<1> HIDE DEF k, P
<1>5. Changed(p, P)
  BY <1>1, <1>3, PanelSet
<1>6. Touched(c, k, p)
  BY <1>p, <1>1, <1>2, <1>4, <1>5 DEF Touched, Changed
<1>7. LinksOf(p)'
  <2>1. LinksOf(p) /\ panels'[p] = P
    BY <1>1, <1>5 DEF IInv, Sound, Changed
  <2> QED BY <1>4, <1>6, <2>1, TouchedLinks
<1>8. Settled(c, p)
  BY <1>p, <1>1, <1>2, <1>4, <1>5 DEF Settled, Altered, Changed, IInv, Sound
<1>9. ASSUME panels'[p].calm
      PROVE  CalmOf(p)'
  <2>1. CalmOf(p) /\ OpenedOf(p) /\ panels'[p] = P
    BY <1>4, <1>5, <1>9 DEF IInv, Sound, Changed
  <2>2. ~Mine(p)' /\ ~Told(NoCall)'
    BY <1>4, <2>1 DEF Mine, Told
  <2>3. AgreedOf(p)'
    BY <1>1, <1>4, <2>1, <2>2 DEF CalmOf, AgreedOf
  <2>4. OrderedOf(p)'
    BY <1>1, <1>4, <2>1, <2>2 DEF CalmOf, OrderedOf, Fresh
  <2>5. HeededOf(p)'
    BY <1>1, <1>4, <2>1, <2>2 DEF CalmOf, HeededOf, LastOf
  <2>6. ~sessions[c].open \/ calls[c].kind # "start"
    BY <1>1, <1>p, <2>1 DEF OpenedOf
  <2>7. LeftOf(p)'
    BY <1>4, <1>8, <2>1, <2>6, <1>9, SettledLeft
  <2> QED BY <2>3, <2>4, <2>5, <2>7 DEF CalmOf
<1> QED BY <1>6, <1>7, <1>9, TouchedStep

\* What the screen shows when a step has its place.
LEMMA PlacedStep ==
  ASSUME NEW track \in Seq(StepType), NEW place \in Nat \ {0}, NEW step \in StepType
  PROVE  /\ Placed(track, place, step) \in Seq(StepType)
         /\ Len(Placed(track, place, step)) = (IF place > Len(track) THEN place ELSE Len(track))
         /\ Placed(track, place, step)[place] = step
         /\ \A i \in DOMAIN Placed(track, place, step) :
              \/ i = place /\ Placed(track, place, step)[i] = step
              \/ i # place /\ i \in DOMAIN track /\ Placed(track, place, step)[i] = track[i]
              \/ i > Len(track) /\ i < place /\ Placed(track, place, step)[i] = Hole
<1> DEFINE n == IF place > Len(track) THEN place ELSE Len(track)
           f == [i \in 1 .. n |-> IF i = place THEN step ELSE IF i <= Len(track) THEN track[i] ELSE Hole]
<1>1. n \in Nat /\ n >= place /\ n >= Len(track) /\ (n > Len(track) => n = place) /\ Len(track) \in Nat
      /\ DOMAIN track = 1 .. Len(track)
  OBVIOUS
<1>2. Placed(track, place, step) = f
  BY DEF Placed
<1> HIDE DEF n
<1>3. Hole \in StepType
  BY Known DEF Hole, StepType
<1>4. \A i \in 1 .. n : f[i] \in StepType
  BY <1>1, <1>3
<1>5. f \in Seq(StepType) /\ Len(f) = n /\ DOMAIN f = 1 .. n
  BY <1>1, <1>4
<1>6. f[place] = step
  BY <1>1
<1>7. \A i \in 1 .. n : \/ i = place /\ f[i] = step
                        \/ i # place /\ i \in DOMAIN track /\ f[i] = track[i]
                        \/ i > Len(track) /\ i < place /\ f[i] = Hole
  BY <1>1
<1> HIDE DEF f
<1> QED BY <1>2, <1>5, <1>6, <1>7 DEF n

StepShown(c, p, P, a, fresh, place) ==
  LET step == [call |-> c, state |-> a.state, text |-> a.text]
  IN /\ a = calls[c].answer /\ fresh = (IF panels[p].trackMode = a.mode THEN panels[p].track ELSE <<>>)
     /\ place = (IF a.mode = "plan" /\ a.index # NoIndex THEN a.index + 1 ELSE Len(fresh) + 1)
     /\ P.current = NoCall /\ P.view = "step" /\ P.mode = a.mode /\ P.trackMode = a.mode
     /\ P.did = Done(c) /\ P.track = Placed(fresh, place, step)
     /\ P.session = panels[p].session /\ P.place = panels[p].place /\ P.calm = panels[p].calm
     /\ P.track \in Seq(StepType)
     /\ Len(P.track) = (IF place > Len(fresh) THEN place ELSE Len(fresh))
     /\ P.track[place] = step
     /\ \A i \in DOMAIN P.track :
          \/ i = place /\ P.track[i] = step
          \/ i # place /\ i \in DOMAIN fresh /\ P.track[i] = fresh[i]
          \/ i > Len(fresh) /\ i < place /\ P.track[i] = Hole
     /\ place \in Nat \ {0} /\ Len(fresh) \in Nat /\ a.index \in Nat /\ a.mode \in Modes

\* acceptStep puts the step in its place and leaves the other panels alone.
LEMMA ShownWhole ==
  ASSUME IInv, NEW c \in DOMAIN calls, StepArrives(c), NEW p \in Panels, p = calls[c].panel
  PROVE  /\ Settled(c, p) /\ Told(c) /\ Mine(p) /\ panels[p].session \in DOMAIN calls
         /\ \E k, P, a, fresh, place : StepShown(c, p, P, a, fresh, place) /\ Touched(c, k, p) /\ Changed(p, P) /\ ~k.dropped
<1> USE DEF Call
<1> DEFINE k == Over(calls[c])
           a == calls[c].answer
           panel == panels[p]
           fresh == IF panel.trackMode = a.mode THEN panel.track ELSE <<>>
           place == IF a.mode = "plan" /\ a.index # NoIndex THEN a.index + 1 ELSE Len(fresh) + 1
           step == [call |-> c, state |-> a.state, text |-> a.text]
           track == Placed(fresh, place, step)
           did == Done(c)
           P == [panel EXCEPT !.current = NoCall, !.view = "step", !.mode = a.mode, !.trackMode = a.mode,
                              !.did = did, !.track = track]
<1>1. /\ calls[c].at = "answered" /\ calls' = Ended(c) /\ sessions' = sessions /\ disk' = disk
      /\ panels[p].current = c /\ Told(c) /\ c # NoCall /\ ~calls[c].dropped /\ calls[c].kind \in Asks
      /\ calls[c].kind \in Turns /\ Mine(p)
      /\ panels[p] \in PanelType /\ Typed /\ PanelLinked(p) /\ LinksOf(p) /\ CallLinked(c)
  BY InFlight DEF StepArrives, Answered, Awaited, Told, IInv, Turns, Mine, Sound
<1>2. Altered(c, k) /\ k.panel = p /\ k.kind = calls[c].kind /\ k.sid = calls[c].sid /\ k.at = "over"
      /\ k.dropped = calls[c].dropped /\ ~k.aborted /\ ~k.confirm
  BY <1>1, OverCall
<1>3. panels' = [panels EXCEPT ![p] = P]
  BY DEF StepArrives
<1>4. a \in AnswerType /\ c \in Nat
  BY <1>1 DEF CallLinked, Typed
<1>5. /\ a.state \in {"ready", "wrong_window", "done", "unclear", "loop", "error"} /\ a.text \in Texts \cup {None}
      /\ a.mode \in Modes /\ a.index \in Nat
  BY <1>4 DEF AnswerType
<1>6. step \in StepType
  BY <1>4, <1>5 DEF StepType
<1>7. panel.track \in Seq(StepType)
  BY <1>1 DEF PanelType
<1> HIDE DEF step
<1>8. fresh \in Seq(StepType) /\ Len(fresh) \in Nat
  BY <1>7
<1> HIDE DEF fresh
<1>9. place \in Nat \ {0}
  BY <1>5, <1>8
<1> HIDE DEF place
<1>10. /\ track \in Seq(StepType)
       /\ Len(track) = (IF place > Len(fresh) THEN place ELSE Len(fresh))
       /\ track[place] = step
       /\ \A i \in DOMAIN track :
            \/ i = place /\ track[i] = step
            \/ i # place /\ i \in DOMAIN fresh /\ track[i] = fresh[i]
            \/ i > Len(fresh) /\ i < place /\ track[i] = Hole
  BY <1>6, <1>8, <1>9, PlacedStep
<1>11. did \in SUBSET (Texts \cup {None})
  <2>1. panel.did \in SUBSET (Texts \cup {None})
    BY <1>1 DEF PanelType
  <2>2. calls[c].confirm => LastOf(panel).text \in Texts \cup {None}
    <3>1. calls[c].confirm => panel.track # <<>>
      BY <1>1 DEF PanelLinked
    <3>2. calls[c].confirm => LastOf(panel) \in StepType
      BY <1>7, <3>1 DEF LastOf
    <3> QED BY <3>2 DEF StepType
  <2> QED BY <1>1, <2>1, <2>2 DEF Done
<1> HIDE DEF track, did
<1>12. P \in PanelType
  BY <1>1, <1>5, <1>10, <1>11, Known DEF PanelType
<1>13. /\ P.current = NoCall /\ P.view = "step" /\ P.mode = a.mode /\ P.trackMode = a.mode /\ P.did = did
       /\ P.track = track /\ P.session = panels[p].session /\ P.place = panels[p].place /\ P.calm = panels[p].calm
  BY <1>1 DEF PanelType
<1> HIDE DEF P, k
<1>14. Changed(p, P)
  BY <1>1, <1>3, <1>12, PanelSet
<1>15. Touched(c, k, p)
  BY <1>1, <1>2, <1>13, <1>14 DEF Touched, Changed
<1>16. Settled(c, p)
  BY <1>1, <1>2, <1>13, <1>14 DEF Settled, Altered, Changed, IInv, Sound
<1>17. panels[p].session \in DOMAIN calls
  BY <1>1 DEF PanelLinked, CallLinked
<1>18. StepShown(c, p, P, a, fresh, place)
  BY <1>5, <1>8, <1>9, <1>10, <1>13 DEF StepShown, fresh, place, track, step, did
<1> QED BY <1>1, <1>2, <1>14, <1>15, <1>16, <1>17, <1>18

\* The step that arrives is the one the session has got to.
LEMMA ShownCalm ==
  ASSUME NEW p \in Panels, NEW c, Settled(c, p), Told(c), Mine(p), NEW P, NEW a, NEW fresh, NEW place,
         StepShown(c, p, P, a, fresh, place), panels'[p] = P, P.calm
  PROVE  CalmOf(p)'
<1> USE DEF Call
<1>s. PICK s : s = panels[p].session
  OBVIOUS
<1>1. /\ AgreedOf(p) /\ OrderedOf(p) /\ HeededOf(p) /\ panels[p].current = c /\ sessions' = sessions
      /\ P.current = NoCall /\ P.session = s /\ calls[c].kind \in Turns /\ panels[p].calm
  BY <1>s DEF Settled, StepShown, Sound, CalmOf, Mine
<1>2. ~Mine(p)' /\ ~Told(NoCall)'
  BY <1>1 DEF Mine, Told
<1>3. P.mode = sessions[s].mode
  BY <1>1, <1>s DEF AgreedOf, StepShown
<1>4. AgreedOf(p)'
  BY <1>1, <1>2, <1>3 DEF AgreedOf
<1>5. OrderedOf(p)'
  <2>1. ASSUME s # NoCall, sessions[s].mode = "plan"
        PROVE  sessions[s].cursor <= Len(Fresh(P))
    <3>1. /\ a.mode = "plan" /\ P.trackMode = "plan" /\ Fresh(P) = P.track /\ fresh = Fresh(panels[p])
      BY <1>3, <2>1 DEF StepShown, Fresh
    <3>2. \/ a.index = NoIndex /\ sessions[s].cursor <= Len(fresh)
          \/ a.index <= Len(Guide) /\ sessions[s].cursor <= a.index + 1
      BY <1>1, <1>s, <2>1, <3>1 DEF OrderedOf, StepShown
    <3>3. sessions[s].cursor \in Nat
      <4>1. s \in DOMAIN sessions
        BY <1>s, <2>1 DEF Settled, LinksOf, PanelLinked, Typed
      <4>2. sessions[s] \in SessionType
        BY <4>1 DEF Settled, Typed
      <4> QED BY <4>2, Known DEF SessionType
    <3>4. CASE a.index = NoIndex /\ sessions[s].cursor <= Len(fresh)
      BY <3>1, <3>3, <3>4 DEF StepShown
    <3>5. CASE a.index <= Len(Guide) /\ sessions[s].cursor <= a.index + 1
      <4>1. place = a.index + 1
        BY <3>1, <3>5, Known DEF StepShown, NoIndex
      <4> QED BY <3>1, <3>3, <3>5, <4>1 DEF StepShown
    <3> QED BY <3>2, <3>4, <3>5
  <2> QED BY <1>1, <1>2, <2>1 DEF OrderedOf
<1>6. HeededOf(p)'
  <2>1. ASSUME s # NoCall
        PROVE  P.did \subseteq sessions[s].confirmed \/ sessions[s].count >= MaxSteps
    BY <1>1, <1>s, <2>1 DEF HeededOf, StepShown
  <2>2. ASSUME s # NoCall, P.mode = "vision", LastOf(P).state = "ready"
        PROVE  sessions[s].said = LastOf(P).text /\ LastOf(P).text \in Instr
    <3>1. a.mode = "vision" /\ place = Len(fresh) + 1 /\ Len(P.track) = place /\ Len(fresh) \in Nat
      BY <2>2 DEF StepShown
    <3>2. LastOf(P) = [call |-> c, state |-> a.state, text |-> a.text]
      BY <3>1 DEF StepShown, LastOf
    <3>3. a.state = "ready" /\ LastOf(P).text = a.text
      BY <2>2, <3>2
    <3> QED BY <1>1, <1>s, <2>2, <3>1, <3>3 DEF HeededOf, StepShown
  <2> QED BY <1>1, <1>2, <2>1, <2>2 DEF HeededOf, LastOf
<1>7. LeftOf(p)'
  BY <1>1, SettledLeft DEF Turns
<1> QED BY <1>4, <1>5, <1>6, <1>7 DEF CalmOf

\* A step that arrives keeps the invariant.
LEMMA ShownStep ==
  ASSUME IInv, NEW c \in DOMAIN calls, StepArrives(c)
  PROVE  IInv'
<1> USE DEF Call
<1>p. PICK p \in Panels : p = calls[c].panel
  BY InFlight DEF StepArrives, Answered
<1>1. PICK k, P, a, fresh, place : StepShown(c, p, P, a, fresh, place) /\ Touched(c, k, p) /\ Changed(p, P) /\ ~k.dropped
  BY <1>p, ShownWhole
<1>2. Settled(c, p) /\ Told(c) /\ Mine(p) /\ panels[p].session \in DOMAIN calls /\ LinksOf(p) /\ panels'[p] = P
  BY <1>1, <1>p, ShownWhole DEF Settled, Changed
<1>3. PanelLinked(p)'
  <2>1. panels[p].session # NoCall
    BY <1>2, Known DEF Settled, Typed
  <2>2. calls'[panels[p].session] = calls[panels[p].session] /\ panels[p].session \in DOMAIN calls'
    BY <1>1, <1>2, <2>1, TouchedCalls
  <2> QED BY <1>1, <1>2, <2>1, <2>2 DEF PanelLinked, LinksOf, StepShown
<1>4. TrackLinked(p)'
  <2>1. ASSUME NEW i \in DOMAIN P.track, P.track[i].call # NoCall
        PROVE  LET d == P.track[i].call
               IN d \in DOMAIN calls /\ ~calls'[d].dropped /\ calls'[d].at = "over" /\ calls'[d].sid = P.session
                  /\ calls'[d].panel = p
    <3>1. CASE P.track[i] = [call |-> c, state |-> a.state, text |-> a.text]
      <4>1. ~calls'[c].dropped
        BY <1>1, <1>2 DEF Touched, Settled, Altered
      <4>2. calls'[c].sid = P.session
        BY <1>1, <1>2 DEF Touched, Settled, Altered, StepShown, Mine, PanelLinked, LinksOf
      <4> QED BY <1>2, <3>1, <4>1, <4>2 DEF Settled
    <3>2. CASE i \in DOMAIN fresh /\ P.track[i] = fresh[i]
      <4>1. fresh = panels[p].track /\ i \in DOMAIN panels[p].track
        BY <1>1, <3>2 DEF StepShown
      <4>2. P.track[i] = panels[p].track[i] /\ P.session = panels[p].session
        BY <1>1, <3>2, <4>1 DEF StepShown
      <4>3. TrackLinked(p)
        BY <1>2 DEF LinksOf
      <4>4. LET d == panels[p].track[i].call
            IN d \in DOMAIN calls /\ ~calls[d].dropped /\ calls[d].at = "over" /\ calls[d].sid = panels[p].session
               /\ calls[d].panel = p
        BY <2>1, <4>1, <4>2, <4>3 DEF TrackLinked
      <4>5. LET d == P.track[i].call
            IN d \in DOMAIN calls /\ ~calls[d].dropped /\ calls[d].at = "over" /\ calls[d].sid = P.session
               /\ calls[d].panel = p
        BY <4>2, <4>4
      <4> QED BY <1>1, <1>2, <4>5, TouchedCalls
    <3>3. CASE P.track[i] = Hole
      BY <2>1, <3>3 DEF Hole
    <3> QED BY <1>1, <3>1, <3>2, <3>3 DEF StepShown
  <2> QED BY <1>1, <1>2, <2>1 DEF TrackLinked, Settled
<1>5. LinksOf(p)'
  BY <1>1, <1>2, <1>3, <1>4, TouchedCalls DEF LinksOf
<1>6. panels'[p].calm => CalmOf(p)'
  BY <1>1, <1>2, ShownCalm
<1> QED BY <1>1, <1>5, <1>6, TouchedStep

-----------------------------------------------------------------------------
(* The session is there                                                    *)

StartShown(c, p, k, P, n) ==
  /\ Typed /\ Typed' /\ Sound(p) /\ LinksOf(p) /\ p = calls[c].panel /\ c \in DOMAIN calls /\ c # NoCall
  /\ panels[p].current = c /\ ~calls[c].dropped /\ calls[c].kind = "start" /\ calls[c].at = "answered" /\ Told(c)
  /\ n \notin DOMAIN calls /\ n # NoCall /\ DOMAIN calls' = DOMAIN calls \cup {n}
  /\ (\A d \in DOMAIN calls : d # c => calls'[d] = calls[d])
  /\ (\A d \in DOMAIN calls : sessions'[d] = sessions[d])
  /\ calls'[c].panel = p /\ calls'[c].kind = "start" /\ calls'[c].sid = c /\ calls'[c].at = "over"
  /\ ~calls'[c].dropped /\ ~calls'[c].aborted
  /\ calls'[n] = k /\ sessions'[n] = NoSession /\ disk' = disk
  /\ k.panel = p /\ k.kind = "step" /\ k.sid = c /\ ~k.confirm /\ k.at \in {"capture", "sent"} /\ ~k.aborted /\ ~k.dropped
  /\ panels'[p] = P /\ P.current = n /\ P.session = c /\ P.mode = calls[c].answer.mode /\ P.track = <<>>
  /\ P.trackMode = None /\ P.did = {} /\ P.place = panels[p].place /\ P.view = panels[p].view
  /\ P.calm = panels[p].calm

\* The panel has its session and asks for the first step at once.
LEMMA StartWhole ==
  ASSUME IInv, NEW c \in DOMAIN calls, StartArrives(c), NEW p \in Panels, p = calls[c].panel
  PROVE  /\ \E k, P, n : StartShown(c, p, k, P, n)
         /\ \A q \in Panels : q # p => Untouched(q)
<1> USE DEF Call
<1>n. PICK n : n = Next1
  OBVIOUS
<1> DEFINE mode == calls[c].answer.mode
           P == [panels[p] EXCEPT !.session = c, !.mode = mode, !.current = n,
                                  !.track = <<>>, !.trackMode = None, !.did = {}]
           shot == mode = "vision"
           k == NewCall(p, "step", c, "same", FALSE, shot)
           those == Ended(c)
<1>1. /\ calls[c].at = "answered" /\ panels[p].current = c /\ Told(c) /\ c # NoCall /\ ~calls[c].dropped
      /\ calls[c].kind = "start" /\ panels[p] \in PanelType /\ Typed /\ LinksOf(p) /\ Sound(p) /\ CallLinked(c)
      /\ calls[c].sid = c /\ calls[c] \in CallType
  BY InFlight DEF StartArrives, Answered, Awaited, Told, IInv, Sound, CallLinked
<1>2. mode \in Modes /\ c \in Nat \ {0} /\ n \in Nat /\ None \in Modes \cup {None}
  BY <1>1, <1>n DEF CallLinked, AnswerType, Typed, Next1
<1>3. /\ k \in CallType /\ k.panel = p /\ k.kind = "step" /\ k.sid = c /\ ~k.confirm /\ k.at \in {"capture", "sent"}
      /\ ~k.aborted /\ ~k.dropped
  <2>1. shot \in BOOLEAN
    OBVIOUS
  <2> HIDE DEF shot
  <2>2. \A confirm \in BOOLEAN :
           LET r == NewCall(p, "step", c, "same", confirm, shot)
           IN /\ r \in CallType /\ r.panel = p /\ r.kind = "step" /\ r.sid = c /\ r.confirm = confirm
              /\ r.at \in {"capture", "sent"} /\ ~r.aborted /\ ~r.dropped
    BY <1>2, <2>1, NewCallType
  <2> QED BY <2>2
<1>4. /\ those \in Seq(CallType) /\ Len(those) = Len(calls) /\ DOMAIN those = DOMAIN calls
      /\ those[c] = Over(calls[c]) /\ \A d \in DOMAIN calls : d # c => those[d] = calls[d]
  <2>1. those = [calls EXCEPT ![c] = Over(calls[c])]
    BY DEF Ended
  <2>2. Over(calls[c]) \in CallType
    BY <1>1, OverType
  <2> HIDE DEF those
  <2> QED BY <1>1, <2>1, <2>2 DEF Typed
<1>5. P \in PanelType
  <2>1. <<>> \in Seq(StepType) /\ {} \in SUBSET (Texts \cup {None})
    OBVIOUS
  <2>2. c \in Nat
    BY <1>2
  <2> HIDE DEF mode
  <2> QED BY <1>1, <1>2, <2>1, <2>2 DEF PanelType
<1>6. /\ P.current = n /\ P.session = c /\ P.mode = mode /\ P.track = <<>>
      /\ P.trackMode = None /\ P.did = {} /\ P.place = panels[p].place /\ P.view = panels[p].view
      /\ P.calm = panels[p].calm
  BY <1>1 DEF PanelType
<1>7. Makes(those, k) /\ panels' = [panels EXCEPT ![p] = P] /\ disk' = disk
  <2>1. StepCall(p, P, "step", "same", FALSE) = k
    BY <1>6 DEF StepCall
  <2> QED BY <2>1, <1>n DEF StartArrives
<1> HIDE DEF k, P, those, mode, shot
<1>8. Added(those, k)
  BY <1>1, <1>3, <1>4, <1>7, MakesEffect
<1>9. Changed(p, P)
  BY <1>1, <1>5, <1>7, PanelSet
<1>10. Typed'
  BY <1>1, <1>7, <1>8, <1>9 DEF Typed, Added, Changed
<1>11. StartShown(c, p, k, P, n)
  BY <1>1, <1>n, <1>3, <1>4, <1>6, <1>7, <1>8, <1>9, <1>10, OverType, Known DEF StartShown, Added, Changed, mode
<1>12. \A q \in Panels : q # p => Untouched(q)
  <2>1. Over(calls[c]).panel = p
    BY <1>1, OverType
  <2> QED BY <1>3, <1>4, <1>7, <1>8, <1>9, <2>1 DEF Untouched, Added, Changed
<1> QED BY <1>11, <1>12

\* A panel that has just got its session is sound.
LEMMA StartSound ==
  ASSUME NEW p \in Panels, NEW c, NEW k, NEW P, NEW n, StartShown(c, p, k, P, n)
  PROVE  Sound(p)'
<1> USE DEF Call
<1>1. PanelLinked(p) /\ CountsOf(p) /\ OpenedOf(p) /\ (panels[p].calm => CalmOf(p)) /\ Typed /\ Typed' /\ LinksOf(p)
      /\ CallLinked(c) /\ c \in DOMAIN calls
  BY DEF StartShown, Sound, LinksOf
<1>2. panels[p].place \in {"shown", "gone"}
  BY <1>1 DEF PanelLinked, StartShown, Typed, PanelType
<1>3. \A d \in DOMAIN calls : calls[d].panel = p /\ d # c =>
        ~(calls[d].kind \in Asks /\ ~calls[d].dropped /\ calls[d].at # "over")
  BY <1>1 DEF LinksOf, CallLinked, Awaited, StartShown
<1>4. ASSUME NEW d \in DOMAIN calls', calls'[d].panel = p
      PROVE  CallLinked(d)'
  <2>1. CASE d \in DOMAIN calls /\ d # c
    <3>1. /\ CallLinked(d) /\ calls'[d] = calls[d] /\ calls[d].panel = p /\ calls[d].sid \in DOMAIN calls
          /\ calls'[d].kind # "start" => calls[d].sid # c /\ calls'[calls[d].sid] = calls[calls[d].sid]
      BY <1>1, <1>4, <2>1 DEF StartShown, LinksOf, CallLinked
    <3> QED BY <1>1, <1>2, <1>3, <2>1, <3>1 DEF StartShown, CallLinked, Awaited
  <2>2. CASE d = c
    BY <1>1, <1>2, <2>2 DEF StartShown, CallLinked, Awaited, Turning
  <2>3. CASE d = n
    BY <1>1, <1>2, <2>3 DEF StartShown, CallLinked, Awaited, Turning, Turns, Asks
  <2> QED BY <1>4, <2>1, <2>2, <2>3 DEF StartShown
<1>5. PanelLinked(p)'
  BY <1>1, <1>2 DEF StartShown, PanelLinked, Turns, Asks
<1>6. TrackLinked(p)'
  BY DEF StartShown, TrackLinked
<1>7. CountsOf(p)'
  <2>1. CountsKept(p)
    BY <1>1 DEF CountsKept, StartShown, NoSession, Turning, CallLinked
  <2> QED BY <1>1, <2>1, CountsStay
<1>8. OpenedOf(p)'
  BY <1>1 DEF OpenedOf, Told, StartShown, NoSession
<1>9. ASSUME P.calm
      PROVE  CalmOf(p)'
  <2>1. /\ panels[p].session = NoCall /\ sessions[c].mode = calls[c].answer.mode /\ sessions[c].cursor = 0
        /\ sessions[c].open /\ LeftOf(p) /\ panels[p].place = "shown"
    BY <1>1, <1>2, <1>9 DEF StartShown, CalmOf, AgreedOf, LeftOf
  <2>2. ~Told(n)'
    BY DEF StartShown, Told
  <2>3. AgreedOf(p)'
    BY <1>1, <2>1, <2>2 DEF AgreedOf, StartShown, Turns
  <2>4. OrderedOf(p)'
    BY <1>1, <2>1, <2>2 DEF OrderedOf, StartShown, Turns, Fresh
  <2>5. HeededOf(p)'
    BY <1>1, <2>1, <2>2 DEF HeededOf, StartShown, Turns, LastOf
  <2>6. \A d \in DOMAIN calls : calls[d].panel = p =>
          /\ calls[d].kind # "finish"
          /\ sessions[d].open => d = c
          /\ Shot(d) \in disk \/ Copy(d) \in disk => calls[d].kind \in Turns
    <3>1. \A d \in DOMAIN calls : calls[d].panel = p => calls[d].kind # "finish"
      BY <1>1, <2>1 DEF LinksOf, CallLinked
    <3>2. NoCall \notin DOMAIN calls
      BY <1>1, Known DEF Typed
    <3> QED BY <2>1, <3>1, <3>2 DEF LeftOf, Finishing, StartShown
  <2>7. Shot(n) \notin disk /\ Copy(n) \notin disk
    BY <1>1 DEF Typed, StartShown, Shot, Copy
  <2>8. LeftOf(p)'
    BY <1>1, <2>1, <2>2, <2>6, <2>7 DEF LeftOf, StartShown, NoSession
  <2> QED BY <2>3, <2>4, <2>5, <2>8 DEF CalmOf
<1>10. panels'[p] = P
  BY DEF StartShown
<1> QED BY <1>4, <1>5, <1>6, <1>7, <1>8, <1>9, <1>10 DEF Sound, LinksOf

\* A session that arrives keeps the invariant.
LEMMA StartStep ==
  ASSUME IInv, NEW c \in DOMAIN calls, StartArrives(c)
  PROVE  IInv'
<1>1. PICK p \in Panels : p = calls[c].panel
  BY InFlight DEF StartArrives, Answered, Call
<1>2. PICK k, P, n : StartShown(c, p, k, P, n)
  BY <1>1, StartWhole
<1>4. Sound(p)' /\ Typed'
  BY <1>2, StartSound DEF StartShown
<1>3. \A q \in Panels : q # p => Sound(q)'
  BY <1>1, StartWhole, UntouchedRest DEF IInv
<1> QED BY <1>3, <1>4 DEF IInv

-----------------------------------------------------------------------------
(* The panel goes                                                          *)

\* Call r is call k, or k left alone.
LeftAlone(r, k) ==
  /\ SameRequest([r EXCEPT !.dropped = k.dropped], k) /\ r.dropped
  /\ r.at = k.at /\ r.answer = k.answer /\ r.asked = k.asked

Departed(p, P, s) ==
  /\ Typed /\ Typed' /\ Sound(p) /\ LinksOf(p) /\ s = panels[p].session /\ panels[p].place = "shown"
  /\ DOMAIN calls \subseteq DOMAIN calls' /\ disk' = disk
  /\ \A d \in DOMAIN calls :
       /\ sessions'[d] = sessions[d]
       /\ calls'[d] = calls[d] \/ (d = panels[p].current /\ LeftAlone(calls'[d], calls[d]))
  /\ \A n \in DOMAIN calls' : n \notin DOMAIN calls =>
       /\ s # NoCall /\ sessions'[n] = NoSession
       /\ calls'[n].kind = "finish" /\ calls'[n].sid = s /\ calls'[n].panel = p /\ calls'[n].at = "sent"
       /\ ~calls'[n].dropped /\ ~calls'[n].aborted /\ ~calls'[n].confirm
       /\ \A m \in DOMAIN calls' : m \notin DOMAIN calls => m = n
  /\ s # NoCall => \E n \in DOMAIN calls' : n \notin DOMAIN calls
  /\ panels'[p] = P /\ P.place = "gone" /\ (P.calm => panels[p].calm /\ panels[p].current = NoCall)
  /\ \/ /\ P.session = NoCall /\ P.current = NoCall /\ P.track = <<>> /\ P.view = "step"
        /\ panels[p].current # NoCall => calls'[panels[p].current].dropped
     \/ /\ P.session = s /\ P.current = panels[p].current /\ P.track = panels[p].track
        /\ P.trackMode = panels[p].trackMode /\ P.mode = panels[p].mode /\ P.view = panels[p].view
        /\ P.did = panels[p].did
        /\ \A d \in DOMAIN calls : calls'[d] = calls[d]

\* The calls of a panel that goes, and its finish.
LEMMA DepartCalls ==
  ASSUME Typed, NEW p \in Panels, NEW those \in Seq(CallType), Len(those) = Len(calls), disk' = disk,
         panels[p].session \in Nat,
         \/ panels[p].session = NoCall /\ calls' = those /\ sessions' = sessions
         \/ panels[p].session # NoCall /\ Makes(those, FinishCall(p))
  PROVE  /\ calls' \in Seq(CallType) /\ sessions' \in Seq(SessionType) /\ Len(sessions') = Len(calls')
         /\ DOMAIN calls \subseteq DOMAIN calls'
         /\ \A d \in DOMAIN calls : sessions'[d] = sessions[d] /\ calls'[d] = those[d]
         /\ \A n \in DOMAIN calls' : n \notin DOMAIN calls =>
              /\ panels[p].session # NoCall /\ sessions'[n] = NoSession
              /\ calls'[n].kind = "finish" /\ calls'[n].sid = panels[p].session /\ calls'[n].panel = p
              /\ calls'[n].at = "sent" /\ ~calls'[n].dropped /\ ~calls'[n].aborted /\ ~calls'[n].confirm
              /\ \A m \in DOMAIN calls' : m \notin DOMAIN calls => m = n
         /\ panels[p].session # NoCall => \E n \in DOMAIN calls' : n \notin DOMAIN calls
<1> DEFINE k == PlainCall(p, "finish", panels[p].session)
<1>1. CASE panels[p].session = NoCall /\ calls' = those /\ sessions' = sessions
  <2>1. DOMAIN those = DOMAIN calls /\ DOMAIN calls = 1 .. Len(calls)
    BY DEF Typed
  <2> QED BY <1>1, <2>1 DEF Typed
<1>2. CASE panels[p].session # NoCall /\ Makes(those, FinishCall(p))
  <2>1. FinishCall(p) = k
    BY DEF FinishCall, PlainCall
  <2>2. panels[p].session \in Nat \ {0}
    BY <1>2, Known
  <2>3. /\ k \in CallType /\ k.panel = p /\ k.kind = "finish" /\ k.sid = panels[p].session /\ k.at = "sent"
        /\ ~k.aborted /\ ~k.dropped /\ ~k.confirm
    BY <2>2, PlainCallType
  <2> HIDE DEF k
  <2>4. Added(those, k)
    BY <1>2, <2>1, <2>3, MakesEffect
  <2> QED BY <1>2, <2>3, <2>4 DEF Added
<1> QED BY <1>1, <1>2

\* A panel begins as a panel.
LEMMA NewPanelType == NewPanel \in PanelType
<1>1. "vision" \in Modes /\ None \in Modes \cup {None} /\ NoCall \in Nat /\ <<>> \in Seq(StepType)
  BY Known DEF Modes
<1>2. {} \in SUBSET (Texts \cup {None})
  OBVIOUS
<1> QED BY <1>1, <1>2 DEF NewPanel, PanelType

\* Closing a panel drops its call and sends a finish for its session.
LEMMA CloseWhole ==
  ASSUME IInv, NEW p \in Panels, Close(p)
  PROVE  \E P, s : Departed(p, P, s) /\ \A q \in Panels : q # p => Untouched(q)
<1> USE DEF Call
<1>s. PICK s : s = panels[p].session
  OBVIOUS
<1>1. /\ Typed /\ Sound(p) /\ LinksOf(p) /\ PanelLinked(p) /\ panels[p] \in PanelType /\ s \in Nat
      /\ panels[p].place = "shown" /\ disk' = disk /\ panels[p].calm \in BOOLEAN
  BY <1>s DEF IInv, Sound, LinksOf, Close, Leaves, Typed, PanelType
<1> DEFINE c == panels[p].current
           those == IF Waits(p) THEN [calls EXCEPT ![c].dropped = TRUE] ELSE calls
           calm == panels[p].calm /\ ~Waits(p)
           P == [NewPanel EXCEPT !.place = "gone", !.calm = calm]
<1>2. Waits(p) => c \in DOMAIN calls /\ calls[c].panel = p
  BY <1>1 DEF PanelLinked, Waits
<1>3. /\ those \in Seq(CallType) /\ Len(those) = Len(calls)
      /\ \A d \in DOMAIN calls : those[d] = calls[d] \/ (Waits(p) /\ d = c /\ LeftAlone(those[d], calls[d]))
      /\ Waits(p) => those[c].dropped
      /\ \A d \in DOMAIN calls : those[d].panel = calls[d].panel
  <2>1. CASE ~Waits(p)
    BY <1>1, <2>1 DEF Typed
  <2>2. CASE Waits(p)
    <3>1. calls[c] \in CallType /\ those = [calls EXCEPT ![c] = [calls[c] EXCEPT !.dropped = TRUE]]
      BY <1>1, <1>2, <2>2 DEF Typed
    <3> DEFINE r == [calls[c] EXCEPT !.dropped = TRUE]
    <3>2. r \in CallType /\ r.dropped /\ r.panel = calls[c].panel /\ LeftAlone(r, calls[c])
      BY <3>1 DEF CallType, LeftAlone, SameRequest
    <3> HIDE DEF r
    <3>3. those = [calls EXCEPT ![c] = r]
      BY <3>1 DEF r
    <3>4. calls \in Seq(CallType)
      BY <1>1 DEF Typed
    <3>5. those \in Seq(CallType) /\ Len(those) = Len(calls) /\ those[c] = r
          /\ \A d \in DOMAIN calls : d # c => those[d] = calls[d]
      <4> HIDE DEF those
      <4> QED BY <1>2, <2>2, <3>2, <3>3, <3>4
    <3> HIDE DEF those
    <3> QED BY <1>2, <2>2, <3>2, <3>5
  <2> QED BY <2>1, <2>2
<1>4. calm \in BOOLEAN
  BY <1>1
<1>5. \/ panels[p].session = NoCall /\ calls' = those /\ sessions' = sessions
      \/ panels[p].session # NoCall /\ Makes(those, FinishCall(p))
  <2>1. ASSUME panels[p].session = NoCall
        PROVE  calls' = those /\ sessions' = sessions
    BY <2>1 DEF Close
  <2>2. ASSUME panels[p].session # NoCall
        PROVE  Makes(those, FinishCall(p))
    BY <2>2 DEF Close
  <2> QED BY <2>1, <2>2, Zenon
<1>6. panels' = [panels EXCEPT ![p] = P]
  BY DEF Close
<1>w. Waits(p) <=> c # NoCall
  BY DEF Waits
<1>7. calm => panels[p].calm /\ c = NoCall
  BY <1>w
<1> HIDE DEF those, calm
<1>8. /\ P \in PanelType /\ P.place = "gone" /\ P.calm = calm /\ P.session = NoCall /\ P.current = NoCall
      /\ P.track = <<>> /\ P.view = "step"
  <2>1. NewPanel \in PanelType
    BY NewPanelType
  <2> QED BY <1>4, <2>1 DEF PanelType, NewPanel
<1> HIDE DEF P
<1>9. Changed(p, P)
  BY <1>1, <1>6, <1>8, PanelSet
<1>10. /\ calls' \in Seq(CallType) /\ sessions' \in Seq(SessionType) /\ Len(sessions') = Len(calls')
       /\ DOMAIN calls \subseteq DOMAIN calls'
       /\ \A d \in DOMAIN calls : sessions'[d] = sessions[d] /\ calls'[d] = those[d]
       /\ \A n \in DOMAIN calls' : n \notin DOMAIN calls =>
            /\ s # NoCall /\ sessions'[n] = NoSession
            /\ calls'[n].kind = "finish" /\ calls'[n].sid = s /\ calls'[n].panel = p
            /\ calls'[n].at = "sent" /\ ~calls'[n].dropped /\ ~calls'[n].aborted /\ ~calls'[n].confirm
            /\ \A m \in DOMAIN calls' : m \notin DOMAIN calls => m = n
       /\ s # NoCall => \E n \in DOMAIN calls' : n \notin DOMAIN calls
  BY <1>s, <1>1, <1>3, <1>5, DepartCalls
<1>11. Typed'
  BY <1>1, <1>9, <1>10 DEF Typed, Changed
<1>12. Departed(p, P, s)
  BY <1>s, <1>1, <1>2, <1>3, <1>7, <1>8, <1>9, <1>10, <1>11, <1>w DEF Departed, Changed
<1>13. ASSUME NEW q \in Panels, q # p
       PROVE  Untouched(q)
  <2>1. \A d \in DOMAIN calls : calls[d].panel = q => d \in DOMAIN calls' /\ calls'[d] = calls[d] /\ sessions'[d] = sessions[d]
    BY <1>2, <1>3, <1>10, <1>13
  <2>2. ASSUME NEW d \in DOMAIN calls', calls'[d].panel = q
        PROVE  d \in DOMAIN calls /\ calls[d].panel = q
    <3>1. d \in DOMAIN calls
      BY <1>10, <1>13, <2>2
    <3> QED BY <1>3, <1>10, <2>2, <3>1
  <2> QED BY <1>1, <1>9, <1>13, <2>1, <2>2 DEF Untouched, Changed
<1> QED BY <1>12, <1>13

\* Replacing a panel sends a finish for its session and drops nothing.
LEMMA ReplaceWhole ==
  ASSUME IInv, NEW p \in Panels, Replace(p)
  PROVE  \E P, s : Departed(p, P, s) /\ \A q \in Panels : q # p => Untouched(q)
<1> USE DEF Call
<1>s. PICK s : s = panels[p].session
  OBVIOUS
<1>1. /\ Typed /\ Sound(p) /\ LinksOf(p) /\ panels[p] \in PanelType /\ s \in Nat
      /\ panels[p].place = "shown" /\ disk' = disk /\ panels[p].calm \in BOOLEAN
  BY <1>s DEF IInv, Sound, Replace, Leaves, Typed, PanelType
<1> DEFINE calm == panels[p].calm /\ ~Waits(p)
           P == [panels[p] EXCEPT !.place = "gone", !.calm = calm]
<1>4. calm \in BOOLEAN
  BY <1>1
<1>3. calls \in Seq(CallType)
  BY <1>1 DEF Typed
<1>5. \/ panels[p].session = NoCall /\ calls' = calls /\ sessions' = sessions
      \/ panels[p].session # NoCall /\ Makes(calls, FinishCall(p))
  <2>1. ASSUME panels[p].session = NoCall
        PROVE  calls' = calls /\ sessions' = sessions
    BY <2>1 DEF Replace
  <2>2. ASSUME panels[p].session # NoCall
        PROVE  Makes(calls, FinishCall(p))
    BY <2>2 DEF Replace
  <2> QED BY <2>1, <2>2, Zenon
<1>6. panels' = [panels EXCEPT ![p] = P]
  BY <1>1 DEF Replace, Typed
<1>7. calm => panels[p].calm /\ panels[p].current = NoCall
  BY DEF Waits
<1> HIDE DEF calm
<1>8. /\ P \in PanelType /\ P.place = "gone" /\ P.calm = calm /\ P.session = s /\ P.current = panels[p].current
      /\ P.track = panels[p].track /\ P.trackMode = panels[p].trackMode /\ P.mode = panels[p].mode
      /\ P.view = panels[p].view /\ P.did = panels[p].did
  BY <1>s, <1>1, <1>4 DEF PanelType
<1> HIDE DEF P
<1>9. Changed(p, P)
  BY <1>1, <1>6, <1>8, PanelSet
<1>10. /\ calls' \in Seq(CallType) /\ sessions' \in Seq(SessionType) /\ Len(sessions') = Len(calls')
       /\ DOMAIN calls \subseteq DOMAIN calls'
       /\ \A d \in DOMAIN calls : sessions'[d] = sessions[d] /\ calls'[d] = calls[d]
       /\ \A n \in DOMAIN calls' : n \notin DOMAIN calls =>
            /\ s # NoCall /\ sessions'[n] = NoSession
            /\ calls'[n].kind = "finish" /\ calls'[n].sid = s /\ calls'[n].panel = p
            /\ calls'[n].at = "sent" /\ ~calls'[n].dropped /\ ~calls'[n].aborted /\ ~calls'[n].confirm
            /\ \A m \in DOMAIN calls' : m \notin DOMAIN calls => m = n
       /\ s # NoCall => \E n \in DOMAIN calls' : n \notin DOMAIN calls
  BY <1>s, <1>1, <1>3, <1>5, DepartCalls
<1>11. Typed'
  BY <1>1, <1>9, <1>10 DEF Typed, Changed
<1>12. Departed(p, P, s)
  BY <1>s, <1>1, <1>7, <1>8, <1>9, <1>10, <1>11 DEF Departed, Changed
<1>13. \A q \in Panels : q # p => Untouched(q)
  BY <1>1, <1>9, <1>10 DEF Untouched, Changed
<1> QED BY <1>12, <1>13

-----------------------------------------------------------------------------
\* A panel that goes keeps its calls, and its finish belongs to its session.
LEMMA DepartedLinks ==
  ASSUME NEW p \in Panels, NEW P, NEW s, Departed(p, P, s)
  PROVE  LinksOf(p)'
<1> USE DEF Call
<1>1. /\ LinksOf(p) /\ PanelLinked(p) /\ TrackLinked(p) /\ panels[p].place = "shown" /\ s = panels[p].session
      /\ panels'[p] = P /\ P.place = "gone" /\ (P.calm => panels[p].calm /\ panels[p].current = NoCall)
      /\ DOMAIN calls \subseteq DOMAIN calls' /\ NoCall \notin DOMAIN calls
  BY Known DEF Departed, LinksOf, Typed
<1>2. \A d \in DOMAIN calls :
        /\ calls'[d].panel = calls[d].panel /\ calls'[d].kind = calls[d].kind /\ calls'[d].sid = calls[d].sid
        /\ calls'[d].at = calls[d].at /\ calls'[d].answer = calls[d].answer /\ calls'[d].asked = calls[d].asked
        /\ calls'[d].source = calls[d].source /\ calls'[d].confirm = calls[d].confirm
        /\ calls'[d].aborted = calls[d].aborted
        /\ calls'[d].dropped = calls[d].dropped \/ (d = panels[p].current /\ calls'[d].dropped)
  BY DEF Departed, LeftAlone, SameRequest
<1>3. \A d \in DOMAIN calls : calls'[d].dropped \/ d # panels[p].current \/ P.current = d
  BY <1>1 DEF Departed
<1>4. P.current = NoCall \/ P.current = panels[p].current
  BY DEF Departed
<1>5. ASSUME NEW d \in DOMAIN calls', calls'[d].panel = p
      PROVE  CallLinked(d)'
  <2>1. CASE d \in DOMAIN calls
    <3>1. CallLinked(d) /\ calls[d].panel = p /\ calls[d].sid \in DOMAIN calls
      BY <1>1, <1>2, <1>5, <2>1 DEF LinksOf, CallLinked
    <3>2. calls'[d].dropped => ~P.calm
      BY <1>1, <1>2, <2>1, <3>1 DEF CallLinked
    <3>3. calls'[d].kind \in Asks /\ ~calls'[d].dropped /\ calls'[d].at # "over" => P.current = d
      BY <1>2, <1>3, <2>1, <3>1 DEF CallLinked, Awaited
    <3>4. calls'[d].aborted => calls'[d].dropped
      BY <1>2, <2>1, <3>1 DEF CallLinked
    <3> QED BY <1>1, <1>2, <1>5, <2>1, <3>1, <3>2, <3>3, <3>4 DEF CallLinked, Awaited
  <2>2. CASE d \notin DOMAIN calls
    <3>1. /\ s # NoCall /\ calls'[d].kind = "finish" /\ calls'[d].sid = s /\ calls'[d].at = "sent"
          /\ ~calls'[d].dropped /\ ~calls'[d].aborted
      BY <1>5, <2>2 DEF Departed
    <3>2. s \in DOMAIN calls /\ calls[s].kind = "start" /\ calls[s].at = "over" /\ calls[s].panel = p
      BY <1>1, <3>1 DEF PanelLinked
    <3> QED BY <1>1, <1>2, <1>5, <3>1, <3>2 DEF CallLinked, Asks, Turning
  <2> QED BY <2>1, <2>2
<1>6. PanelLinked(p)'
  <2>1. CASE P.session = NoCall /\ P.current = NoCall /\ P.track = <<>> /\ P.view = "step"
    BY <1>1, <2>1 DEF PanelLinked
  <2>2. CASE /\ P.session = s /\ P.current = panels[p].current /\ P.track = panels[p].track
             /\ P.trackMode = panels[p].trackMode /\ P.mode = panels[p].mode /\ P.view = panels[p].view
             /\ \A d \in DOMAIN calls : calls'[d] = calls[d]
    BY <1>1, <2>2 DEF PanelLinked
  <2> QED BY <2>1, <2>2 DEF Departed
<1>7. TrackLinked(p)'
  <2>1. CASE P.track = <<>>
    BY <1>1, <2>1 DEF TrackLinked
  <2>2. CASE P.session = s /\ P.track = panels[p].track /\ \A d \in DOMAIN calls : calls'[d] = calls[d]
    BY <1>1, <2>2 DEF TrackLinked
  <2> QED BY <2>1, <2>2 DEF Departed
<1> QED BY <1>5, <1>6, <1>7 DEF LinksOf

\* What a calm panel leaves, its finish will take away.
LEMMA DepartedCalm ==
  ASSUME NEW p \in Panels, NEW P, NEW s, Departed(p, P, s), P.calm
  PROVE  CalmOf(p)'
<1> USE DEF Call
<1>1. /\ CalmOf(p) /\ LinksOf(p) /\ OpenedOf(p) /\ PanelLinked(p) /\ panels[p].place = "shown"
      /\ s = panels[p].session /\ panels[p].current = NoCall /\ NoCall \notin DOMAIN calls /\ Typed /\ disk' = disk
      /\ panels'[p] = P /\ P.place = "gone" /\ P.current = NoCall /\ DOMAIN calls \subseteq DOMAIN calls'
      /\ \A d \in DOMAIN calls : calls'[d] = calls[d] /\ sessions'[d] = sessions[d]
  BY Known DEF Departed, Sound, LinksOf, Typed
<1>2. \/ P.session = NoCall
      \/ /\ P.session = s /\ P.track = panels[p].track /\ P.trackMode = panels[p].trackMode
         /\ P.mode = panels[p].mode /\ P.did = panels[p].did
  BY DEF Departed
<1>3. P.session # NoCall => s # NoCall /\ s \in DOMAIN calls /\ sessions'[s] = sessions[s]
  BY <1>1, <1>2 DEF PanelLinked
<1>4. ~Mine(p) /\ ~Mine(p)' /\ ~Told(NoCall) /\ ~Told(NoCall)'
  BY <1>1 DEF Mine, Told
<1>5. AgreedOf(p)'
  BY <1>1, <1>2, <1>3, <1>4 DEF CalmOf, AgreedOf
<1>6. OrderedOf(p)'
  BY <1>1, <1>2, <1>3, <1>4 DEF CalmOf, OrderedOf, Fresh
<1>7. HeededOf(p)'
  BY <1>1, <1>2, <1>3, <1>4 DEF CalmOf, HeededOf, LastOf
<1>8. \A d \in DOMAIN calls : calls[d].panel = p =>
        /\ calls[d].kind # "finish"
        /\ sessions[d].open => d = s
        /\ Shot(d) \in disk \/ Copy(d) \in disk => calls[d].kind \in Turns
        /\ calls[d].kind \in Turns => s # NoCall
  <2>1. \A d \in DOMAIN calls : calls[d].panel = p => calls[d].kind # "finish"
    BY <1>1 DEF LinksOf, CallLinked
  <2> QED BY <1>1, <2>1 DEF CalmOf, LeftOf, Finishing
<1>9. \A n \in DOMAIN calls' : n \notin DOMAIN calls =>
        /\ s # NoCall /\ ~sessions'[n].open /\ Shot(n) \notin disk /\ Copy(n) \notin disk
        /\ calls'[n].kind = "finish" /\ calls'[n].sid = s /\ calls'[n].panel = p /\ calls'[n].at = "sent"
  BY <1>1 DEF Departed, NoSession, Typed, Shot, Copy
<1>10. s # NoCall => s \in DOMAIN calls /\ sessions'[s].open
  BY <1>1 DEF CalmOf, LeftOf, PanelLinked
<1>11. s # NoCall => Finishing(p, s, {"sent", "drop"})' /\ Finishing(p, s, {"sent", "drop", "purge"})'
  <2>1. s # NoCall => \E n \in DOMAIN calls' : n \notin DOMAIN calls
    BY DEF Departed
  <2> QED BY <1>9, <2>1 DEF Finishing
<1>12. ASSUME NEW c \in DOMAIN calls', calls'[c].panel = p
       PROVE  /\ calls'[c].kind = "finish" /\ calls'[c].at \in {"sent", "drop"} => sessions'[calls'[c].sid].open
              /\ sessions'[c].open => Finishing(p, c, {"sent", "drop"})'
              /\ Shot(c) \in disk \/ Copy(c) \in disk =>
                   calls'[c].kind \in Turns /\ s # NoCall
  <2>1. CASE c \in DOMAIN calls
    <3>1. sessions'[c].open => c = s /\ s # NoCall
      BY <1>1, <1>8, <1>12, <2>1
    <3>2. sessions'[c].open => Finishing(p, c, {"sent", "drop"})'
      BY <1>11, <3>1
    <3> QED BY <1>1, <1>8, <1>12, <2>1, <3>2
  <2>2. CASE c \notin DOMAIN calls
    BY <1>9, <1>10, <1>12, <2>2
  <2> QED BY <2>1, <2>2
<1>13. LeftOf(p)'
  <2>1. s # NoCall => \E t \in DOMAIN calls' : Finishing(p, t, {"sent", "drop", "purge"})'
    BY <1>1, <1>10, <1>11
  <2> QED BY <1>1, <1>12, <2>1 DEF LeftOf, Session
<1> QED BY <1>5, <1>6, <1>7, <1>13 DEF CalmOf

\* A panel that goes stays sound.
LEMMA DepartedSound ==
  ASSUME NEW p \in Panels, NEW P, NEW s, Departed(p, P, s)
  PROVE  Sound(p)'
<1> USE DEF Call
<1>1. LinksOf(p) /\ CountsOf(p) /\ OpenedOf(p) /\ Typed /\ Typed' /\ panels[p].place = "shown"
  BY DEF Departed, Sound
<1>2. CountsOf(p)'
  <2>1. CountsKept(p)
    BY DEF Departed, CountsKept, LeftAlone, SameRequest, NoSession, Turning
  <2> QED BY <1>1, <2>1, CountsStay
<1>3. \A d \in DOMAIN calls : calls[d].panel = p => calls[d].kind # "finish"
  BY <1>1 DEF LinksOf, CallLinked
<1>4. ASSUME NEW d \in DOMAIN calls', calls'[d].panel = p
      PROVE  /\ sessions'[d].open => calls'[d].kind = "start" /\ (Told(d)' \/ calls'[d].at = "over")
             /\ calls'[d].kind = "finish" => d \notin DOMAIN calls
  <2>1. CASE d \in DOMAIN calls
    <3>1. /\ calls'[d].panel = calls[d].panel /\ calls'[d].kind = calls[d].kind
          /\ calls'[d].at = calls[d].at /\ calls'[d].answer = calls[d].answer /\ sessions'[d] = sessions[d]
      BY <2>1 DEF Departed, LeftAlone, SameRequest
    <3> QED BY <1>1, <1>3, <1>4, <2>1, <3>1 DEF OpenedOf, Told
  <2>2. CASE d \notin DOMAIN calls
    BY <1>4, <2>2 DEF Departed, NoSession
  <2> QED BY <2>1, <2>2
<1>5. OpenedOf(p)'
  <2>1. \A n, m \in DOMAIN calls' : n \notin DOMAIN calls /\ m \notin DOMAIN calls => m = n
    BY DEF Departed
  <2> QED BY <1>4, <2>1 DEF OpenedOf
<1>6. panels'[p].calm => CalmOf(p)'
  BY DepartedCalm DEF Departed
<1> QED BY <1>2, <1>5, <1>6, DepartedLinks DEF Sound

\* Closing and replacing a panel keep the invariant.
LEMMA DepartedStep ==
  ASSUME IInv, NEW p \in Panels, Close(p) \/ Replace(p)
  PROVE  IInv'
<1>1. PICK P, s : Departed(p, P, s) /\ \A q \in Panels : q # p => Untouched(q)
  BY CloseWhole, ReplaceWhole
<1>2. Typed' /\ Sound(p)'
  BY <1>1, DepartedSound DEF Departed
<1>3. \A q \in Panels : q # p => Sound(q)'
  BY <1>1, UntouchedRest DEF IInv
<1> QED BY <1>2, <1>3 DEF IInv

-----------------------------------------------------------------------------
(* The sidecar ends                                                        *)

\* A call the sidecar has, and nobody will answer.
Lost(c) == calls[c].at \notin {"capture", "answered", "over"}

\* The end of the sidecar closes every session, fails the calls it had, and no panel is calm after it.
LEMMA CrashEffect ==
  ASSUME Typed, Crash
  PROVE  /\ Typed' /\ DOMAIN calls' = DOMAIN calls /\ disk' = disk
         /\ \A c \in DOMAIN calls :
              /\ sessions'[c] = [sessions[c] EXCEPT !.open = FALSE]
              /\ SameRequest(calls'[c], calls[c])
              /\ ~Lost(c) => calls'[c] = calls[c]
              /\ Lost(c) => calls'[c].at = "answered" /\ calls'[c].answer \in AnswerType
         /\ \A p \in Panels : panels'[p] = [panels[p] EXCEPT !.calm = FALSE]
<1> DEFINE no == Answer("error", None, "vision", NoIndex)
           lost(c) == [calls[c] EXCEPT !.at = "answered", !.asked = None, !.answer = no]
           call(c) == IF ~Lost(c) THEN calls[c] ELSE lost(c)
           those == [c \in DOMAIN calls |-> call(c)]
           closed == [c \in DOMAIN sessions |-> [sessions[c] EXCEPT !.open = FALSE]]
           alone == [p \in Panels |-> [panels[p] EXCEPT !.calm = FALSE]]
<1>1. no \in AnswerType
  BY Known DEF Answer, AnswerType, NoIndex, Modes
<1> HIDE DEF no
<1>2. calls' = those /\ sessions' = closed /\ panels' = alone /\ disk' = disk
  BY DEF Crash, Call, Lost, no
<1>3. /\ DOMAIN calls = 1 .. Len(calls) /\ DOMAIN sessions = 1 .. Len(calls) /\ Len(calls) \in Nat
      /\ \A c \in DOMAIN calls : calls[c] \in CallType /\ sessions[c] \in SessionType
      /\ \A p \in Panels : panels[p] \in PanelType
  BY DEF Typed
<1>4. ASSUME NEW c \in DOMAIN calls
      PROVE  /\ call(c) \in CallType /\ SameRequest(call(c), calls[c])
             /\ ~Lost(c) => call(c) = calls[c]
             /\ Lost(c) => call(c).at = "answered" /\ call(c).answer \in AnswerType
  <2>1. calls[c] \in CallType
    BY <1>3
  <2>2. /\ lost(c) \in CallType /\ SameRequest(lost(c), calls[c])
        /\ lost(c).at = "answered" /\ lost(c).answer \in AnswerType
    BY <1>1, <2>1 DEF CallType, Stages, SameRequest
  <2> HIDE DEF lost
  <2> QED BY <2>1, <2>2 DEF SameRequest
<1> HIDE DEF call
<1>5. those \in Seq(CallType) /\ Len(those) = Len(calls) /\ DOMAIN those = DOMAIN calls
      /\ \A c \in DOMAIN calls : those[c] = call(c)
  BY <1>3, <1>4
<1>6. \A c \in DOMAIN sessions : [sessions[c] EXCEPT !.open = FALSE] \in SessionType
  BY <1>3 DEF SessionType
<1>7. closed \in Seq(SessionType) /\ Len(closed) = Len(calls)
      /\ \A c \in DOMAIN calls : closed[c] = [sessions[c] EXCEPT !.open = FALSE]
  BY <1>3, <1>6
<1>8. \A p \in Panels : [panels[p] EXCEPT !.calm = FALSE] \in PanelType
  BY <1>3 DEF PanelType
<1>9. alone \in [Panels -> PanelType] /\ \A p \in Panels : alone[p] = [panels[p] EXCEPT !.calm = FALSE]
  BY <1>8
<1> HIDE DEF those, closed, alone
<1>10. Typed'
  BY <1>2, <1>5, <1>7, <1>9 DEF Typed
<1> QED BY <1>2, <1>4, <1>5, <1>7, <1>9, <1>10

\* Each panel stays sound when the sidecar ends.
LEMMA CrashSound ==
  ASSUME Typed, Crash, NEW p \in Panels, Sound(p)
  PROVE  Sound(p)'
<1> USE DEF Call
<1>1. /\ LinksOf(p) /\ CountsOf(p) /\ OpenedOf(p) /\ PanelLinked(p) /\ TrackLinked(p) /\ Typed' /\ DOMAIN calls' = DOMAIN calls
  BY CrashEffect DEF Sound, LinksOf
<1>2. \A c \in DOMAIN calls :
        /\ calls'[c].panel = calls[c].panel /\ calls'[c].kind = calls[c].kind /\ calls'[c].sid = calls[c].sid
        /\ calls'[c].source = calls[c].source /\ calls'[c].confirm = calls[c].confirm
        /\ calls'[c].aborted = calls[c].aborted /\ calls'[c].dropped = calls[c].dropped
        /\ ~Lost(c) => calls'[c] = calls[c]
        /\ Lost(c) => calls'[c].at = "answered" /\ calls'[c].answer \in AnswerType
  BY CrashEffect DEF SameRequest
<1>3. \A c \in DOMAIN calls : ~sessions'[c].open /\ sessions'[c].count = sessions[c].count
  <2>1. \A c \in DOMAIN calls : sessions[c] \in SessionType
    BY DEF Typed
  <2>2. \A c \in DOMAIN calls : sessions'[c] = [sessions[c] EXCEPT !.open = FALSE]
    BY CrashEffect
  <2> QED BY <2>1, <2>2 DEF SessionType
<1>4. /\ ~panels'[p].calm /\ panels'[p].place = panels[p].place /\ panels'[p].session = panels[p].session
      /\ panels'[p].current = panels[p].current /\ panels'[p].mode = panels[p].mode
      /\ panels'[p].track = panels[p].track /\ panels'[p].trackMode = panels[p].trackMode
      /\ panels'[p].view = panels[p].view
  <2>1. panels[p] \in PanelType /\ panels'[p] = [panels[p] EXCEPT !.calm = FALSE]
    BY CrashEffect DEF Typed
  <2> QED BY <2>1 DEF PanelType
<1>5. ASSUME NEW d \in DOMAIN calls', calls'[d].panel = p
      PROVE  CallLinked(d)'
  <2>1. CallLinked(d) /\ d \in DOMAIN calls /\ calls[d].panel = p /\ calls[d].sid \in DOMAIN calls
    BY <1>1, <1>2, <1>5 DEF LinksOf, CallLinked
  <2>2. calls[d].kind # "start" =>
          /\ calls'[calls[d].sid].kind = "start" /\ calls'[calls[d].sid].at = "over"
          /\ calls'[calls[d].sid].panel = p
    BY <1>2, <2>1 DEF CallLinked, Lost
  <2>3. CASE Lost(d)
    BY <1>1, <1>2, <1>4, <1>5, <2>1, <2>2, <2>3 DEF CallLinked, Awaited, Turning, Lost
  <2>4. CASE ~Lost(d)
    BY <1>1, <1>2, <1>4, <1>5, <2>1, <2>2, <2>4 DEF CallLinked, Awaited
  <2> QED BY <2>3, <2>4
<1>6. PanelLinked(p)'
  BY <1>1, <1>2, <1>4 DEF PanelLinked, Lost
<1>7. TrackLinked(p)'
  BY <1>1, <1>2, <1>4 DEF TrackLinked, Lost
<1>8. CountsOf(p)'
  <2>1. CountsKept(p)
    BY <1>1, <1>2, <1>3 DEF CountsKept, Turning, Lost
  <2> QED BY <1>1, <2>1, CountsStay
<1>9. OpenedOf(p)'
  BY <1>1, <1>2, <1>3 DEF OpenedOf
<1> QED BY <1>4, <1>5, <1>6, <1>7, <1>8, <1>9 DEF Sound, LinksOf

\* The end of the sidecar keeps the invariant.
LEMMA CrashStep ==
  ASSUME IInv, Crash
  PROVE  IInv'
<1>1. Typed'
  BY CrashEffect DEF IInv
<1> QED BY <1>1, CrashSound DEF IInv
-----------------------------------------------------------------------------
(* The invariant                                                           *)

\* The invariant holds at first.
LEMMA FirstState ==
  ASSUME Init
  PROVE  IInv
<1>1. /\ calls = <<>> /\ sessions = <<>> /\ disk = {} /\ panels \in [Panels -> PanelType]
      /\ \A p \in Panels : panels[p] = NewPanel
  BY NewPanelType DEF Init
<1>2. Typed
  BY <1>1 DEF Typed
<1>3. ASSUME NEW p \in Panels
      PROVE  Sound(p)
  <2>1. /\ panels[p].session = NoCall /\ panels[p].current = NoCall /\ panels[p].track = <<>>
        /\ panels[p].view = "step" /\ panels[p].place = "new" /\ DOMAIN calls = {}
    BY <1>1, <1>3 DEF NewPanel
  <2>2. LinksOf(p) /\ CountsOf(p) /\ OpenedOf(p)
    BY <2>1 DEF LinksOf, PanelLinked, TrackLinked, CountsOf, OpenedOf
  <2>3. CalmOf(p)
    BY <2>1 DEF CalmOf, AgreedOf, OrderedOf, HeededOf, LeftOf, Mine
  <2> QED BY <2>2, <2>3 DEF Sound
<1> QED BY <1>2, <1>3 DEF IInv

\* Every step keeps the invariant.
LEMMA NextState ==
  ASSUME IInv, [Next]_vars
  PROVE  IInv'
<1>u. CASE UNCHANGED vars
  <2>1. \A q \in Panels : Untouched(q)
    BY <1>u DEF vars, Untouched
  <2>2. Typed'
    BY <1>u DEF IInv, Typed, vars
  <2> QED BY <2>1, <2>2, UntouchedRest DEF IInv
<1>1. ASSUME NEW p \in Panels, User(p)
      PROVE  IInv'
  <2>0. Typed /\ Links
    BY SoundLinks DEF IInv
  <2>1. CASE Open(p) \/ Restart(p)
    BY <2>0, <2>1, Starting, BeganStep
  <2>2. CASE Retry(p) \/ GoOn(p) \/ ConfirmDone(p) \/ Stuck(p) \/ SwitchMode(p)
    BY <2>0, <2>2, Stepping, BeganStep
  <2>3. CASE Cancel(p)
    BY <2>0, <2>3, Cancelling, CancelledStep
  <2>4. CASE Close(p) \/ Replace(p)
    BY <2>4, DepartedStep
  <2> QED BY <1>1, <2>1, <2>2, <2>3, <2>4 DEF User
<1>2. ASSUME NEW c \in DOMAIN calls, Hook(c)
      PROVE  IInv'
  <2>1. CASE Captured(c) /\ Awaited(c)
    BY <2>1, SentStep
  <2>2. CASE (Captured(c) /\ ~Awaited(c)) \/ NotCaptured(c) \/ Ignored(c)
    BY <2>2, IgnoredStep
  <2>3. CASE CaptureFails(c) \/ ErrorArrives(c)
    BY <2>3, RefusedStep
  <2>4. CASE StartArrives(c)
    BY <2>4, StartStep
  <2>5. CASE StepArrives(c)
    BY <2>5, ShownStep
  <2> QED BY <1>2, <2>1, <2>2, <2>3, <2>4, <2>5 DEF Hook
<1>3. ASSUME NEW c \in DOMAIN calls, Serve(c), UNCHANGED panels
      PROVE  IInv'
  <2>1. Typed /\ CallsLinked
    BY SoundLinks DEF IInv, Links
  <2>2. ServedBy(c)
    BY <1>3, <2>1, Serves DEF ServedBy
  <2> QED BY <2>2, ServedStep
<1> QED BY <1>u, <1>1, <1>2, <1>3, CrashStep DEF Next

\* Every call, session, panel and screenshot of a reachable state is linked as
\* IInv says: the invariant the theorems below rest on.
THEOREM Inductive == Spec => []IInv
<1> QED BY FirstState, NextState, PTL DEF Spec

-----------------------------------------------------------------------------
(* What follows from it                                                    *)

\* Types, from the invariant.
LEMMA AllTyped == IInv => TypeOK
<1> USE DEF Call
<1> SUFFICES ASSUME IInv
             PROVE  TypeOK
  OBVIOUS
<1>1. Typed /\ Links /\ DOMAIN sessions = DOMAIN calls
  BY SoundLinks DEF IInv, Typed
<1>2. ASSUME NEW c \in DOMAIN calls
      PROVE  /\ calls[c].panel \in Panels /\ calls[c].sid \in DOMAIN calls
             /\ calls[c].kind \in {"start", "step", "stuck", "finish"}
             /\ sessions[c].mode \in Modes /\ sessions[c].cursor \in 0..Len(Guide)
             /\ sessions[c].confirmed \subseteq Texts
  <2>1. calls[c] \in CallType /\ sessions[c] \in SessionType /\ calls[c].sid \in DOMAIN calls
    BY <1>1, <1>2 DEF Typed, Links, CallsLinked, CallLinked
  <2> QED BY <2>1 DEF CallType, SessionType
<1>3. \A p \in Panels : panels[p].session \in {NoCall} \cup DOMAIN calls
  BY <1>1 DEF Links, PanelsLinked, PanelLinked
<1> QED BY <1>1, <1>2, <1>3 DEF TypeOK, Typed

\* Silence, from the links of the steps on the screen.
LEMMA AllSilent == IInv => CancelledIsSilent
<1> QED BY DEF IInv, Sound, LinksOf, TrackLinked, CancelledIsSilent, Call

\* No look at the screen in manual mode, from what a calm panel knows of the mode.
LEMMA AllBlind == IInv => ManualIsBlind
<1> SUFFICES ASSUME IInv, NEW c \in DOMAIN calls, calls[c].at \in Turning, panels[calls[c].panel].calm
             PROVE  calls[c].at # "verify" /\ Session(c).mode = "vision"
  BY DEF ManualIsBlind, Call, Turning
<1> USE DEF Call
<1>1. /\ CallLinked(c) /\ Sound(calls[c].panel) /\ ~calls[c].dropped /\ c # NoCall
      /\ panels[calls[c].panel].current # c => calls[c].dropped \/ calls[c].kind \notin Asks
  BY InFlight DEF Turning
<1>2. calls[c].kind \in Turns /\ calls[c].kind \in Asks
  BY <1>1 DEF CallLinked, Turns, Asks
<1>3. PICK p : p = calls[c].panel
  OBVIOUS
<1>4. panels[p].current = c /\ Mine(p) /\ AgreedOf(p)
  BY <1>1, <1>2, <1>3 DEF Mine, Sound, CalmOf
<1>5. calls[c].sid = panels[p].session
  BY <1>1, <1>2, <1>3, <1>4 DEF Sound, LinksOf, PanelLinked
<1> QED BY <1>4, <1>5 DEF AgreedOf, Session, Turning

\* The limit, from the counts of the sessions.
LEMMA AllLimited == IInv => LimitKept
<1> USE DEF Call
<1> SUFFICES ASSUME IInv, NEW s \in DOMAIN sessions
             PROVE  sessions[s].count <= MaxSteps + Cardinality({c \in DOMAIN calls : calls[c].sid = s /\ calls[c].dropped})
  BY DEF LimitKept
<1>1. s \in DOMAIN calls /\ Typed
  BY DEF IInv, Typed
<1>2. calls[s] \in CallType /\ sessions[s] \in SessionType
  BY <1>1 DEF Typed
<1>3. PICK p \in Panels : p = calls[s].panel
  BY <1>2 DEF CallType
<1>4. sessions[s].count <= Allowed(p, s) /\ sessions[s].count \in Nat
  BY <1>1, <1>2, <1>3 DEF IInv, Sound, CountsOf, SessionType
<1> DEFINE all == {c \in DOMAIN calls : calls[c].sid = s /\ calls[c].dropped}
<1>5. Spent(p, s) \subseteq all /\ all \subseteq DOMAIN calls
  BY DEF Spent
<1>6. IsFiniteSet(all)
  BY <1>1, <1>5, SomeOfSequence DEF Typed
<1>7. Cardinality(Spent(p, s)) <= Cardinality(all) /\ Cardinality(all) \in Nat /\ Cardinality(Spent(p, s)) \in Nat
  BY <1>5, <1>6, FS_Subset, FS_CardinalityType
<1> QED BY <1>4, <1>7, Known DEF Allowed

\* Nothing is left, from what a finish has yet to take away.
LEMMA AllCleared == IInv => ClosedLeavesNothing
<1> USE DEF Call
<1> SUFFICES ASSUME IInv, NEW p \in Panels, GoneAndOver(p), panels[p].calm, NEW c \in DOMAIN calls, calls[c].panel = p
             PROVE  ~sessions[c].open /\ {Shot(c), Copy(c)} \cap disk = {}
  BY DEF ClosedLeavesNothing, NothingLeft
<1>1. LeftOf(p) /\ panels[p].place = "gone"
  BY DEF IInv, Sound, CalmOf, GoneAndOver
<1>2. \A s : ~Finishing(p, s, {"sent", "drop"}) /\ ~Finishing(p, s, {"sent", "drop", "purge"})
  BY DEF GoneAndOver, Finishing
<1>3. ~sessions[c].open /\ Shot(c) \notin disk /\ Copy(c) \notin disk
  BY <1>1, <1>2 DEF LeftOf
<1> QED BY <1>3

-----------------------------------------------------------------------------
(* The list on the screen                                                  *)

\* ListInOrder of one panel.
ListOf(p) ==
  panels[p].calm /\ panels[p].trackMode = "plan" =>
    \A i \in DOMAIN panels[p].track :
      /\ panels[p].track[i] # Hole
      /\ i \in DOMAIN Guide => panels[p].track[i].text \in {Guide[i], "limit"}

\* Panel q shows nothing new.
SameList(q) ==
  panels'[q].calm =>
    \/ panels'[q].track = <<>>
    \/ panels[q].calm /\ panels'[q].track = panels[q].track /\ panels'[q].trackMode = panels[q].trackMode

\* A panel that shows nothing new stays in order.
LEMMA SameListKept ==
  ASSUME NEW q \in Panels, ListOf(q), SameList(q)
  PROVE  ListOf(q)'
<1> QED BY DEF ListOf, SameList

\* The user, the handlers and the hook, but for a step that arrives.
LEMMA UserShowsNothing ==
  ASSUME IInv, NEW p \in Panels, User(p), NEW q \in Panels
  PROVE  SameList(q)
<1>0. Typed /\ Links
  BY SoundLinks DEF IInv
<1>1. CASE Began(p)
  <2>1. PICK P \in PanelType : Changed(p, P) /\ P = [panels[p] EXCEPT !.current = Next1, !.place = "shown"]
    BY <1>1 DEF Began
  <2>2. panels[p] \in PanelType
    BY <1>0 DEF Typed
  <2>3. P.calm = panels[p].calm /\ P.track = panels[p].track /\ P.trackMode = panels[p].trackMode
    BY <2>1, <2>2 DEF PanelType
  <2> QED BY <2>1, <2>3 DEF SameList, Changed
<1>2. CASE Cancelled(p)
  <2>1. PICK P \in PanelType : Changed(p, P) /\ P = [panels[p] EXCEPT !.current = NoCall, !.view = "cancelled", !.calm = FALSE]
    BY <1>2 DEF Cancelled
  <2>2. panels[p] \in PanelType
    BY <1>0 DEF Typed
  <2>3. ~P.calm
    BY <2>1, <2>2 DEF PanelType
  <2> QED BY <2>1, <2>3 DEF SameList, Changed
<1>3. CASE Close(p) \/ Replace(p)
  <2>1. PICK P, s : Departed(p, P, s) /\ \A r \in Panels : r # p => Untouched(r)
    BY <1>3, CloseWhole, ReplaceWhole
  <2>2. q # p => panels'[q] = panels[q]
    BY <2>1 DEF Untouched
  <2>3. SameList(p)
    BY <2>1 DEF SameList, Departed
  <2> QED BY <2>2, <2>3 DEF SameList
<1> QED BY <1>0, <1>1, <1>2, <1>3, Starting, Stepping, Cancelling DEF User

\* The hook shows nothing but a step that arrives.
LEMMA HookShowsNothing ==
  ASSUME IInv, NEW c \in DOMAIN calls, Hook(c), ~StepArrives(c), NEW q \in Panels
  PROVE  SameList(q)
<1> USE DEF Call
<1>1. CASE UNCHANGED panels
  BY <1>1 DEF SameList
<1>2. CASE CaptureFails(c) \/ ErrorArrives(c)
  <2>1. PICK p \in Panels : p = calls[c].panel
    BY <1>2, InFlight DEF CaptureFails, ErrorArrives, Answered
  <2>2. /\ panels' = [panels EXCEPT ![p].current = NoCall, ![p].view = "error"]
        /\ \A r \in Panels : panels[r] \in PanelType
        /\ panels \in [Panels -> PanelType]
    BY <1>2, <2>1 DEF CaptureFails, ErrorArrives, IInv, Typed
  <2>3. CASE q = p
    <3>1. panels'[q] = [panels[q] EXCEPT !.current = NoCall, !.view = "error"]
      BY <2>2, <2>3
    <3> QED BY <2>2, <3>1 DEF SameList, PanelType
  <2>4. CASE q # p
    BY <2>2, <2>4 DEF SameList
  <2> QED BY <2>3, <2>4
<1>3. CASE StartArrives(c)
  <2>1. PICK p \in Panels : p = calls[c].panel
    BY <1>3, InFlight DEF StartArrives, Answered
  <2>2. PICK k, P, n : StartShown(c, p, k, P, n)
    BY <1>3, <2>1, StartWhole
  <2>3. q # p => Untouched(q)
    BY <1>3, <2>1, StartWhole
  <2> QED BY <2>2, <2>3 DEF SameList, StartShown, Untouched
<1> QED BY <1>1, <1>2, <1>3 DEF Hook, Captured, NotCaptured, Ignored

\* A step that arrives is added in the order of the list.
LEMMA StepInOrder ==
  ASSUME IInv, NEW c \in DOMAIN calls, StepArrives(c), \A p \in Panels : ListOf(p), NEW q \in Panels
  PROVE  ListOf(q)'
<1> USE DEF Call
<1>p. PICK p \in Panels : p = calls[c].panel
  BY InFlight DEF StepArrives, Answered
<1>1. PICK k, P, a, fresh, place : StepShown(c, p, P, a, fresh, place) /\ Touched(c, k, p) /\ Changed(p, P)
  BY <1>p, ShownWhole
<1>2. Settled(c, p) /\ Told(c) /\ Mine(p) /\ panels[p].session \in DOMAIN calls /\ Typed
  BY <1>p, ShownWhole DEF IInv
<1>3. CASE q # p
  BY <1>1, <1>3, SameListKept DEF SameList, Changed
<1>4. CASE q = p
  <2> SUFFICES ASSUME P.calm, P.trackMode = "plan", NEW i \in DOMAIN P.track
               PROVE  P.track[i] # Hole /\ (i \in DOMAIN Guide => P.track[i].text \in {Guide[i], "limit"})
    BY <1>1, <1>4 DEF ListOf, Changed
  <2> DEFINE step == [call |-> c, state |-> a.state, text |-> a.text]
  <2>1. /\ panels[p].calm /\ OrderedOf(p) /\ ListOf(p) /\ a.mode = "plan" /\ a = calls[c].answer
        /\ fresh = Fresh(panels[p]) /\ panels[p].current = c /\ panels[p].session # NoCall
        /\ Len(fresh) \in Nat /\ a.index \in Nat
    <3>1. panels[p].session # NoCall
      BY <1>2, Known DEF Typed
    <3> QED BY <1>1, <1>2, <3>1 DEF StepShown, Settled, Sound, CalmOf, Fresh
  <2>2. \/ a.index = NoIndex /\ a.text = "limit"
        \/ /\ a.index <= Len(fresh) /\ a.index <= Len(Guide)
           /\ a.index < Len(Guide) => a.text = Guide[a.index + 1]
    BY <1>2, <2>1 DEF OrderedOf
  <2>3. \/ place = Len(fresh) + 1 /\ a.text = "limit"
        \/ place = a.index + 1 /\ place <= Len(fresh) + 1 /\ (a.index < Len(Guide) => a.text = Guide[a.index + 1])
    BY <1>1, <2>1, <2>2, Known DEF StepShown, NoIndex
  <2>4. \/ i = place /\ P.track[i] = step
        \/ i \in DOMAIN fresh /\ P.track[i] = fresh[i]
    <3>1. P.track \in Seq(StepType) /\ place \in Nat
      BY <1>1 DEF StepShown
    <3>2. i \in Nat
      BY <3>1
    <3> QED BY <1>1, <2>1, <2>3, <3>1, <3>2 DEF StepShown
  <2>5. CASE i = place /\ P.track[i] = step
    <3>1. P.track[i] # Hole
      BY <1>2, <2>5 DEF Hole, Settled
    <3>2. P.track[i].text = a.text
      BY <2>5
    <3>3. i \in DOMAIN Guide => i <= Len(Guide)
      BY Known, SessionAssumption
    <3> QED BY <2>1, <2>3, <2>5, <3>1, <3>2, <3>3, Known
  <2>6. CASE i \in DOMAIN fresh /\ P.track[i] = fresh[i]
    <3>1. panels[p].trackMode = "plan" /\ fresh = panels[p].track
      BY <2>1, <2>6 DEF Fresh
    <3> QED BY <2>1, <2>6, <3>1 DEF ListOf
  <2> QED BY <2>4, <2>5, <2>6
<1> QED BY <1>3, <1>4

\* Every step keeps the list in order.
LEMMA ListStep ==
  ASSUME IInv, ListInOrder, [Next]_vars
  PROVE  ListInOrder'
<1>1. \A q \in Panels : ListOf(q)
  BY DEF ListInOrder, ListOf
<1>2. ASSUME NEW q \in Panels
      PROVE  ListOf(q)'
  <2>1. CASE UNCHANGED panels
    BY <1>1, <2>1 DEF ListOf
  <2>2. CASE \E p \in Panels : User(p)
    BY <1>1, <2>2, UserShowsNothing, SameListKept
  <2>3. CASE \E c \in DOMAIN calls : Hook(c) /\ ~StepArrives(c)
    BY <1>1, <2>3, HookShowsNothing, SameListKept
  <2>4. CASE \E c \in DOMAIN calls : StepArrives(c)
    BY <1>1, <2>4, StepInOrder
  <2>5. CASE Crash
    <3>1. ~panels'[q].calm
      <4>1. panels'[q] = [panels[q] EXCEPT !.calm = FALSE] /\ panels[q] \in PanelType
        BY <2>5, CrashEffect DEF IInv, Typed
      <4> QED BY <4>1 DEF PanelType
    <3> QED BY <1>1, <3>1 DEF ListOf
  <2> QED BY <2>1, <2>2, <2>3, <2>4, <2>5 DEF Next, vars
<1> QED BY <1>2 DEF ListInOrder, ListOf

-----------------------------------------------------------------------------
(* What is proposed                                                        *)

\* A calm panel waits for call c, which is answered.
Heeds(c) == Answered(c) /\ Awaited(c) /\ panels[Call(c).panel].calm

\* NeverProposedAgain of one call.
NewOf(c) ==
  Heeds(c) /\ Call(c).kind = "step" /\ Call(c).answer.mode = "vision" /\ Call(c).answer.state = "ready"
    => \A t \in Done(c) : t # Call(c).answer.text /\ <<t, Call(c).answer.text>> \notin Alike

\* Nobody but the handlers answers a call a calm panel waits for.
SameAnswer(c) ==
  Heeds(c)' => c \in DOMAIN calls /\ calls'[c] = calls[c] /\ panels'[calls[c].panel] = panels[calls[c].panel]

\* An answer that nobody gave stays as new as it was.
LEMMA SameAnswerKept ==
  ASSUME NEW c, c \in DOMAIN calls => NewOf(c), SameAnswer(c)
  PROVE  NewOf(c)'
<1> QED BY DEF NewOf, SameAnswer, Heeds, Answered, Awaited, Done, LastOf, Call

\* No user answers a call.
LEMMA UserAnswersNothing ==
  ASSUME IInv, IInv', NEW p \in Panels, User(p), NEW c \in DOMAIN calls'
  PROVE  SameAnswer(c)
<1> USE DEF Call
<1> SUFFICES ASSUME calls'[c].at = "answered", panels'[calls'[c].panel].current = c, panels'[calls'[c].panel].calm
             PROVE  c \in DOMAIN calls /\ calls'[c] = calls[c] /\ panels'[calls[c].panel] = panels[calls[c].panel]
  BY DEF SameAnswer, Heeds, Answered, Awaited
<1>0. Typed /\ Typed' /\ Links
  BY SoundLinks DEF IInv
<1>q. PICK q \in Panels : q = calls'[c].panel
  <2>1. calls'[c] \in CallType
    BY <1>0 DEF Typed
  <2> QED BY <2>1 DEF CallType
<1>n. c # NoCall
  BY <1>0, Known DEF Typed
<1>u. CASE q # p /\ Untouched(q)
  BY <1>q, <1>u DEF Untouched
<1>1. CASE Began(p)
  <2>1. PICK k \in CallType, P \in PanelType, n \in Nat : BeganCall(p, k, P, n)
    BY <1>0, <1>1, BeganWhole
  <2>2. \A r \in Panels : r # p => Untouched(r)
    BY <1>0, <1>1, BeganWhole
  <2>3. CASE q = p
    BY <1>q, <2>1, <2>3 DEF BeganCall
  <2> QED BY <1>u, <2>2, <2>3
<1>2. CASE Cancelled(p)
  <2>1. PICK k \in CallType, P \in PanelType :
          Altered(panels[p].current, k) /\ Changed(p, P) /\ P = [panels[p] EXCEPT !.current = NoCall, !.view = "cancelled", !.calm = FALSE]
    BY <1>2 DEF Cancelled
  <2>2. panels[p] \in PanelType /\ PanelLinked(p) /\ panels[p].current # NoCall
    BY <1>0, <1>2 DEF Typed, Links, PanelsLinked, Cancelled
  <2>3. ~P.calm
    BY <2>1, <2>2 DEF PanelType
  <2>4. CASE q = p
    <3>1. ~panels'[p].calm
      BY <2>1, <2>3 DEF Changed
    <3> QED BY <1>q, <2>4, <3>1
  <2>5. CASE q # p
    <3>1. calls'[panels[p].current].panel = p
      BY <1>2 DEF Cancelled, Altered
    <3> QED BY <1>q, <2>1, <2>5, <3>1 DEF Altered, Changed
  <2> QED BY <2>4, <2>5
<1>3. CASE Close(p) \/ Replace(p)
  <2>1. PICK P, s : Departed(p, P, s) /\ \A r \in Panels : r # p => Untouched(r)
    BY <1>3, CloseWhole, ReplaceWhole
  <2>2. CASE q = p
    BY <1>q, <1>n, <2>1, <2>2 DEF Departed
  <2> QED BY <1>u, <2>1, <2>2
<1> QED BY <1>0, <1>1, <1>2, <1>3, Starting, Stepping, Cancelling DEF User

\* Nor does the hook.
LEMMA HookAnswersNothing ==
  ASSUME IInv, IInv', NEW d \in DOMAIN calls, Hook(d), NEW c \in DOMAIN calls'
  PROVE  SameAnswer(c)
<1> USE DEF Call
<1> SUFFICES ASSUME calls'[c].at = "answered", panels'[calls'[c].panel].current = c, panels'[calls'[c].panel].calm
             PROVE  c \in DOMAIN calls /\ calls'[c] = calls[c] /\ panels'[calls[c].panel] = panels[calls[c].panel]
  BY DEF SameAnswer, Heeds, Answered, Awaited
<1>0. Typed /\ Typed'
  BY DEF IInv
<1>q. PICK q \in Panels : q = calls'[c].panel
  <2>1. calls'[c] \in CallType
    BY <1>0 DEF Typed
  <2> QED BY <2>1 DEF CallType
<1>n. c # NoCall
  BY <1>0, Known DEF Typed
<1>p. PICK p \in Panels : p = calls[d].panel
  <2>1. calls[d] \in CallType
    BY <1>0 DEF Typed
  <2> QED BY <2>1 DEF CallType
<1>1. CASE UNCHANGED panels /\ calls' \in {[calls EXCEPT ![d].at = "sent"], Ended(d)}
  <2>1. calls[d] \in CallType
    BY <1>0 DEF Typed
  <2>2. Over(calls[d]).at = "over"
    BY <2>1, OverType
  <2>3. c # d /\ c \in DOMAIN calls /\ calls'[c] = calls[c]
    BY <1>0, <1>1, <2>1, <2>2 DEF Ended, Typed, CallType
  <2> QED BY <1>1, <2>3
<1>2. CASE CaptureFails(d) \/ ErrorArrives(d)
  <2>1. calls' = Ended(d) /\ sessions' = sessions
    BY <1>2 DEF CaptureFails, ErrorArrives
  <2>2. Altered(d, Over(calls[d])) /\ Over(calls[d]).panel = p /\ Over(calls[d]).at = "over"
    BY <1>0, <1>p, <2>1, OverCall
  <2>3. c # d /\ c \in DOMAIN calls /\ calls'[c] = calls[c]
    BY <2>2 DEF Altered
  <2>4. panels' = [panels EXCEPT ![p].current = NoCall, ![p].view = "error"] /\ panels[p] \in PanelType
    BY <1>0, <1>2, <1>p DEF CaptureFails, ErrorArrives, Typed
  <2>5. panels'[p].current = NoCall
    BY <1>0, <2>4 DEF PanelType, Typed
  <2>6. q # p
    BY <1>q, <1>n, <2>5
  <2> QED BY <1>0, <1>q, <2>3, <2>4, <2>6 DEF Typed
<1>3. CASE StartArrives(d)
  <2>1. PICK k, P, n : StartShown(d, p, k, P, n)
    BY <1>3, <1>p, StartWhole
  <2>2. \A r \in Panels : r # p => Untouched(r)
    BY <1>3, <1>p, StartWhole
  <2>3. q # p
    BY <1>q, <2>1 DEF StartShown
  <2> QED BY <1>q, <2>2, <2>3 DEF Untouched
<1>4. CASE StepArrives(d)
  <2>1. PICK k, P, a, fresh, place : StepShown(d, p, P, a, fresh, place) /\ Touched(d, k, p) /\ Changed(p, P)
    BY <1>4, <1>p, ShownWhole
  <2>2. q # p
    BY <1>q, <1>n, <2>1 DEF StepShown, Changed
  <2>3. c # d /\ c \in DOMAIN calls /\ calls'[c] = calls[c]
    BY <1>q, <2>1, <2>2 DEF Touched, Altered
  <2> QED BY <1>q, <2>1, <2>2, <2>3 DEF Changed
<1> QED BY <1>1, <1>2, <1>3, <1>4 DEF Hook, Captured, NotCaptured, Ignored

\* What a handler proposes is not what the user has marked as done.
LEMMA ServedAnswers ==
  ASSUME IInv, NEW d \in DOMAIN calls, ServedBy(d), NEW c \in DOMAIN calls', c \in DOMAIN calls => NewOf(c)
  PROVE  NewOf(c)'
<1> USE DEF Call
<1>1. Served(d) /\ panels' = panels /\ Typed /\ c \in DOMAIN calls
  BY ServedWhole DEF IInv, Served
<1>2. CASE c # d
  <2>1. SameAnswer(c)
    BY <1>1, <1>2 DEF SameAnswer, Served
  <2> QED BY <2>1, SameAnswerKept
<1>3. CASE c = d
  <2> SUFFICES ASSUME Heeds(c)', calls'[c].kind = "step", calls'[c].answer.mode = "vision",
                      calls'[c].answer.state = "ready", NEW t \in Done(c)'
               PROVE  t # calls'[c].answer.text /\ <<t, calls'[c].answer.text>> \notin Alike
    BY DEF NewOf
  <2>1. PICK p \in Panels : p = calls[c].panel
    <3>1. calls[c] \in CallType
      BY <1>1 DEF Typed
    <3> QED BY <3>1 DEF CallType
  <2>2. PICK s : s = calls[c].sid
    OBVIOUS
  <2>3. /\ calls'[c].panel = p /\ calls[c].kind = "step" /\ calls'[c].confirm = calls[c].confirm
        /\ panels[p].calm /\ calls'[c].at = "answered"
    BY <1>1, <1>3, <2>1 DEF Served, SameRequest, Heeds, Answered
  <2>4. TurnServed(c)
    BY <1>3, <2>3 DEF ServedBy, StartServed, FinishServed
  <2>5. CalmTurn(c, p, s)
    BY <1>3, <2>1, <2>2, <2>3, <2>4, CalmTurns
  <2>6. t \in Done(c)
    BY <1>1, <2>1, <2>3 DEF Done
  <2>7. calls[c].at # "verify" /\ HeededOf(p) /\ Mine(p) /\ panels[p].session = s /\ s # NoCall
        /\ panels[p].current = c /\ Was(c) = sessions[s]
    BY <2>5, CalmBefore DEF CalmTurn
  <2>8. Proposed(c)
    <3>1. ~Failed(c) /\ ~Goes1(c) /\ ~SwitchedOver(c) /\ ~Limited(c) /\ ~Looked(c) /\ ~Turned(c)
      BY <2>3 DEF Failed, Goes1, SwitchedOver, Limited, Looked, Turned, Given
    <3>2. ~ReadOut(c)
      BY DEF ReadOut, Given
    <3> QED BY <2>4, <3>1, <3>2 DEF TurnServed
  <2>9. calls[c].at = "vision" /\ ~Confirmed(Was(c), calls'[c].answer.text)
    BY <2>3, <2>7, <2>8 DEF Proposed, Given
  <2>10. Done(c) \subseteq sessions[s].confirmed
    BY <2>3, <2>7, <2>9 DEF HeededOf
  <2> QED BY <2>6, <2>7, <2>9, <2>10 DEF Confirmed
<1> QED BY <1>2, <1>3

\* Every step keeps to what the user has marked.
LEMMA NewStep ==
  ASSUME IInv, NeverProposedAgain, [Next]_vars
  PROVE  NeverProposedAgain'
<1>0. IInv' /\ Typed /\ CallsLinked
  BY NextState, SoundLinks DEF IInv, Links
<1>1. \A c \in DOMAIN calls : NewOf(c)
  BY DEF NeverProposedAgain, NewOf, Heeds
<1>2. ASSUME NEW c \in DOMAIN calls'
      PROVE  NewOf(c)'
  <2>1. CASE UNCHANGED vars
    <3>1. SameAnswer(c)
      BY <1>2, <2>1 DEF SameAnswer, vars
    <3> QED BY <1>1, <3>1, SameAnswerKept
  <2>2. CASE \E p \in Panels : User(p)
    <3>1. SameAnswer(c)
      BY <1>0, <1>2, <2>2, UserAnswersNothing
    <3> QED BY <1>1, <3>1, SameAnswerKept
  <2>3. CASE \E d \in DOMAIN calls : Hook(d)
    <3>1. SameAnswer(c)
      BY <1>0, <1>2, <2>3, HookAnswersNothing
    <3> QED BY <1>1, <3>1, SameAnswerKept
  <2>4. ASSUME NEW d \in DOMAIN calls, Serve(d), UNCHANGED panels
        PROVE  NewOf(c)'
    <3>1. ServedBy(d)
      BY <1>0, <2>4, Serves DEF ServedBy
    <3> QED BY <1>1, <1>2, <3>1, ServedAnswers
  <2>5. CASE Crash
    <3>1. calls'[c] \in CallType
      BY <1>0, <1>2 DEF IInv, Typed
    <3>2. PICK p \in Panels : p = calls'[c].panel
      BY <3>1 DEF CallType
    <3>3. ~panels'[p].calm
      <4>1. panels'[p] = [panels[p] EXCEPT !.calm = FALSE] /\ panels[p] \in PanelType
        BY <1>0, <2>5, CrashEffect DEF Typed
      <4> QED BY <4>1 DEF PanelType
    <3> QED BY <3>2, <3>3 DEF NewOf, Heeds, Call
  <2> QED BY <2>1, <2>2, <2>3, <2>4, <2>5 DEF Next
<1> QED BY <1>2 DEF NeverProposedAgain, NewOf, Heeds
-----------------------------------------------------------------------------
\* Every variable has the values the code gives it, whoever calls whatever and
\* in any order.
THEOREM TypesAreKept == Spec => []TypeOK
<1> QED BY Inductive, AllTyped, PTL

\* A step on the screen never comes from a call the user cancelled or left, nor
\* from another session than that of the panel (runRef in useWalkthrough).
THEOREM SilentIsKept == Spec => []CancelledIsSilent
<1> QED BY Inductive, AllSilent, PTL

\* While a handler looks at the screen for a user who cancels nothing, its
\* session is not in manual mode, through all awaits of the turn and every
\* switch of the mode (walkthrough/index.js, prepareTurn and step).
THEOREM BlindIsKept == Spec => []ManualIsBlind
<1> QED BY Inductive, AllBlind, PTL

\* A session gives no more steps than maxStepsPerSession but for one to each
\* cancelled or left call, which may have counted beside the step made in its
\* place (walkthrough/index.js, step and commitStep).
THEOREM LimitIsKept == Spec => []LimitKept
<1> QED BY Inductive, AllLimited, PTL

\* A panel that is closed leaves no session in the sidecar and no screenshot on
\* disk once its calls are over, if its user cancelled nothing and left nothing
\* unanswered (walkthrough.finish, dropSession, purgeScreenshotsDir).
THEOREM ClearedIsKept == Spec => []ClosedLeavesNothing
<1> QED BY Inductive, AllCleared, PTL

\* In manual mode a user who cancels nothing reads the list of the guide from
\* its first item to its last, none left out and none out of place (manualStep
\* in the sidecar, acceptStep in the window).
THEOREM ListIsKept == Spec => []ListInOrder
<1>1. Init => ListInOrder
  BY DEF Init, NewPanel, ListInOrder
<1> QED BY <1>1, FirstState, NextState, ListStep, PTL DEF Spec

\* An instruction the user saw and marked as done is not proposed again, in
\* these words or in words the sidecar takes for the same (confirmPreviousStep,
\* matchConfirmedStep).
THEOREM NewIsKept == Spec => []NeverProposedAgain
<1>1. Init => NeverProposedAgain
  BY DEF Init, NeverProposedAgain
<1> QED BY <1>1, FirstState, NextState, NewStep, PTL DEF Spec
==============================================================================
