--------------------------- MODULE WalkthroughSession ---------------------------
(***************************************************************************)
(* The walkthrough methods of the sidecar: start, step, stuck and finish   *)
(* with the sessions they keep in memory and the screenshots on disk.      *)
(*                                                                         *)
(* A handler runs alone up to an await, so a step is what it does from one *)
(* await to the next; requests that overlap meet in `sessions` and `disk`. *)
(* The module has the handlers only: WalkthroughWindow adds the windows    *)
(* that call them, and the specification.                                  *)
(*                                                                         *)
(* The shipped configuration is assumed: walkthrough is enabled and so is  *)
(* screen analysis, planVerify is off. An instruction is a value of Instr  *)
(* with the relation "the same in other words"; what else the methods may  *)
(* tell the user is one value for each kind of text.                       *)
(***************************************************************************)
EXTENDS Naturals, Sequences

CONSTANTS
  Instr,       \* what a model may tell the user to do
  Alike,       \* pairs of instructions instructionSimilarity takes for the same
  Guide,       \* the list of steps the chat model makes of the help document
  StartModes,  \* the values walkthrough.stepSource has
  MaxSteps,    \* maxStepsPerSession
  Env,         \* what the environment may do
  Panels,      \* the hint panels that make the calls
  None         \* no text, no answer

\* model - the model fails, or makes no list of steps
\* image - a screenshot cannot be made smaller
\* other - the operating system says that another program is in front
\* docs  - no help document matches the goal
\* gone  - the program is not in the database any more
ServerEnv == {"model", "image", "other", "docs", "gone"}

Modes == {"vision", "plan"}

ASSUME SessionAssumption ==
  /\ Alike \subseteq Instr \X Instr
  /\ Guide \in Seq(Instr) /\ Len(Guide) > 0
  /\ None \notin Instr
  /\ StartModes \subseteq Modes
  /\ MaxSteps \in Nat

VARIABLES
  sessions,  \* per call of start: the session it made
  calls,     \* the calls made so far, in order
  disk       \* the screenshots on disk

---------------------------------------------------------------------------
(* Data *)

\* What the module itself says, and no user can do.
ServiceTexts == {"noScreenshot", "noAnswer", "limit", "noDocs", "elsewhere", "repeats"}

\* "allDone" ends the list of the guide.
Texts == Instr \cup ServiceTexts \cup {"allDone"}

NoProgress == {"unclear", "loop"}

\* The files of call c: the screenshot itself and its smaller copy.
Shot(c) == <<c, "shot">>
Copy(c) == <<c, "copy">>

NoSession ==
  [open |-> FALSE, mode |-> "vision", planned |-> FALSE, cursor |-> 0, count |-> 0,
   said |-> None, last |-> None, confirmed |-> {}, docs |-> TRUE, files |-> {}]

\* createSession. `said` is what lastMeaningfulInstruction finds in the
\* history, `docs` whether the missing document needs no mention (any more).
NewSession(mode, matched) ==
  [NoSession EXCEPT !.open = TRUE, !.mode = mode, !.planned = mode = "plan", !.docs = matched]

\* A call as its maker sends it. `at` is the await the call stands at.
\* `shot` tells whether it comes with a screenshot, `asked` what the model has
\* been asked about, `dropped` whether its maker waits for it no more.
NewCall(panel, kind, sid, source, confirm, shot) ==
  [panel |-> panel, kind |-> kind, sid |-> sid, source |-> source, confirm |-> confirm,
   shot |-> shot, at |-> IF shot THEN "capture" ELSE "sent", asked |-> None,
   aborted |-> FALSE, dropped |-> FALSE, answer |-> None]

Answer(state, text, mode, index) ==
  [state |-> state, text |-> text, mode |-> mode, index |-> index]

\* planIndex of a step that is no item of the list.
NoIndex == Len(Guide) + 1

Call(c) == calls[c]
Session(c) == sessions[calls[c].sid]

\* Mutant: a step in other words is another step.
ConfirmedWordByWord(s, text) == text \in s.confirmed

\* matchConfirmedStep
Confirmed(s, text) ==
  \E known \in s.confirmed : known = text \/ <<known, text>> \in Alike

\* Mutant: nobody asks whether the history has an instruction at all.
ConfirmAnything(s) == [s EXCEPT !.confirmed = @ \cup {s.said}, !.last = None]

\* confirmPreviousStep
Confirm(s) ==
  [s EXCEPT !.confirmed = IF s.said = None THEN @ ELSE @ \cup {s.said}, !.last = None]

\* commitStep. Steps of the module itself (`own`) and explanations of a loop
\* are nothing to ask about later.
Commit(s, state, text, own, advance) ==
  [s EXCEPT !.count = IF advance /\ state \notin NoProgress THEN @ + 1 ELSE @,
            !.said = IF own \/ state = "loop" THEN @ ELSE text]

\* The call goes on at `stage`, its session being s.
Goes(c, stage, s) ==
  /\ calls' = [calls EXCEPT ![c].at = stage]
  /\ sessions' = [sessions EXCEPT ![calls[c].sid] = s]

\* The call ends with this answer.
Answers(c, s, answer) ==
  /\ calls' = [calls EXCEPT ![c].at = "answered", ![c].asked = None, ![c].answer = answer]
  /\ sessions' = [sessions EXCEPT ![calls[c].sid] = s]

Fails(c, s) == Answers(c, s, Answer("error", None, s.mode, NoIndex))

At(c, kinds, stage) == Call(c).kind \in kinds /\ Call(c).at = stage
---------------------------------------------------------------------------
(* walkthrough.start *)

\* findApp finds nothing, and nothing is wiped.
StartUnknown(c) ==
  /\ At(c, {"start"}, "sent") /\ "gone" \in Env
  /\ Fails(c, NoSession)
  /\ UNCHANGED disk

\* The screenshots of whoever left some are wiped.
StartPurge(c) ==
  /\ At(c, {"start"}, "sent")
  /\ disk' = {}
  /\ calls' = [calls EXCEPT ![c].at = "docs"]
  /\ UNCHANGED sessions

\* searchAppDocs: whether the documents of the program have one about the goal,
\* ranked by two searches either of which may fail, and near enough.
DocsMatch == {TRUE} \cup (IF "docs" \in Env THEN {FALSE} ELSE {})

\* loadAppDocs is over. Without a document there is nothing to make a list of.
StartDocs(c) ==
  /\ At(c, {"start"}, "docs")
  /\ \E mode \in StartModes, matched \in DocsMatch :
       CASE mode = "vision" ->
              Answers(c, NewSession(mode, matched), Answer("ready", None, mode, NoIndex))
         [] mode = "plan" /\ matched -> Goes(c, "list", NoSession)
         [] OTHER -> Fails(c, NoSession)
  /\ UNCHANGED disk

\* buildPlan answers.
StartList(c) ==
  /\ At(c, {"start"}, "list")
  /\ \/ /\ ~Call(c).aborted
        /\ Answers(c, NewSession("plan", TRUE), Answer("ready", None, "plan", NoIndex))
     \/ /\ Call(c).aborted \/ "model" \in Env
        /\ Fails(c, NoSession)
  /\ UNCHANGED disk
---------------------------------------------------------------------------
(* walkthrough.step *)

\* Mutant: the list goes on where it was left.
SwitchedOn(s, mode) ==
  [s EXCEPT !.mode = mode, !.planned = @ \/ mode = "plan", !.last = None]

\* switchStepSource: the list of the guide is always read from its first item.
Switched(s, mode) ==
  [s EXCEPT !.mode = mode, !.planned = @ \/ mode = "plan", !.cursor = 0, !.last = None]

Switches(c) == Call(c).source \notin {"same", Session(c).mode}

StepEnter(c) ==
  /\ At(c, {"step"}, "sent")
  /\ \/ ~Session(c).open /\ Fails(c, Session(c))
     \/ /\ Session(c).open /\ Switches(c)
        /\ IF Call(c).source = "plan" /\ ~Session(c).planned
           THEN Goes(c, "list", Session(c))
           ELSE Goes(c, "body", Switched(Session(c), Call(c).source))
  /\ UNCHANGED disk

\* buildPlan answers; the session may be closed, or in another mode, by now.
StepList(c) ==
  /\ At(c, {"step"}, "list")
  /\ \/ ~Call(c).aborted /\ Goes(c, "body", Switched(Session(c), Call(c).source))
     \/ (Call(c).aborted \/ "model" \in Env) /\ Fails(c, Session(c))
  /\ UNCHANGED disk

\* The handler runs on without an await unless it has switched the mode.
InBody(c) ==
  \/ At(c, {"step"}, "body")
  \/ At(c, {"step"}, "sent") /\ Session(c).open /\ ~Switches(c)

\* Mutant: one more.
BelowLimitOrAt(c) == Session(c).count <= MaxSteps

BelowLimit(c) == Session(c).count < MaxSteps

\* What the user said of the previous step comes before anything is looked at.
Heard(c) == IF Call(c).confirm THEN Confirm(Session(c)) ELSE Session(c)

StepLimit(c) ==
  /\ InBody(c) /\ ~BelowLimit(c)
  /\ Answers(c, Session(c), Answer("unclear", "limit", Session(c).mode, NoIndex))
  /\ UNCHANGED disk

\* manualStep: the next item of the list, no screen and no model.
ManualStep(c) ==
  /\ InBody(c) /\ BelowLimit(c) /\ Session(c).mode = "plan"
  /\ LET s == Heard(c)
         item == s.cursor < Len(Guide)
         state == IF item THEN "ready" ELSE "done"
         text == IF item THEN Guide[s.cursor + 1] ELSE "allDone"
     IN Answers(c, [Commit(s, state, text, FALSE, TRUE) EXCEPT !.cursor = IF item THEN @ + 1 ELSE @],
                Answer(state, text, "plan", s.cursor))
  /\ UNCHANGED disk

Looks(c) == InBody(c) /\ BelowLimit(c) /\ Session(c).mode = "vision"

\* The missing document is mentioned once.
StepNoDocs(c) ==
  /\ Looks(c) /\ ~Session(c).docs
  /\ Answers(c, [Commit(Heard(c), "unclear", "noDocs", TRUE, FALSE) EXCEPT !.docs = TRUE],
             Answer("unclear", "noDocs", "vision", NoIndex))
  /\ UNCHANGED disk

\* matchFrontmost and decideFromFrontmost: the operating system names another
\* program than that of the session.
Elsewhere(c) == "other" \in Env /\ Call(c).shot

\* Another program is in front, no model is asked.
StepElsewhere(c) ==
  /\ Looks(c) /\ Session(c).docs
  /\ Elsewhere(c)
  /\ Answers(c, [Commit(Heard(c), "wrong_window", "elsewhere", TRUE, TRUE)
                   EXCEPT !.last = None, !.files = @ \cup {Shot(c)}],
             Answer("wrong_window", "elsewhere", "vision", NoIndex))
  /\ UNCHANGED disk

\* prepareTurn looks for the session again.
StepTurn(c) ==
  /\ Looks(c) /\ Session(c).docs
  /\ IF Session(c).open THEN Goes(c, "exists", Heard(c)) ELSE Fails(c, Heard(c))
  /\ UNCHANGED disk
---------------------------------------------------------------------------
(* prepareTurn, of step and of stuck *)

\* screenshotExists answers. A screenshot somebody wiped is a refusal of the
\* system to the user; stuck does not keep it in the history.
TurnBlocked(c) ==
  /\ At(c, {"step", "stuck"}, "exists")
  /\ Shot(c) \notin disk
  /\ LET s == Session(c)
     IN Answers(c, IF Call(c).kind = "stuck" THEN s ELSE Commit(s, "unclear", "noScreenshot", FALSE, FALSE),
                Answer("unclear", "noScreenshot", s.mode, NoIndex))
  /\ UNCHANGED disk

TurnTracked(c) ==
  /\ At(c, {"step", "stuck"}, "exists")
  /\ Shot(c) \in disk
  /\ Goes(c, "prepare", [Session(c) EXCEPT !.files = @ \cup {Shot(c)}])
  /\ UNCHANGED disk

\* The item planVerify would check the screen against.
Item(s) == Guide[IF s.count < Len(Guide) THEN s.count + 1 ELSE Len(Guide)]

\* prepareScreenshot is over and the model is asked: about the item of the
\* list when the session has come into manual mode meanwhile.
TurnPrepared(c) ==
  /\ At(c, {"step", "stuck"}, "prepare")
  /\ Shot(c) \in disk
  /\ disk' = disk \cup {Copy(c)}
  /\ LET s == Session(c)
         verify == Call(c).kind = "step" /\ s.mode = "plan"
     IN /\ calls' = [calls EXCEPT ![c].at = IF verify THEN "verify" ELSE "vision",
                                  ![c].asked = IF verify THEN Item(s) ELSE s.said]
        /\ sessions' = [sessions EXCEPT ![Call(c).sid].files = @ \cup {Copy(c)}]

TurnFails(c) ==
  /\ At(c, {"step", "stuck"}, "prepare")
  /\ Shot(c) \notin disk \/ "image" \in Env
  /\ Fails(c, Session(c))
  /\ UNCHANGED disk
---------------------------------------------------------------------------
(* The model answers: toStepFields. `denied` is previousDone = false.      *)

\* The states of the schema; app_not_started is handled like wrong_window. The
\* schema leaves both out when the system has confirmed the program in front.
ModelStates == {"ready", "wrong_window", "done", "unclear"}

\* visionStepSchema: the model is asked about a previous step only when there
\* is one.
Denials(c) == {FALSE} \cup (IF Call(c).asked = None THEN {} ELSE {TRUE})

\* parseModelJson has found nothing to read.
NoAnswer == [state |-> "unclear", text |-> "noAnswer", denied |-> FALSE]

ModelAnswers(c) ==
  [state : ModelStates, text : Instr, denied : Denials(c)]
  \cup (IF "model" \in Env THEN {NoAnswer} ELSE {})

\* applyProgressGuard and what step makes of it.
Guarded(c, m) ==
  LET s == Session(c)
      human == Call(c).confirm \/ (Call(c).asked # None /\ Confirmed(s, Call(c).asked))
      known == Confirmed(s, m.text) /\ m.state # "done"
      again == m.text = s.last /\ m.state = "ready"
      state == IF known \/ again THEN "loop" ELSE m.state
      text == IF known THEN "repeats" ELSE m.text
  IN Answers(c, Commit([s EXCEPT !.last = m.text], state, text, FALSE, human \/ ~m.denied),
             Answer(state, text, s.mode, NoIndex))

VisionStep(c) ==
  /\ At(c, {"step"}, "vision") /\ ~Call(c).aborted
  /\ \E m \in ModelAnswers(c) : Guarded(c, m)
  /\ UNCHANGED disk

VerifiedStep(c) ==
  /\ At(c, {"step"}, "verify") /\ ~Call(c).aborted
  /\ \E m \in ModelAnswers(c) :
       LET text == IF m.state \in {"ready", "done"} THEN Call(c).asked ELSE m.text
       IN Answers(c, Commit(Session(c), m.state, text, FALSE, TRUE),
                  Answer(m.state, text, Session(c).mode, NoIndex))
  /\ UNCHANGED disk

\* Another prompt, and neither a guard nor progress.
VisionStuck(c) ==
  /\ At(c, {"stuck"}, "vision") /\ ~Call(c).aborted
  /\ \E m \in ModelAnswers(c) :
       Answers(c, Commit(Session(c), m.state, m.text, FALSE, FALSE),
               Answer(m.state, m.text, Session(c).mode, NoIndex))
  /\ UNCHANGED disk

\* generateVisionResponse lets the abortion of its signal through; another
\* error of it is answered like a model that gave nothing to read.
RequestAborted(c) == Call(c).at \in {"vision", "verify"} /\ Call(c).aborted

VisionAborted(c) ==
  /\ RequestAborted(c)
  /\ Fails(c, Session(c))
  /\ UNCHANGED disk

StuckEnter(c) ==
  /\ At(c, {"stuck"}, "sent")
  /\ IF Session(c).open THEN Goes(c, "exists", Session(c)) ELSE Fails(c, Session(c))
  /\ UNCHANGED disk
---------------------------------------------------------------------------
(* walkthrough.finish *)

\* dropSession: the session is open until its last file is gone, those a step
\* has added meanwhile among them.
FinishRemoves(c) ==
  /\ \/ At(c, {"finish"}, "sent") /\ Session(c).open
     \/ At(c, {"finish"}, "drop") /\ Session(c).files \cap disk # {}
  /\ disk' = disk \ Session(c).files
  /\ Goes(c, "drop", Session(c))

FinishDrop(c) ==
  /\ At(c, {"finish"}, "drop") /\ Session(c).files \cap disk = {}
  /\ Goes(c, "purge", [Session(c) EXCEPT !.open = FALSE])
  /\ UNCHANGED disk

\* Mutant: only the files of the session go, with the session.
FinishPurgeNothing(c) ==
  /\ At(c, {"finish"}, "purge")
  /\ Answers(c, Session(c), Answer("ready", None, Session(c).mode, NoIndex))
  /\ UNCHANGED disk

\* purgeScreenshotsDir, whoever the screenshots belong to.
FinishPurge(c) ==
  /\ At(c, {"finish"}, "purge")
  /\ disk' = {}
  /\ Answers(c, Session(c), Answer("ready", None, Session(c).mode, NoIndex))

FinishUnknown(c) ==
  /\ At(c, {"finish"}, "sent") /\ ~Session(c).open
  /\ Fails(c, Session(c))
  /\ UNCHANGED disk

\* The handlers: one step of call c.
Serve(c) ==
  \/ StartUnknown(c) \/ StartPurge(c) \/ StartDocs(c) \/ StartList(c)
  \/ StepEnter(c) \/ StepList(c) \/ StepLimit(c) \/ ManualStep(c)
  \/ StepNoDocs(c) \/ StepElsewhere(c) \/ StepTurn(c)
  \/ TurnBlocked(c) \/ TurnTracked(c) \/ TurnPrepared(c) \/ TurnFails(c)
  \/ VisionStep(c) \/ VerifiedStep(c) \/ VisionStuck(c) \/ VisionAborted(c)
  \/ StuckEnter(c)
  \/ FinishRemoves(c) \/ FinishDrop(c) \/ FinishPurge(c) \/ FinishUnknown(c)
=============================================================================
