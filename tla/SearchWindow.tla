------------------------------ MODULE SearchWindow ------------------------------
(***************************************************************************)
(* The search window behind the gate (useSearch.js, Spotlight.jsx): one    *)
(* question at a time for the user, several jobs in the sidecar, since a   *)
(* search that was cancelled or left goes on there, and its frames and its *)
(* answer come to a window that has asked something else by then.          *)
(***************************************************************************)
EXTENDS Integers, FiniteSets

CONSTANT MaxAsks  \* bound: questions asked; a question is its number

ASSUME SearchAssumption == MaxAsks \in Nat \ {0}

VARIABLES
  asks,     \* how many questions were asked: the counter of newRef
  queries,  \* the job of each question in the sidecar
  search,   \* useSearch: run (0: none awaited), active, ref, job (the id), phase,
            \* asked, answer
  shown,    \* visiblePhase
  dismissed \* gateDismissed

searchVars == <<asks, queries, search, shown, dismissed>>

Fresh == [run |-> 0, active |-> FALSE, ref |-> 0, job |-> 0, phase |-> "idle",
          asked |-> 0, answer |-> 0]

InitSearch ==
  /\ asks = 0 /\ queries = [q \in 1 .. MaxAsks |-> "none"]
  /\ search = Fresh /\ shown = "idle" /\ dismissed = FALSE

\* The window is opened, or left: the jobs do not notice.
Renewed ==
  /\ search' = Fresh /\ shown' = "idle" /\ dismissed' = FALSE
  /\ UNCHANGED <<asks, queries>>

-----------------------------------------------------------------------------
\* run(): Enter, an example, the button of an error.  Without a bridge it
\* fails at once.
StartSearch(sent) ==
  /\ asks < MaxAsks /\ shown # "searching"
  /\ asks' = asks + 1
  /\ queries' = [queries EXCEPT ![asks + 1] = IF sent THEN "running" ELSE "over"]
  /\ search' = [run |-> asks + 1, active |-> sent, ref |-> asks + 1, job |-> 0,
                phase |-> IF sent THEN "searching" ELSE "error", asked |-> asks + 1, answer |-> 0]
  /\ shown' = IF sent THEN "searching" ELSE "error"
  /\ UNCHANGED dismissed

\* A frame counts only under the label of the search in progress.
Progress(q) ==
  /\ queries[q] = "running"
  /\ search' = IF search.active /\ search.ref = q THEN [search EXCEPT !.job = q] ELSE search
  /\ UNCHANGED <<asks, queries, shown, dismissed>>

\* Mutant: whatever comes while a search is on is its answer.
AwaitedSomehow(q) == search.active

\* runRef: the promise of a search that was replaced or left does nothing.
Awaited(q) == search.run = q

Answered(q) ==
  /\ queries[q] = "running"
  /\ queries' = [queries EXCEPT ![q] = "over"]
  /\ search' = IF Awaited(q)
                 THEN [search EXCEPT !.active = FALSE, !.phase = "done", !.answer = q]
                 ELSE search
  /\ UNCHANGED <<asks, shown, dismissed>>

QueryFails(q) ==
  /\ queries[q] = "running"
  /\ queries' = [queries EXCEPT ![q] = "over"]
  /\ search' = IF Awaited(q) THEN [search EXCEPT !.active = FALSE, !.phase = "error"] ELSE search
  /\ shown' = IF Awaited(q) THEN "error" ELSE shown
  /\ UNCHANGED <<asks, dismissed>>

\* The bridge fails every call that waits.
QueriesLost ==
  /\ queries' = [q \in 1 .. MaxAsks |-> IF queries[q] = "running" THEN "over" ELSE queries[q]]
  /\ IF search.active
       THEN search' = [search EXCEPT !.active = FALSE, !.phase = "error"] /\ shown' = "error"
       ELSE UNCHANGED <<search, shown>>
  /\ UNCHANGED <<asks, dismissed>>

\* cancel(): the result is let go, and job.cancel is sent for the id, if it
\* has come; the sidecar acknowledges that, and the search runs to its end.
Cancel ==
  /\ shown = "searching" /\ search.phase = "searching" /\ search.active
  /\ search' = [search EXCEPT !.run = 0, !.active = FALSE, !.job = 0, !.phase = "idle"]
  /\ shown' = "idle"
  /\ UNCHANGED <<asks, queries, dismissed>>

\* Escape, unless a search is on its way to the screen.
ClearAll ==
  /\ shown # "searching" /\ search # Fresh
  /\ search' = Fresh /\ shown' = "idle"
  /\ UNCHANGED <<asks, queries, dismissed>>

\* The yarn has come to the end of its thread.
FinishPresentation ==
  /\ shown = "searching" /\ search.phase = "done"
  /\ shown' = "done"
  /\ UNCHANGED <<asks, queries, search, dismissed>>

Dismiss ==
  /\ ~dismissed /\ dismissed' = TRUE
  /\ UNCHANGED <<asks, queries, search, shown>>
=============================================================================
