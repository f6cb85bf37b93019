------------------------------- MODULE RpcBridge -------------------------------
(***************************************************************************)
(* The RPC between the application and the Node sidecar: rpc_call and      *)
(* connection_loop of the Rust bridge on one side, handleRequest, the job  *)
(* registry and job.cancel of the server on the other, and the WebSocket   *)
(* connection between them, which may be lost and made again.              *)
(*                                                                         *)
(* Every call runs in a task of its own beside the connection loop; the    *)
(* tasks share `out`, `pending` and `refs`, each behind its own mutex, so  *)
(* a step is what one of them does under one lock.                         *)
(***************************************************************************)
EXTENDS Integers, Sequences

CONSTANTS
  Calls,       \* the rpc_call invocations, named by their id
  Target,      \* the id a job.cancel call names; NoCall for other methods
  NoCall,
  Faults,      \* what fails in this instance
  MaxBreaks,   \* bound: connections lost
  MaxRestarts  \* bound: application restarts

\* break   - the connection is lost, or cannot be made
\* crash   - the Node process ends; another one is started in its place
\* timeout - an answer takes longer than requestTimeoutSec
\* restart - the application starts anew and finds the old Node process: ids
\*           are counted from 1 again
FaultKinds == {"break", "crash", "timeout", "restart"}

ASSUME BridgeAssumption ==
  /\ NoCall \notin Calls
  /\ Target \in [Calls -> Calls \cup {NoCall}]
  /\ Faults \subseteq FaultKinds
  /\ MaxBreaks \in Nat /\ MaxRestarts \in Nat

VARIABLES
  \* the bridge
  cpc,       \* per call: where its task stands
  sender,    \* per call: whether its clone of `out` still has its receiver
  pending,   \* ids whose oneshot sender is in the map
  refs,      \* ids whose label is in the map
  slot,      \* per call: what its oneshot received, "none" if nothing
  link,      \* the connection loop: off, up, down, nosender, norefs
  app,       \* which run of the application this is
  \* the connection
  toServer, toClient,
  conn,      \* whether the server's end of the bridge's connection is open
  breaks,
  \* the server
  server,    \* whether the process runs
  stale,     \* requests of lost connections the server has still to read
  jobs       \* the registry: per id, no job or the job

bridgeVars == <<cpc, sender, pending, refs, slot, link, app>>
wireVars == <<toServer, toClient, conn, breaks>>
serverVars == <<server, stale, jobs>>
vars == <<bridgeVars, wireVars, serverVars>>

Apps == 0 .. MaxRestarts

\* A final frame, or a progress frame; `of` is the run of the application
\* whose request it answers.
Kinds == {"result", "error", "cancelled", "duplicate", "progress"}
Frames == [id : Calls, of : Apps, kind : Kinds]
Requests == [id : Calls, of : Apps]

\* open: the job's socket is the connection the bridge has now.
NoJob == [state |-> "none", open |-> FALSE, of |-> 0]
Jobs == [state : {"none", "running", "aborted"}, open : BOOLEAN, of : Apps]

\* What a caller waits for ends its call: never a progress frame.
Answers == [kind : (Kinds \ {"progress"}) \cup {"none", "lost"}, of : Apps]
NoAnswer == [kind |-> "none", of |-> 0]

TypeOK ==
  /\ cpc \in [Calls -> {"idle", "register", "label", "send", "waiting", "unsent",
                        "answered", "failed", "timedout"}]
  /\ sender \in [Calls -> BOOLEAN]
  /\ pending \subseteq Calls /\ refs \subseteq Calls
  /\ slot \in [Calls -> Answers]
  /\ link \in {"off", "up", "down", "nosender", "norefs"}
  /\ app \in Apps
  /\ toServer \in Seq(Requests) /\ toClient \in Seq(Frames)
  /\ conn \in BOOLEAN
  /\ breaks \in 0 .. MaxBreaks
  /\ server \in BOOLEAN
  /\ stale \in Seq(Requests)
  /\ jobs \in [Calls -> Jobs]

Init ==
  /\ cpc = [c \in Calls |-> "idle"]
  /\ sender = [c \in Calls |-> FALSE]
  /\ pending = {} /\ refs = {}
  /\ slot = [c \in Calls |-> NoAnswer]
  /\ link = "off" /\ app = 0
  /\ toServer = <<>> /\ toClient = <<>> /\ conn = FALSE /\ breaks = 0
  /\ server = TRUE
  /\ stale = <<>>
  /\ jobs = [c \in Calls |-> NoJob]

-----------------------------------------------------------------------------
(* rpc_call                                                                *)

Goto(c, place) == cpc' = [cpc EXCEPT ![c] = place]

\* `out` holds a sender from the moment pump() has made the connection until
\* the loop clears it, which is after the receiver is gone.
OutIsSome == link \in {"up", "down"}

Begin(c) ==
  /\ cpc[c] = "idle"
  /\ IF OutIsSome
       THEN Goto(c, "register") /\ sender' = [sender EXCEPT ![c] = link = "up"]
       ELSE Goto(c, "failed") /\ UNCHANGED sender
  /\ UNCHANGED <<pending, refs, slot, link, app, wireVars, serverVars>>

Register(c) ==
  /\ cpc[c] = "register"
  /\ pending' = pending \cup {c}
  /\ Goto(c, "label")
  /\ UNCHANGED <<sender, refs, slot, link, app, wireVars, serverVars>>

\* Every call here has a client_ref.
Label(c) ==
  /\ cpc[c] = "label"
  /\ refs' = refs \cup {c}
  /\ Goto(c, "send")
  /\ UNCHANGED <<sender, pending, slot, link, app, wireVars, serverVars>>

\* The send fails only when pump() has dropped the receiver.
Send(c) ==
  /\ cpc[c] = "send"
  /\ IF sender[c]
       THEN /\ Goto(c, "waiting")
            /\ toServer' = Append(toServer, [id |-> c, of |-> app])
       ELSE Goto(c, "unsent") /\ UNCHANGED toServer
  /\ UNCHANGED <<sender, pending, refs, slot, link, app, toClient, conn, breaks, serverVars>>

\* "канал до sidecar закрито"
GiveUp(c) ==
  /\ cpc[c] = "unsent"
  /\ pending' = pending \ {c} /\ refs' = refs \ {c}
  /\ Goto(c, "failed")
  /\ UNCHANGED <<sender, slot, link, app, wireVars, serverVars>>

Receive(c) ==
  /\ cpc[c] = "waiting"
  /\ slot[c] # NoAnswer
  /\ Goto(c, IF slot[c].kind \in {"result", "cancelled"} THEN "answered" ELSE "failed")
  /\ UNCHANGED <<sender, pending, refs, slot, link, app, wireVars, serverVars>>

\* Mutant: the label stays.
TimeoutKeepsLabel(c) ==
  /\ "timeout" \in Faults
  /\ cpc[c] = "waiting"
  /\ pending' = pending \ {c}
  /\ Goto(c, "timedout")
  /\ UNCHANGED <<sender, refs, slot, link, app, wireVars, serverVars>>

\* The answer may arrive while the timeout is being handled.
Timeout(c) ==
  /\ "timeout" \in Faults
  /\ cpc[c] = "waiting"
  /\ pending' = pending \ {c} /\ refs' = refs \ {c}
  /\ Goto(c, "timedout")
  /\ UNCHANGED <<sender, slot, link, app, wireVars, serverVars>>

-----------------------------------------------------------------------------
(* connection_loop, pump, handle_frame, fail_pending                       *)

Connect ==
  /\ link = "off" /\ server
  /\ link' = "up" /\ conn' = TRUE
  /\ UNCHANGED <<cpc, sender, pending, refs, slot, app, toServer, toClient, breaks,
                 serverVars>>

\* connect_async fails: the loop goes through its cleanup all the same.
ConnectFails ==
  /\ link = "off"
  /\ ~server \/ ("break" \in Faults /\ breaks < MaxBreaks)
  /\ link' = "nosender"
  /\ breaks' = IF server THEN breaks + 1 ELSE breaks
  /\ UNCHANGED <<cpc, sender, pending, refs, slot, app, toServer, toClient, conn, serverVars>>

\* Nobody's answer: a socket that is not OPEN is not written to.
Orphan(job) == [job EXCEPT !.open = FALSE]

\* The connection is gone with the frames not yet read; the server may still
\* read some of the requests.
Disconnect ==
  /\ \E n \in 0 .. Len(toServer) :
       stale' = IF conn THEN stale \o SubSeq(toServer, 1, n) ELSE stale
  /\ toServer' = <<>> /\ toClient' = <<>>
  /\ conn' = FALSE
  /\ jobs' = [c \in Calls |-> Orphan(jobs[c])]

\* pump() returns, and its receiver is dropped with what it held.
Break ==
  /\ link = "up"
  /\ ~conn \/ ("break" \in Faults /\ breaks < MaxBreaks)
  /\ breaks' = IF conn THEN breaks + 1 ELSE breaks
  /\ link' = "down"
  /\ sender' = [c \in Calls |-> FALSE]
  /\ Disconnect
  /\ UNCHANGED <<cpc, pending, refs, slot, app, server>>

ClearOut ==
  /\ link = "down"
  /\ link' = "nosender"
  /\ UNCHANGED <<cpc, sender, pending, refs, slot, app, wireVars, serverVars>>

\* Mutant: fail_pending ends after the labels.
FailRefsOnly ==
  /\ link = "nosender"
  /\ refs' = {}
  /\ link' = "off"
  /\ UNCHANGED <<cpc, sender, pending, slot, app, wireVars, serverVars>>

\* fail_pending: first the labels, then the waiting calls.
FailRefs ==
  /\ link = "nosender"
  /\ refs' = {}
  /\ link' = "norefs"
  /\ UNCHANGED <<cpc, sender, pending, slot, app, wireVars, serverVars>>

FailPending ==
  /\ link = "norefs"
  /\ slot' = [c \in Calls |-> IF c \in pending THEN [kind |-> "lost", of |-> app]
                              ELSE slot[c]]
  /\ pending' = {}
  /\ link' = "off"
  /\ UNCHANGED <<cpc, sender, refs, app, wireVars, serverVars>>

\* Mutant: refs.remove for refs.get.
EmitOnce ==
  /\ link = "up" /\ toClient # <<>>
  /\ Head(toClient).kind = "progress"
  /\ refs' = refs \ {Head(toClient).id}
  /\ toClient' = Tail(toClient)
  /\ UNCHANGED <<cpc, sender, pending, slot, link, app, toServer, conn, breaks, serverVars>>

\* handle_frame of a progress frame: emitted, with its label if it has one.
Emit ==
  /\ link = "up" /\ toClient # <<>>
  /\ Head(toClient).kind = "progress"
  /\ toClient' = Tail(toClient)
  /\ UNCHANGED <<bridgeVars, toServer, conn, breaks, serverVars>>

\* Mutant: the type of the frame is not looked at.
DeliverAny ==
  /\ link = "up" /\ toClient # <<>>
  /\ LET f == Head(toClient) IN
       /\ refs' = refs \ {f.id}
       /\ pending' = pending \ {f.id}
       /\ slot' = IF f.id \in pending
                    THEN [slot EXCEPT ![f.id] = [kind |-> f.kind, of |-> f.of]]
                    ELSE slot
  /\ toClient' = Tail(toClient)
  /\ UNCHANGED <<cpc, sender, link, app, toServer, conn, breaks, serverVars>>

\* handle_frame of a final frame: to the owner of the id, if it still waits.
Deliver ==
  /\ link = "up" /\ toClient # <<>>
  /\ Head(toClient).kind # "progress"
  /\ LET f == Head(toClient) IN
       /\ refs' = refs \ {f.id}
       /\ pending' = pending \ {f.id}
       /\ slot' = IF f.id \in pending
                    THEN [slot EXCEPT ![f.id] = [kind |-> f.kind, of |-> f.of]]
                    ELSE slot
  /\ toClient' = Tail(toClient)
  /\ UNCHANGED <<cpc, sender, link, app, toServer, conn, breaks, serverVars>>

-----------------------------------------------------------------------------
(* The server: handleRequest, job.cancel, send                             *)

Frame(c, of, kind) == [id |-> c, of |-> of, kind |-> kind]

\* Mutant: to the client connected now.
ReplyToCurrent(open, frame) ==
  toClient' = IF conn THEN Append(toClient, frame) ELSE toClient

\* send(): a frame of a socket that is not OPEN goes nowhere.
Reply(open, frame) ==
  toClient' = IF open THEN Append(toClient, frame) ELSE toClient

\* job.cancel ends within its own message: it aborts the job its target names.
CancelJob(c) ==
  jobs' = IF Target[c] \in Calls /\ jobs[Target[c]].state = "running"
            THEN [jobs EXCEPT ![Target[c]].state = "aborted"] ELSE jobs

Handle(req, open) ==
  LET c == req.id IN
  IF jobs[c].state # "none"
    THEN /\ Reply(open, Frame(c, req.of, "duplicate"))
         /\ UNCHANGED jobs
  ELSE IF Target[c] # NoCall
    THEN /\ CancelJob(c)
         /\ Reply(open, Frame(c, req.of, "result"))
  ELSE /\ jobs' = [jobs EXCEPT ![c] = [state |-> "running", open |-> open, of |-> req.of]]
       /\ UNCHANGED toClient

HandleRequest ==
  /\ conn /\ toServer # <<>>
  /\ Handle(Head(toServer), TRUE)
  /\ toServer' = Tail(toServer)
  /\ UNCHANGED <<bridgeVars, conn, breaks, server, stale>>

\* A request whose connection is gone by the time it is read.
HandleStale ==
  /\ server /\ stale # <<>>
  /\ Handle(Head(stale), FALSE)
  /\ stale' = Tail(stale)
  /\ UNCHANGED <<bridgeVars, toServer, conn, breaks, server>>

\* Bound: at most one progress frame of a job is under way.
Progress(c) ==
  /\ server /\ jobs[c].state # "none" /\ jobs[c].open
  /\ \A i \in 1 .. Len(toClient) : toClient[i].id # c
  /\ toClient' = Append(toClient, Frame(c, jobs[c].of, "progress"))
  /\ UNCHANGED <<bridgeVars, toServer, conn, breaks, serverVars>>

\* Mutant: no finally.
FinishKeepsJob(c) ==
  /\ server /\ jobs[c].state # "none"
  /\ Reply(jobs[c].open, Frame(c, jobs[c].of, "result"))
  /\ UNCHANGED <<bridgeVars, toServer, conn, breaks, server, stale, jobs>>

\* The handler returns or throws; an aborted one may do either, or throw the
\* AbortError that is answered as cancelled.  The job leaves the registry in
\* the same turn of the event loop.
Finish(c) ==
  /\ server /\ jobs[c].state # "none"
  /\ \E kind \in {"result", "error"}
                   \cup (IF jobs[c].state = "aborted" THEN {"cancelled"} ELSE {}) :
       Reply(jobs[c].open, Frame(c, jobs[c].of, kind))
  /\ jobs' = [jobs EXCEPT ![c] = NoJob]
  /\ UNCHANGED <<bridgeVars, toServer, conn, breaks, server, stale>>

-----------------------------------------------------------------------------
(* The processes                                                           *)

\* The jobs end with the process; the bridge will see the socket close, the
\* new process may listen before that.
ServerExit ==
  /\ "crash" \in Faults /\ server /\ breaks < MaxBreaks
  /\ breaks' = breaks + 1
  /\ server' = FALSE /\ conn' = FALSE
  /\ stale' = <<>>
  /\ jobs' = [c \in Calls |-> NoJob]
  /\ UNCHANGED <<bridgeVars, toServer, toClient>>

ServerStart ==
  /\ ~server
  /\ server' = TRUE
  /\ UNCHANGED <<bridgeVars, wireVars, stale, jobs>>

\* The application is gone with all its state; the next run counts ids anew
\* and connects to the server it finds.
AppRestart ==
  /\ "restart" \in Faults /\ app < MaxRestarts
  /\ app' = app + 1
  /\ cpc' = [c \in Calls |-> "idle"]
  /\ sender' = [c \in Calls |-> FALSE]
  /\ pending' = {} /\ refs' = {}
  /\ slot' = [c \in Calls |-> NoAnswer]
  /\ link' = "off"
  /\ Disconnect
  /\ UNCHANGED <<breaks, server>>

-----------------------------------------------------------------------------
CallStep(c) ==
  Register(c) \/ Label(c) \/ Send(c) \/ GiveUp(c) \/ Receive(c)

LoopStep ==
  Connect \/ ConnectFails \/ Break \/ ClearOut \/ FailRefs \/ FailPending

ReadFrame == Emit \/ Deliver

ServerStep == HandleRequest \/ HandleStale

Next ==
  \/ \E c \in Calls : Begin(c) \/ CallStep(c) \/ Timeout(c) \/ Progress(c) \/ Finish(c)
  \/ LoopStep \/ ReadFrame \/ ServerStep
  \/ ServerExit \/ ServerStart \/ AppRestart

Spec == Init /\ [][Next]_vars

\* Tasks run, the loop goes on for ever, sockets deliver, every handler ends,
\* and a process that ended is started again.  No fairness of Timeout: an
\* answer must not depend on it.
Fairness ==
  /\ \A c \in Calls : WF_vars(CallStep(c)) /\ WF_vars(Finish(c))
  /\ WF_vars(Connect) /\ WF_vars(ConnectFails /\ ~server) /\ WF_vars(Break /\ ~conn)
  /\ WF_vars(ClearOut \/ FailRefs \/ FailPending)
  /\ WF_vars(ReadFrame) /\ WF_vars(HandleRequest) /\ WF_vars(HandleStale)
  /\ WF_vars(ServerStart)

FairSpec == Spec /\ Fairness

-----------------------------------------------------------------------------
Ids(q) == {q[i].id : i \in 1 .. Len(q)}

\* The ids of the final frames of a queue.
Finals(q) == {q[i].id : i \in {j \in 1 .. Len(q) : q[j].kind # "progress"}}

\* The calls a final frame is under way for.
Answering == Finals(toClient)

Running == {c \in Calls : jobs[c].state # "none" /\ jobs[c].open}

\* A call that is over leaves nothing in the maps, however its timeout, the
\* answer, the loss of the connection and the failed send fell together.
NoLeak ==
  \A c \in pending \cup refs : cpc[c] \in {"label", "send", "waiting", "unsent"}

\* A call that waits is never forgotten: it has its answer, or its entry is
\* there and the connection holds its request, its job or its answer, or the
\* loop has still to fail it.
NoLostWaiter ==
  \A c \in Calls : cpc[c] = "waiting" /\ slot[c] = NoAnswer =>
    /\ c \in pending
    /\ \/ link \in {"down", "nosender", "norefs"}
       \/ link = "up" /\ ~conn
       \/ link = "up" /\ c \in Ids(toServer) \cup Running \cup Answering

\* A call that waits has one way to be answered, and one that is over has none.
WaiterPerCall == NoLeak /\ NoLostWaiter

\* What a call gets is the answer to its own request, also when an earlier run
\* of the application left a job with the same id.
OwnAnswer == \A c \in Calls : slot[c] # NoAnswer => slot[c].of = app

\* One final frame per request: none is under way for a call that was given
\* its answer or has its job still running.
OneFinalFrame ==
  /\ \A i, j \in 1 .. Len(toClient) :
       toClient[i].id = toClient[j].id /\ toClient[i].kind # "progress" => j <= i
  /\ \A c \in Answering :
       slot[c] = NoAnswer /\ c \notin Running /\ c \notin Ids(toServer)

\* A progress frame of a call in flight carries the label its caller filters by.
ProgressIsLabelled ==
  [][Emit => LET c == Head(toClient).id IN cpc[c] = "waiting" => c \in refs]_vars

\* Every call ends without the help of its timeout, or with its application.
EveryCallEnds ==
  \A c \in Calls :
    cpc[c] = "register" ~> cpc[c] \in {"idle", "answered", "failed", "timedout"}
=============================================================================
