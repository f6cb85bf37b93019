---------------------------- MODULE RpcBridgeProofs ----------------------------
(***************************************************************************)
(* Theorems about RpcBridge, for any calls, cancellations, faults and      *)
(* bounds: TypeOK, WaiterPerCall, OwnAnswer, OneFinalFrame, and that       *)
(* progress carries its label.                                             *)
(***************************************************************************)
EXTENDS RpcBridge, TLAPS

\* Only a connection in use carries anything.
Quiet ==
  link # "up" =>
    /\ toServer = <<>> /\ toClient = <<>> /\ ~conn
    /\ \A c \in Calls : ~sender[c] /\ ~jobs[c].open

\* Whatever the connection carries belongs to a call that was sent, in this
\* run of the application.
Sent ==
  /\ \A c \in Ids(toServer) \cup Running \cup Answering :
       cpc[c] \in {"waiting", "answered", "failed", "timedout"}
  /\ toServer \in Seq([id : Calls, of : {app}])
  /\ toClient \in Seq([id : Calls, of : {app}, kind : Kinds])
  /\ \A c \in Calls : jobs[c].open => jobs[c].of = app

\* The entries of the maps, and the oneshots, follow the task of their call.
Entries ==
  \A c \in Calls :
    /\ c \in pending => cpc[c] \in {"label", "send", "waiting", "unsent"}
    /\ c \in refs => cpc[c] \in {"send", "waiting", "unsent"}
    /\ cpc[c] \in {"idle", "register"} => slot[c] = NoAnswer
    /\ cpc[c] \in {"label", "send", "waiting"} /\ slot[c] = NoAnswer => c \in pending
    /\ slot[c] # NoAnswer => slot[c].of = app /\ c \notin pending
    /\ cpc[c] = "waiting" /\ (slot[c] # NoAnswer \/ link = "norefs") => c \notin refs
    /\ cpc[c] \in {"register", "label", "send"} /\ sender[c] => slot[c] = NoAnswer

BridgeInv == TypeOK /\ Quiet /\ Sent /\ Entries /\ NoLostWaiter

\* A queue with one request per id, and one where nothing follows a final frame.
Distinct(q) == \A i, j \in 1 .. Len(q) : q[i].id = q[j].id => i = j
Ordered(q) ==
  \A i, j \in 1 .. Len(q) : q[i].id = q[j].id /\ q[i].kind # "progress" => j <= i

\* What the connection holds of a call: its request, its job or frames of it.
Held == Ids(toServer) \cup Running \cup Ids(toClient)

\* A call is in one of these stages at a time, in their order, and as long as
\* it is in one nobody has answered it or taken its label.
Staged ==
  /\ Distinct(toServer) /\ Ordered(toClient)
  /\ Ids(toServer) \cap (Running \cup Ids(toClient)) = {}
  /\ Running \cap Answering = {}
  /\ \A c \in Ids(toClient) : cpc[c] \in {"waiting", "answered", "failed", "timedout"}
  /\ \A c \in Held : slot[c] = NoAnswer /\ (cpc[c] = "waiting" => c \in refs)
  /\ \A c \in Calls : cpc[c] = "send" /\ sender[c] => c \in refs

-----------------------------------------------------------------------------
(* Queues                                                                  *)

LEMMA IdsAppend ==
  ASSUME NEW S, NEW q \in Seq(S), NEW r \in S
  PROVE  Ids(Append(q, r)) = Ids(q) \cup {r.id}
<1>1. /\ Len(Append(q, r)) = Len(q) + 1
      /\ \A i \in 1 .. Len(q) : Append(q, r)[i] = q[i]
      /\ Append(q, r)[Len(q) + 1] = r
      /\ Len(q) \in Nat
  OBVIOUS
<1> QED BY <1>1 DEF Ids

LEMMA IdsTail ==
  ASSUME NEW S, NEW q \in Seq(S), q # <<>>
  PROVE  Ids(q) = Ids(Tail(q)) \cup {Head(q).id}
<1>1. /\ Len(Tail(q)) = Len(q) - 1 /\ Len(q) \in Nat \ {0}
      /\ \A i \in 1 .. Len(q) - 1 : Tail(q)[i] = q[i + 1]
      /\ Head(q) = q[1]
  OBVIOUS
<1>2. \A i \in 2 .. Len(q) : i - 1 \in 1 .. Len(Tail(q)) /\ Tail(q)[i - 1] = q[i]
  BY <1>1
<1>3. \A i \in 1 .. Len(Tail(q)) : i + 1 \in 1 .. Len(q) /\ Tail(q)[i] = q[i + 1]
  BY <1>1
<1>4. \A x \in Ids(q) : x \in Ids(Tail(q)) \cup {Head(q).id}
  BY <1>1, <1>2 DEF Ids
<1>5. \A x \in Ids(Tail(q)) \cup {Head(q).id} : x \in Ids(q)
  BY <1>1, <1>3 DEF Ids
<1> QED BY <1>4, <1>5

LEMMA FinalsAppend ==
  ASSUME NEW S, NEW q \in Seq(S), NEW f \in S
  PROVE  Finals(Append(q, f)) =
           IF f.kind = "progress" THEN Finals(q) ELSE Finals(q) \cup {f.id}
<1>1. /\ Len(Append(q, f)) = Len(q) + 1
      /\ \A i \in 1 .. Len(q) : Append(q, f)[i] = q[i]
      /\ Append(q, f)[Len(q) + 1] = f
      /\ Len(q) \in Nat
  OBVIOUS
<1> QED BY <1>1 DEF Finals

LEMMA FinalsTail ==
  ASSUME NEW S, NEW q \in Seq(S), q # <<>>
  PROVE  Finals(q) =
           IF Head(q).kind = "progress" THEN Finals(Tail(q))
           ELSE Finals(Tail(q)) \cup {Head(q).id}
<1>1. /\ Len(Tail(q)) = Len(q) - 1 /\ Len(q) \in Nat \ {0}
      /\ \A i \in 1 .. Len(q) - 1 : Tail(q)[i] = q[i + 1]
      /\ Head(q) = q[1]
  OBVIOUS
<1>2. \A i \in 2 .. Len(q) : i - 1 \in 1 .. Len(Tail(q)) /\ Tail(q)[i - 1] = q[i]
  BY <1>1
<1>3. \A i \in 1 .. Len(Tail(q)) : i + 1 \in 1 .. Len(q) /\ Tail(q)[i] = q[i + 1]
  BY <1>1
<1>4. ASSUME NEW x \in Finals(q)
      PROVE  x \in Finals(Tail(q)) \/ (Head(q).kind # "progress" /\ x = Head(q).id)
  <2> PICK i \in 1 .. Len(q) : q[i].kind # "progress" /\ x = q[i].id
    BY DEF Finals
  <2>1. CASE i = 1
    BY <2>1, <1>1
  <2>2. CASE i # 1
    <3>1. i - 1 \in {j \in 1 .. Len(Tail(q)) : Tail(q)[j].kind # "progress"}
      BY <2>2, <1>1, <1>2
    <3>2. x = Tail(q)[i - 1].id
      BY <2>2, <1>1, <1>2
    <3> QED BY <3>1, <3>2 DEF Finals
  <2> QED BY <2>1, <2>2
<1>5. \A x \in Finals(Tail(q)) : x \in Finals(q)
  BY <1>3 DEF Finals
<1>6. Head(q).kind # "progress" => Head(q).id \in Finals(q)
  BY <1>1 DEF Finals
<1> QED BY <1>4, <1>5, <1>6

-----------------------------------------------------------------------------
(* Type correctness                                                        *)

LEMMA SeqFacts ==
  ASSUME NEW S
  PROVE  /\ <<>> \in Seq(S)
         /\ \A q \in Seq(S), x \in S : Append(q, x) \in Seq(S)
         /\ \A q \in Seq(S) : q # <<>> => Head(q) \in S /\ Tail(q) \in Seq(S)
OBVIOUS

LEMMA Empties == NoJob \in Jobs /\ NoAnswer \in Answers
BY BridgeAssumption DEF NoJob, NoAnswer, Jobs, Answers, Apps

LEMMA BridgeInitType == Init => TypeOK
<1> SUFFICES ASSUME Init PROVE TypeOK
  OBVIOUS
<1>1. toServer \in Seq(Requests) /\ toClient \in Seq(Frames) /\ stale \in Seq(Requests)
  BY DEF Init
<1>2. jobs \in [Calls -> Jobs] /\ slot \in [Calls -> Answers]
  BY Empties DEF Init
<1>3. app \in Apps /\ breaks \in 0 .. MaxBreaks
  BY BridgeAssumption DEF Init, Apps
<1>4. /\ sender \in [Calls -> BOOLEAN] /\ pending \subseteq Calls /\ refs \subseteq Calls
      /\ conn \in BOOLEAN /\ server \in BOOLEAN
  BY DEF Init
<1>5. /\ cpc \in [Calls -> {"idle"}] /\ link = "off"
  BY DEF Init
<1> QED BY <1>1, <1>2, <1>3, <1>4, <1>5 DEF TypeOK

LEMMA DisconnectType ==
  ASSUME TypeOK, Disconnect
  PROVE  /\ toServer' \in Seq(Requests) /\ toClient' \in Seq(Frames)
         /\ conn' \in BOOLEAN /\ stale' \in Seq(Requests)
         /\ jobs' \in [Calls -> Jobs]
<1>1. \A n \in 0 .. Len(toServer) : SubSeq(toServer, 1, n) \in Seq(Requests)
  BY DEF TypeOK
<1>2. stale' \in Seq(Requests)
  BY <1>1 DEF Disconnect, TypeOK
<1>3. \A c \in Calls : Orphan(jobs[c]) \in Jobs
  BY DEF TypeOK, Orphan, Jobs
<1>4. jobs' \in [Calls -> Jobs]
  BY <1>3 DEF Disconnect
<1>5. toServer' = <<>> /\ toClient' = <<>> /\ conn' = FALSE
  BY DEF Disconnect
<1> QED BY <1>2, <1>4, <1>5, SeqFacts

LEMMA HandleType ==
  ASSUME TypeOK, NEW req \in Requests, NEW open \in BOOLEAN, Handle(req, open)
  PROVE  toClient' \in Seq(Frames) /\ jobs' \in [Calls -> Jobs]
<1> DEFINE c == req.id
<1>1. c \in Calls /\ req.of \in Apps
  BY DEF Requests
<1>2. \A kind \in Kinds : Frame(c, req.of, kind) \in Frames
  BY <1>1 DEF Frame, Frames
<1>3. \A f \in Frames : Reply(open, f) => toClient' \in Seq(Frames)
  BY DEF Reply, TypeOK
<1>4. CASE jobs[c].state # "none"
  BY <1>2, <1>3, <1>4 DEF Handle, Kinds, TypeOK
<1>5. CASE jobs[c].state = "none" /\ Target[c] # NoCall
  <2>1. Reply(open, Frame(c, req.of, "result")) /\ CancelJob(c)
    BY <1>5 DEF Handle
  <2>2. jobs' \in [Calls -> Jobs]
    BY <2>1 DEF CancelJob, TypeOK, Jobs
  <2> QED BY <1>2, <1>3, <2>1, <2>2 DEF Kinds
<1>6. CASE jobs[c].state = "none" /\ Target[c] = NoCall
  BY <1>1, <1>6 DEF Handle, TypeOK, Jobs
<1> QED BY <1>4, <1>5, <1>6

LEMMA BridgeTypeStep == TypeOK /\ [Next]_vars => TypeOK'
<1> SUFFICES ASSUME TypeOK, [Next]_vars PROVE TypeOK'
  OBVIOUS
<1> USE BridgeAssumption
<1>1. ASSUME NEW c \in Calls, Begin(c) \/ CallStep(c) PROVE TypeOK'
  <2>0. [id |-> c, of |-> app] \in Requests
    BY DEF Requests, TypeOK
  <2>1. toServer' \in Seq(Requests)
    <3>1. CASE Send(c)
      <4>1. toServer' \in {toServer, Append(toServer, [id |-> c, of |-> app])}
        BY <3>1 DEF Send
      <4>2. toServer \in Seq(Requests)
        BY DEF TypeOK
      <4>3. Append(toServer, [id |-> c, of |-> app]) \in Seq(Requests)
        BY <2>0, <4>2, SeqFacts
      <4> QED BY <4>1, <4>2, <4>3
    <3>2. CASE ~Send(c)
      BY <1>1, <3>2
      DEF Begin, CallStep, Register, Label, GiveUp, Receive, TypeOK, wireVars
    <3> QED BY <3>1, <3>2
  <2> QED
    BY <1>1, <2>1
    DEF Begin, CallStep, Register, Label, Send, GiveUp, Receive, Goto, TypeOK,
      wireVars, serverVars
<1>2. ASSUME NEW c \in Calls, Timeout(c) PROVE TypeOK'
  BY <1>2 DEF Timeout, Goto, TypeOK, wireVars, serverVars
<1>3. ASSUME NEW c \in Calls, Progress(c) PROVE TypeOK'
  <2>1. Frame(c, jobs[c].of, "progress") \in Frames
    BY DEF Frame, Frames, Kinds, TypeOK, Jobs
  <2> QED
    BY <1>3, <2>1 DEF Progress, TypeOK, bridgeVars, serverVars
<1>4. ASSUME NEW c \in Calls, Finish(c) PROVE TypeOK'
  <2>1. \A kind \in Kinds : Frame(c, jobs[c].of, kind) \in Frames
    BY DEF Frame, Frames, Kinds, TypeOK, Jobs
  <2>2. toClient' \in Seq(Frames)
    BY <1>4, <2>1 DEF Finish, Reply, TypeOK, Kinds
  <2> QED
    BY <1>4, <2>2, Empties DEF Finish, TypeOK, bridgeVars
<1>5. CASE Connect
  BY <1>5 DEF Connect, TypeOK, serverVars
<1>6. CASE ConnectFails
  BY <1>6 DEF ConnectFails, TypeOK, serverVars
<1>7. CASE Break
  BY <1>7, DisconnectType DEF Break, TypeOK
<1>8. CASE ClearOut \/ FailRefs
  BY <1>8 DEF ClearOut, FailRefs, TypeOK, wireVars, serverVars
<1>9. CASE FailPending
  <2>1. [kind |-> "lost", of |-> app] \in Answers
    BY DEF Answers, TypeOK
  <2> QED
    BY <1>9, <2>1 DEF FailPending, TypeOK, wireVars, serverVars
<1>10. CASE Emit
  BY <1>10 DEF Emit, TypeOK, bridgeVars, serverVars
<1>11. CASE Deliver
  <2>1. Head(toClient) \in Frames /\ Tail(toClient) \in Seq(Frames)
    BY <1>11 DEF Deliver, TypeOK
  <2>2. [kind |-> Head(toClient).kind, of |-> Head(toClient).of] \in Answers
    BY <1>11, <2>1 DEF Deliver, Frames, Answers
  <2> QED
    BY <1>11, <2>1, <2>2 DEF Deliver, TypeOK, serverVars
<1>12. CASE HandleRequest
  <2>1. Head(toServer) \in Requests /\ Tail(toServer) \in Seq(Requests)
    BY <1>12 DEF HandleRequest, TypeOK
  <2>2. toClient' \in Seq(Frames) /\ jobs' \in [Calls -> Jobs]
    BY <1>12, <2>1, HandleType DEF HandleRequest
  <2> QED
    BY <1>12, <2>1, <2>2 DEF HandleRequest, TypeOK, bridgeVars
<1>13. CASE HandleStale
  <2>1. Head(stale) \in Requests /\ Tail(stale) \in Seq(Requests)
    BY <1>13 DEF HandleStale, TypeOK
  <2>2. toClient' \in Seq(Frames) /\ jobs' \in [Calls -> Jobs]
    BY <1>13, <2>1, HandleType DEF HandleStale
  <2> QED
    BY <1>13, <2>1, <2>2 DEF HandleStale, TypeOK, bridgeVars
<1>14. CASE ServerExit
  <2>1. jobs' \in [Calls -> Jobs] /\ stale' \in Seq(Requests)
    BY <1>14, Empties DEF ServerExit
  <2>2. UNCHANGED <<toServer, toClient>> /\ conn' = FALSE /\ server' = FALSE
    BY <1>14 DEF ServerExit
  <2>3. breaks' \in 0 .. MaxBreaks
    BY <1>14 DEF ServerExit, TypeOK
  <2>4. UNCHANGED bridgeVars
    BY <1>14 DEF ServerExit
  <2> QED
    BY <2>1, <2>2, <2>3, <2>4 DEF TypeOK, bridgeVars
<1>15. CASE ServerStart
  BY <1>15 DEF ServerStart, TypeOK, bridgeVars, wireVars
<1>16. CASE AppRestart
  <2>1. NoAnswer \in Answers /\ app' \in Apps
    BY <1>16 DEF AppRestart, NoAnswer, Answers, Apps, TypeOK
  <2> QED
    BY <1>16, <2>1, DisconnectType DEF AppRestart, TypeOK
<1>17. CASE UNCHANGED vars
  BY <1>17 DEF vars, bridgeVars, wireVars, serverVars, TypeOK
<1> QED
  BY <1>1, <1>2, <1>3, <1>4, <1>5, <1>6, <1>7, <1>8, <1>9, <1>10, <1>11, <1>12, <1>13,
     <1>14, <1>15, <1>16, <1>17
  DEF Next, LoopStep, ReadFrame, ServerStep

\* Every variable stays in its type, whatever fails and however often.
THEOREM BridgeTypeCorrect == Spec => []TypeOK
<1> QED BY BridgeInitType, BridgeTypeStep, PTL DEF Spec

-----------------------------------------------------------------------------
(* The inductive invariant                                                 *)

OwnRequests == [id : Calls, of : {app}]
OwnFrames == [id : Calls, of : {app}, kind : Kinds]

LEMMA BridgeInit == Init => BridgeInv
<1> SUFFICES ASSUME Init PROVE BridgeInv
  OBVIOUS
<1>1. Quiet
  BY DEF Init, Quiet, NoJob
<1>2. Sent
  <2>1. Ids(toServer) = {} /\ Running = {} /\ Answering = {}
    BY DEF Init, Ids, Running, Answering, Finals, NoJob
  <2> QED
    BY <2>1, SeqFacts DEF Init, Sent, NoJob
<1>3. Entries /\ NoLostWaiter
  BY DEF Init, Entries, NoLostWaiter
<1> QED BY <1>1, <1>2, <1>3, BridgeInitType DEF BridgeInv

\* Losing the connection leaves nothing that could reach the bridge.
LEMMA Disconnected ==
  ASSUME TypeOK, Disconnect
  PROVE  /\ toServer' = <<>> /\ toClient' = <<>> /\ ~conn'
         /\ \A c \in Calls : ~jobs'[c].open
         /\ Ids(toServer)' = {} /\ Running' = {} /\ Answering' = {}
<1>1. \A c \in Calls : ~Orphan(jobs[c]).open
  BY DEF Orphan, TypeOK, Jobs
<1>2. \A c \in Calls : ~jobs'[c].open
  BY <1>1 DEF Disconnect
<1>3. toServer' = <<>> /\ toClient' = <<>> /\ ~conn'
  BY DEF Disconnect
<1> QED BY <1>2, <1>3 DEF Ids, Running, Answering, Finals

LEMMA SameWire ==
  ASSUME UNCHANGED <<toServer, toClient, jobs>>
  PROVE  /\ Ids(toServer)' = Ids(toServer)
         /\ Running' = Running /\ Answering' = Answering
BY DEF Ids, Running, Answering, Finals

\* Whatever a connection or the registry speaks of is a call.
LEMMA OnCalls ==
  ASSUME TypeOK
  PROVE  Ids(toServer) \cup Running \cup Answering \subseteq Calls
<1>1. \A i \in 1 .. Len(toServer) : toServer[i] \in Requests
  BY DEF TypeOK
<1>2. \A i \in 1 .. Len(toClient) : toClient[i] \in Frames
  BY DEF TypeOK
<1> QED BY <1>1, <1>2 DEF Ids, Running, Answering, Finals, Requests, Frames

\* job.cancel leaves every job where it is, with its socket.
LEMMA CancelKeeps ==
  ASSUME TypeOK, NEW c \in Calls, CancelJob(c)
  PROVE  /\ Running' = Running
         /\ \A d \in Calls : /\ jobs'[d].open = jobs[d].open
                             /\ jobs'[d].of = jobs[d].of
<1>1. \A d \in Calls : /\ jobs'[d].open = jobs[d].open
                       /\ jobs'[d].of = jobs[d].of
                       /\ jobs'[d].state = "none" <=> jobs[d].state = "none"
  BY DEF CancelJob, TypeOK, Jobs
<1> QED BY <1>1 DEF Running

\* A request of the open connection becomes a job of that connection, or is
\* answered at once.
LEMMA Handled ==
  ASSUME BridgeInv, HandleRequest
  PROVE  LET c == Head(toServer).id IN
         /\ c \in Calls /\ c \in Ids(toServer)
         /\ Ids(toServer) = Ids(toServer') \cup {c}
         /\ toServer' \in Seq(OwnRequests) /\ toClient' \in Seq(OwnFrames)
         /\ Running' \cup Finals(toClient') = Running \cup Answering \cup {c}
         /\ Running \subseteq Running' /\ Answering \subseteq Finals(toClient')
         /\ \A d \in Calls : jobs'[d].open => jobs'[d].of = app
<1> DEFINE req == Head(toServer)
           c == req.id
<1> TypeOK /\ Sent
  BY DEF BridgeInv
<1>1. /\ toServer # <<>> /\ toServer \in Seq(OwnRequests) /\ toServer' = Tail(toServer)
      /\ Handle(req, TRUE)
  BY DEF HandleRequest, Sent, OwnRequests
<1>2. req \in OwnRequests /\ Tail(toServer) \in Seq(OwnRequests)
  BY <1>1, SeqFacts
<1>3. c \in Calls /\ req.of = app
  BY <1>2 DEF OwnRequests
<1>4. Ids(toServer) = Ids(toServer') \cup {c}
  BY <1>1, IdsTail
<1>5. toClient \in Seq(OwnFrames)
  BY DEF Sent, OwnFrames
<1>6. ASSUME NEW kind \in Kinds, kind # "progress", Reply(TRUE, Frame(c, req.of, kind))
      PROVE  toClient' \in Seq(OwnFrames) /\ Finals(toClient') = Answering \cup {c}
  <2>1. Frame(c, req.of, kind) \in OwnFrames
    BY <1>3 DEF Frame, OwnFrames
  <2>2. toClient' = Append(toClient, Frame(c, req.of, kind))
    BY <1>6 DEF Reply
  <2>3. Frame(c, req.of, kind).kind = kind /\ Frame(c, req.of, kind).id = c
    BY DEF Frame
  <2>4. Finals(toClient') = Finals(toClient) \cup {c}
    BY <1>5, <1>6, <2>1, <2>2, <2>3, FinalsAppend
  <2> QED BY <1>5, <2>1, <2>2, <2>4, SeqFacts DEF Answering
<1>7. CASE jobs[c].state # "none"
  <2>1. Reply(TRUE, Frame(c, req.of, "duplicate")) /\ jobs' = jobs
    BY <1>1, <1>7 DEF Handle
  <2>2. Running' = Running
    BY <2>1 DEF Running
  <2> QED BY <1>1, <1>2, <1>3, <1>4, <1>6, <2>1, <2>2 DEF Kinds, Sent
<1>8. CASE jobs[c].state = "none" /\ Target[c] # NoCall
  <2>1. Reply(TRUE, Frame(c, req.of, "result")) /\ CancelJob(c)
    BY <1>1, <1>8 DEF Handle
  <2> QED BY <1>1, <1>2, <1>3, <1>4, <1>6, <2>1, CancelKeeps DEF Kinds, Sent
<1>9. CASE jobs[c].state = "none" /\ Target[c] = NoCall
  <2>1. /\ jobs' = [jobs EXCEPT ![c] = [state |-> "running", open |-> TRUE, of |-> req.of]]
        /\ toClient' = toClient
    BY <1>1, <1>9 DEF Handle
  <2>2. Running' = Running \cup {c}
    BY <1>3, <2>1 DEF Running, TypeOK
  <2>3. \A d \in Calls : jobs'[d].open => jobs'[d].of = app
    BY <1>3, <2>1 DEF Sent, TypeOK
  <2> QED BY <1>1, <1>2, <1>3, <1>4, <1>5, <2>1, <2>2, <2>3 DEF Answering
<1> QED BY <1>7, <1>8, <1>9

LEMMA BridgeStep == BridgeInv /\ [Next]_vars => BridgeInv'
<1> SUFFICES ASSUME BridgeInv, [Next]_vars PROVE BridgeInv'
  OBVIOUS
<1> TypeOK /\ TypeOK'
  BY BridgeTypeStep DEF BridgeInv
<1>1. ASSUME NEW c \in Calls, Begin(c) PROVE BridgeInv'
  <2>1. UNCHANGED <<toServer, toClient, conn, server, jobs, app>>
    BY <1>1 DEF Begin, wireVars, serverVars
  <2>2. Quiet'
    BY <1>1, <2>1 DEF BridgeInv, Quiet, Begin, OutIsSome, TypeOK
  <2>3. Sent'
    <3>1. /\ cpc[c] = "idle"
          /\ \A d \in Calls \ {c} : cpc'[d] = cpc[d]
      BY <1>1 DEF Begin, Goto, TypeOK
    <3>2. c \notin Ids(toServer) \cup Running \cup Answering
      BY <3>1 DEF BridgeInv, Sent
    <3>3. Ids(toServer) \cup Running \cup Answering \subseteq Calls
      BY OnCalls DEF BridgeInv
    <3> QED BY <2>1, <3>1, <3>2, <3>3, SameWire DEF BridgeInv, Sent
  <2>4. Entries'
    BY <1>1, <2>1 DEF BridgeInv, Entries, Begin, Goto, TypeOK
  <2>5. NoLostWaiter'
    BY <1>1, <2>1, SameWire DEF BridgeInv, Entries, NoLostWaiter, Begin, Goto, TypeOK
  <2> QED BY <2>2, <2>3, <2>4, <2>5 DEF BridgeInv
<1>2. ASSUME NEW c \in Calls, Register(c) PROVE BridgeInv'
  <2>1. UNCHANGED <<toServer, toClient, conn, server, jobs, app>>
    BY <1>2 DEF Register, wireVars, serverVars
  <2>2. Quiet'
    BY <1>2, <2>1 DEF BridgeInv, Quiet, Register
  <2>3. Sent'
    BY <1>2, <2>1, SameWire DEF BridgeInv, Sent, Register, Goto
  <2>4. Entries'
    BY <1>2, <2>1 DEF BridgeInv, Entries, Register, Goto, TypeOK
  <2>5. NoLostWaiter'
    BY <1>2, <2>1, SameWire DEF BridgeInv, Entries, NoLostWaiter, Register, Goto, TypeOK
  <2> QED BY <2>2, <2>3, <2>4, <2>5 DEF BridgeInv
<1>3. ASSUME NEW c \in Calls, Label(c) PROVE BridgeInv'
  <2>1. UNCHANGED <<toServer, toClient, conn, server, jobs, app>>
    BY <1>3 DEF Label, wireVars, serverVars
  <2>2. Quiet'
    BY <1>3, <2>1 DEF BridgeInv, Quiet, Label
  <2>3. Sent'
    BY <1>3, <2>1, SameWire DEF BridgeInv, Sent, Label, Goto
  <2>4. Entries'
    BY <1>3, <2>1 DEF BridgeInv, Entries, Label, Goto, TypeOK
  <2>5. NoLostWaiter'
    BY <1>3, <2>1, SameWire DEF BridgeInv, Entries, NoLostWaiter, Label, Goto, TypeOK
  <2> QED BY <2>2, <2>3, <2>4, <2>5 DEF BridgeInv
<1>4. ASSUME NEW c \in Calls, GiveUp(c) PROVE BridgeInv'
  <2>1. UNCHANGED <<toServer, toClient, conn, server, jobs, app>>
    BY <1>4 DEF GiveUp, wireVars, serverVars
  <2>2. Quiet'
    BY <1>4, <2>1 DEF BridgeInv, Quiet, GiveUp
  <2>3. Sent'
    BY <1>4, <2>1, SameWire DEF BridgeInv, Sent, GiveUp, Goto
  <2>4. Entries'
    BY <1>4, <2>1 DEF BridgeInv, Entries, GiveUp, Goto, TypeOK
  <2>5. NoLostWaiter'
    BY <1>4, <2>1, SameWire DEF BridgeInv, Entries, NoLostWaiter, GiveUp, Goto, TypeOK
  <2> QED BY <2>2, <2>3, <2>4, <2>5 DEF BridgeInv
<1>5. ASSUME NEW c \in Calls, Receive(c) PROVE BridgeInv'
  <2>1. UNCHANGED <<toServer, toClient, conn, server, jobs, app>>
    BY <1>5 DEF Receive, wireVars, serverVars
  <2>2. Quiet'
    BY <1>5, <2>1 DEF BridgeInv, Quiet, Receive
  <2>3. Sent'
    BY <1>5, <2>1, SameWire DEF BridgeInv, Sent, Receive, Goto
  <2>4. Entries'
    BY <1>5, <2>1 DEF BridgeInv, Entries, Receive, Goto, TypeOK
  <2>5. NoLostWaiter'
    BY <1>5, <2>1, SameWire DEF BridgeInv, Entries, NoLostWaiter, Receive, Goto, TypeOK
  <2> QED BY <2>2, <2>3, <2>4, <2>5 DEF BridgeInv
<1>6. ASSUME NEW c \in Calls, Timeout(c) PROVE BridgeInv'
  <2>1. UNCHANGED <<toServer, toClient, conn, server, jobs, app>>
    BY <1>6 DEF Timeout, wireVars, serverVars
  <2>2. Quiet'
    BY <1>6, <2>1 DEF BridgeInv, Quiet, Timeout
  <2>3. Sent'
    BY <1>6, <2>1, SameWire DEF BridgeInv, Sent, Timeout, Goto
  <2>4. Entries'
    BY <1>6, <2>1 DEF BridgeInv, Entries, Timeout, Goto, TypeOK
  <2>5. NoLostWaiter'
    BY <1>6, <2>1, SameWire DEF BridgeInv, Entries, NoLostWaiter, Timeout, Goto, TypeOK
  <2> QED BY <2>2, <2>3, <2>4, <2>5 DEF BridgeInv
<1>7. CASE Connect
  <2>1. UNCHANGED <<toServer, toClient, server, jobs, app>>
    BY <1>7 DEF Connect, wireVars, serverVars
  <2>2. Quiet'
    BY <1>7, <2>1 DEF BridgeInv, Quiet, Connect
  <2>3. Sent'
    BY <1>7, <2>1, SameWire DEF BridgeInv, Sent, Connect
  <2>4. Entries'
    BY <1>7, <2>1 DEF BridgeInv, Entries, Connect, TypeOK
  <2>5. NoLostWaiter'
    BY <1>7, <2>1, SameWire DEF BridgeInv, Entries, NoLostWaiter, Connect, TypeOK
  <2> QED BY <2>2, <2>3, <2>4, <2>5 DEF BridgeInv
<1>8. CASE ConnectFails
  <2>1. UNCHANGED <<toServer, toClient, conn, server, jobs, app>>
    BY <1>8 DEF ConnectFails, wireVars, serverVars
  <2>2. Quiet'
    BY <1>8, <2>1 DEF BridgeInv, Quiet, ConnectFails
  <2>3. Sent'
    BY <1>8, <2>1, SameWire DEF BridgeInv, Sent, ConnectFails
  <2>4. Entries'
    BY <1>8, <2>1 DEF BridgeInv, Entries, ConnectFails, TypeOK
  <2>5. NoLostWaiter'
    BY <1>8, <2>1, SameWire DEF BridgeInv, Entries, NoLostWaiter, ConnectFails, TypeOK
  <2> QED BY <2>2, <2>3, <2>4, <2>5 DEF BridgeInv
<1>9. CASE ClearOut
  <2>1. UNCHANGED <<toServer, toClient, conn, server, jobs, app>>
    BY <1>9 DEF ClearOut, wireVars, serverVars
  <2>2. Quiet'
    BY <1>9, <2>1 DEF BridgeInv, Quiet, ClearOut
  <2>3. Sent'
    BY <1>9, <2>1, SameWire DEF BridgeInv, Sent, ClearOut
  <2>4. Entries'
    BY <1>9, <2>1 DEF BridgeInv, Entries, ClearOut, TypeOK
  <2>5. NoLostWaiter'
    BY <1>9, <2>1, SameWire DEF BridgeInv, Entries, NoLostWaiter, ClearOut, TypeOK
  <2> QED BY <2>2, <2>3, <2>4, <2>5 DEF BridgeInv
<1>10. CASE FailRefs
  <2>1. UNCHANGED <<toServer, toClient, conn, server, jobs, app>>
    BY <1>10 DEF FailRefs, wireVars, serverVars
  <2>2. Quiet'
    BY <1>10, <2>1 DEF BridgeInv, Quiet, FailRefs
  <2>3. Sent'
    BY <1>10, <2>1, SameWire DEF BridgeInv, Sent, FailRefs
  <2>4. Entries'
    BY <1>10, <2>1 DEF BridgeInv, Entries, FailRefs, TypeOK
  <2>5. NoLostWaiter'
    BY <1>10, <2>1, SameWire DEF BridgeInv, Entries, NoLostWaiter, FailRefs, TypeOK
  <2> QED BY <2>2, <2>3, <2>4, <2>5 DEF BridgeInv
<1>11. CASE FailPending
  <2>1. UNCHANGED <<toServer, toClient, conn, server, jobs, app>>
    BY <1>11 DEF FailPending, wireVars, serverVars
  <2>2. Quiet'
    BY <1>11, <2>1 DEF BridgeInv, Quiet, FailPending
  <2>3. Sent'
    BY <1>11, <2>1, SameWire DEF BridgeInv, Sent, FailPending
  <2>4. Entries'
    <3>1. [kind |-> "lost", of |-> app] # NoAnswer
      BY DEF NoAnswer
    <3>2. /\ \A c \in pending : slot'[c] = [kind |-> "lost", of |-> app]
          /\ \A c \in Calls \ pending : slot'[c] = slot[c]
          /\ pending' = {} /\ link = "norefs" /\ link' = "off"
          /\ UNCHANGED <<cpc, sender, refs>>
      BY <1>11 DEF FailPending, TypeOK
    <3> SUFFICES ASSUME NEW c \in Calls
                 PROVE  Entries!(c)'
      BY DEF Entries
    <3> QED BY <2>1, <3>1, <3>2 DEF BridgeInv, Entries, Quiet
  <2>5. NoLostWaiter'
    BY <1>11, <2>1, SameWire
    DEF BridgeInv, Entries, NoLostWaiter, FailPending, TypeOK, NoAnswer
  <2> QED BY <2>2, <2>3, <2>4, <2>5 DEF BridgeInv
<1>12. ASSUME NEW c \in Calls, Send(c) PROVE BridgeInv'
  <2>1. CASE ~sender[c]
    <3>1. UNCHANGED <<toServer, toClient, conn, server, jobs, app>>
      BY <1>12, <2>1 DEF Send, serverVars
    <3>2. Quiet'
      BY <1>12, <3>1 DEF BridgeInv, Quiet, Send
    <3>3. Sent'
      <4>1. /\ cpc[c] = "send"
            /\ \A d \in Calls \ {c} : cpc'[d] = cpc[d]
        BY <1>12, <2>1 DEF Send, Goto, TypeOK
      <4>2. c \notin Ids(toServer) \cup Running \cup Answering
        BY <4>1 DEF BridgeInv, Sent
      <4>3. Ids(toServer) \cup Running \cup Answering \subseteq Calls
        BY OnCalls DEF BridgeInv
      <4> QED BY <3>1, <4>1, <4>2, <4>3, SameWire DEF BridgeInv, Sent
    <3>4. Entries' /\ NoLostWaiter'
      BY <1>12, <2>1, <3>1, SameWire
      DEF BridgeInv, Entries, NoLostWaiter, Send, Goto, TypeOK
    <3> QED BY <3>2, <3>3, <3>4 DEF BridgeInv
  <2>2. CASE sender[c]
    <3>1. link = "up"
      BY <2>2 DEF BridgeInv, Quiet
    <3>2. /\ toServer' = Append(toServer, [id |-> c, of |-> app])
          /\ cpc' = [cpc EXCEPT ![c] = "waiting"]
          /\ UNCHANGED <<sender, pending, refs, slot, link, app, toClient, conn, server, jobs>>
      BY <1>12, <2>2 DEF Send, Goto, serverVars
    <3>3. [id |-> c, of |-> app] \in OwnRequests /\ toServer \in Seq(OwnRequests)
      BY DEF BridgeInv, Sent, OwnRequests
    <3>4. Ids(toServer') = Ids(toServer) \cup {c} /\ toServer' \in Seq(OwnRequests)
      BY <3>2, <3>3, IdsAppend, SeqFacts
    <3>5. Running' = Running /\ Answering' = Answering
      BY <3>2 DEF Running, Answering, Finals
    <3>6. Quiet'
      BY <3>1, <3>2 DEF Quiet
    <3>7. Sent'
      BY <3>2, <3>4, <3>5 DEF BridgeInv, Sent, OwnRequests, TypeOK
    <3>8. Entries'
      <4>1. cpc[c] = "send" /\ cpc'[c] = "waiting" /\ slot[c] = NoAnswer
        BY <1>12, <2>2, <3>2 DEF BridgeInv, Entries, Send, TypeOK
      <4>2. \A d \in Calls \ {c} : cpc'[d] = cpc[d]
        BY <3>2 DEF TypeOK
      <4> SUFFICES ASSUME NEW d \in Calls
                   PROVE  Entries!(d)'
        BY DEF Entries
      <4> QED BY <3>1, <3>2, <4>1, <4>2 DEF BridgeInv, Entries
    <3>9. NoLostWaiter'
      BY <1>12, <3>1, <3>2, <3>4, <3>5 DEF BridgeInv, Entries, NoLostWaiter, Send, TypeOK
    <3> QED BY <3>6, <3>7, <3>8, <3>9 DEF BridgeInv
  <2> QED BY <2>1, <2>2
<1>13. CASE Break
  <2>1. /\ toServer' = <<>> /\ toClient' = <<>> /\ ~conn'
        /\ \A c \in Calls : ~jobs'[c].open
        /\ Ids(toServer)' = {} /\ Running' = {} /\ Answering' = {}
    BY <1>13, Disconnected DEF Break
  <2>2. /\ link' = "down" /\ sender' = [c \in Calls |-> FALSE]
        /\ UNCHANGED <<cpc, pending, refs, slot, app>>
    BY <1>13 DEF Break
  <2>3. Quiet'
    BY <2>1, <2>2 DEF Quiet
  <2>4. Sent'
    BY <2>1, <2>2, SeqFacts DEF Sent
  <2>5. Entries' /\ NoLostWaiter'
    BY <2>2 DEF BridgeInv, Entries, NoLostWaiter
  <2> QED BY <2>3, <2>4, <2>5 DEF BridgeInv
<1>14. CASE AppRestart
  <2>1. /\ toServer' = <<>> /\ toClient' = <<>> /\ ~conn'
        /\ \A c \in Calls : ~jobs'[c].open
        /\ Ids(toServer)' = {} /\ Running' = {} /\ Answering' = {}
    BY <1>14, Disconnected DEF AppRestart
  <2>2. /\ link' = "off" /\ pending' = {} /\ refs' = {}
        /\ \A c \in Calls : ~sender'[c] /\ cpc'[c] = "idle" /\ slot'[c] = NoAnswer
    BY <1>14 DEF AppRestart
  <2>3. Quiet'
    BY <2>1, <2>2 DEF Quiet
  <2>4. Sent'
    BY <2>1, SeqFacts DEF Sent
  <2>5. Entries' /\ NoLostWaiter'
    BY <2>2 DEF Entries, NoLostWaiter
  <2> QED BY <2>3, <2>4, <2>5 DEF BridgeInv
<1>15. CASE Emit
  <2>1. toClient \in Seq(OwnFrames) /\ toClient # <<>> /\ toClient' = Tail(toClient)
    BY <1>15 DEF BridgeInv, Sent, OwnFrames, Emit
  <2>2. toClient' \in Seq(OwnFrames) /\ Answering' = Answering
    BY <1>15, <2>1, FinalsTail, SeqFacts DEF Emit, Answering
  <2>3. /\ UNCHANGED <<cpc, sender, pending, refs, slot, link, app, toServer, conn, server, jobs>>
        /\ link = "up"
    BY <1>15 DEF Emit, bridgeVars, serverVars
  <2>4. Ids(toServer)' = Ids(toServer) /\ Running' = Running
    BY <2>3 DEF Ids, Running
  <2> QED
    BY <2>2, <2>3, <2>4 DEF BridgeInv, Quiet, Sent, OwnFrames, Entries, NoLostWaiter
<1>16. CASE Deliver
  <2> DEFINE f == Head(toClient)
  <2>1. toClient \in Seq(OwnFrames) /\ toClient # <<>> /\ toClient' = Tail(toClient)
    BY <1>16 DEF BridgeInv, Sent, OwnFrames, Deliver
  <2>2. f \in OwnFrames /\ toClient' \in Seq(OwnFrames) /\ f.kind # "progress"
    BY <1>16, <2>1, SeqFacts DEF Deliver
  <2>3. Answering = Answering' \cup {f.id}
    BY <2>1, <2>2, FinalsTail DEF Answering
  <2>4. /\ UNCHANGED <<cpc, sender, link, app, toServer, conn, server, jobs>>
        /\ link = "up"
        /\ refs' = refs \ {f.id} /\ pending' = pending \ {f.id}
        /\ slot' = IF f.id \in pending
                     THEN [slot EXCEPT ![f.id] = [kind |-> f.kind, of |-> f.of]] ELSE slot
    BY <1>16 DEF Deliver, serverVars
  <2>5. Ids(toServer)' = Ids(toServer) /\ Running' = Running
    BY <2>4 DEF Ids, Running
  <2>6. f.id \in Calls /\ f.of = app /\ f.kind \in Kinds
    BY <2>2 DEF OwnFrames
  <2>7. cpc[f.id] \in {"waiting", "answered", "failed", "timedout"}
    BY <2>3 DEF BridgeInv, Sent
  <2>8. /\ \A c \in Calls \ {f.id} : slot'[c] = slot[c]
        /\ f.id \in pending => slot'[f.id] = [kind |-> f.kind, of |-> f.of]
        /\ f.id \notin pending => slot'[f.id] = slot[f.id]
    BY <2>4, <2>6 DEF TypeOK
  <2>9. [kind |-> f.kind, of |-> f.of] # NoAnswer
    BY <2>6 DEF NoAnswer, Kinds
  <2>10. Quiet' /\ Sent'
    BY <2>2, <2>3, <2>4, <2>5 DEF BridgeInv, Quiet, Sent, OwnFrames
  <2>11. Entries'
    BY <2>4, <2>6, <2>7, <2>8, <2>9 DEF BridgeInv, Entries
  <2>12. NoLostWaiter'
    BY <2>3, <2>4, <2>5, <2>6, <2>8, <2>9 DEF BridgeInv, NoLostWaiter
  <2> QED BY <2>10, <2>11, <2>12 DEF BridgeInv
<1>17. CASE HandleRequest
  <2> DEFINE c == Head(toServer).id
  <2>1. /\ c \in Calls /\ c \in Ids(toServer)
        /\ Ids(toServer) = Ids(toServer') \cup {c}
        /\ toServer' \in Seq(OwnRequests) /\ toClient' \in Seq(OwnFrames)
        /\ Running' \cup Finals(toClient') = Running \cup Answering \cup {c}
        /\ \A d \in Calls : jobs'[d].open => jobs'[d].of = app
    BY <1>17, Handled
  <2>2. UNCHANGED <<cpc, sender, pending, refs, slot, link, app, conn>> /\ conn
    BY <1>17 DEF HandleRequest, bridgeVars
  <2>3. link = "up"
    BY <2>2 DEF BridgeInv, Quiet
  <2>4. Answering' = Finals(toClient')
    BY DEF Answering
  <2>5. Quiet'
    BY <2>2, <2>3 DEF Quiet
  <2>6. Sent'
    BY <2>1, <2>2, <2>4 DEF BridgeInv, Sent, OwnRequests, OwnFrames
  <2>7. Entries'
    BY <2>2 DEF BridgeInv, Entries
  <2>8. NoLostWaiter'
    BY <2>1, <2>2, <2>4 DEF BridgeInv, NoLostWaiter
  <2> QED BY <2>5, <2>6, <2>7, <2>8 DEF BridgeInv
<1>18. CASE HandleStale
  <2> DEFINE req == Head(stale)
             c == req.id
  <2>0. stale \in Seq(Requests) /\ stale # <<>>
    BY <1>18 DEF HandleStale, TypeOK
  <2>1. Handle(req, FALSE) /\ c \in Calls
    <3>1. req \in Requests
      BY <2>0, SeqFacts
    <3> QED BY <1>18, <3>1 DEF HandleStale, Requests
  <2>2. toClient' = toClient
    BY <2>1 DEF Handle, Reply
  <2>3. UNCHANGED <<cpc, sender, pending, refs, slot, link, app, toServer, conn, server>>
    BY <1>18 DEF HandleStale, bridgeVars
  <2>4. /\ Running' = Running
        /\ \A d \in Calls : jobs'[d].open => jobs[d].open /\ jobs'[d].of = jobs[d].of
    <3>1. CASE jobs' = jobs
      BY <3>1 DEF Running
    <3>2. CASE CancelJob(c)
      BY <2>1, <3>2, CancelKeeps
    <3>3. CASE /\ jobs' = [jobs EXCEPT ![c] = [state |-> "running", open |-> FALSE,
                                               of |-> req.of]]
               /\ jobs[c].state = "none"
      BY <2>1, <3>3 DEF Running, TypeOK
    <3> QED BY <2>1, <3>1, <3>2, <3>3 DEF Handle
  <2>5. Ids(toServer)' = Ids(toServer) /\ Answering' = Answering
    BY <2>2, <2>3 DEF Ids, Answering, Finals
  <2> HIDE DEF req, c
  <2>6. Quiet'
    BY <2>2, <2>3, <2>4 DEF BridgeInv, Quiet
  <2>7. Sent'
    BY <2>2, <2>3, <2>4, <2>5 DEF BridgeInv, Sent
  <2>8. Entries' /\ NoLostWaiter'
    BY <2>3, <2>4, <2>5 DEF BridgeInv, Entries, NoLostWaiter
  <2> QED BY <2>6, <2>7, <2>8 DEF BridgeInv
<1>19. ASSUME NEW c \in Calls, Progress(c) PROVE BridgeInv'
  <2> DEFINE f == Frame(c, jobs[c].of, "progress")
  <2>1. jobs[c].open /\ toClient' = Append(toClient, f)
        /\ UNCHANGED <<cpc, sender, pending, refs, slot, link, app, toServer, conn, server, jobs>>
    BY <1>19 DEF Progress, bridgeVars, serverVars
  <2>2. f \in OwnFrames /\ f.kind = "progress" /\ toClient \in Seq(OwnFrames)
    BY <2>1 DEF Frame, OwnFrames, BridgeInv, Sent, Kinds
  <2>3. toClient' \in Seq(OwnFrames) /\ Answering' = Answering
    BY <2>1, <2>2, FinalsAppend, SeqFacts DEF Answering
  <2>4. link = "up"
    BY <2>1 DEF BridgeInv, Quiet
  <2>5. Ids(toServer)' = Ids(toServer) /\ Running' = Running
    BY <2>1 DEF Ids, Running
  <2>6. Quiet' /\ Sent'
    BY <2>1, <2>3, <2>4, <2>5 DEF BridgeInv, Quiet, Sent, OwnFrames
  <2>7. Entries' /\ NoLostWaiter'
    BY <2>1, <2>3, <2>5 DEF BridgeInv, Entries, NoLostWaiter
  <2> QED BY <2>6, <2>7 DEF BridgeInv
<1>20. ASSUME NEW c \in Calls, Finish(c) PROVE BridgeInv'
  <2>1. /\ jobs' = [jobs EXCEPT ![c] = NoJob]
        /\ UNCHANGED <<cpc, sender, pending, refs, slot, link, app, toServer, conn, server>>
    BY <1>20 DEF Finish, bridgeVars
  <2>2. PICK kind \in {"result", "error", "cancelled"} :
             Reply(jobs[c].open, Frame(c, jobs[c].of, kind))
    BY <1>20 DEF Finish
  <2>3. Running' = Running \ {c} /\ (c \in Running <=> jobs[c].open)
    BY <1>20, <2>1 DEF Finish, Running, NoJob, TypeOK
  <2>4. \A d \in Calls : jobs'[d].open => jobs[d].open /\ jobs'[d].of = jobs[d].of
    BY <2>1 DEF NoJob, TypeOK
  <2>5. Ids(toServer)' = Ids(toServer)
    BY <2>1 DEF Ids
  <2>6. toClient \in Seq(OwnFrames)
    BY DEF BridgeInv, Sent, OwnFrames
  <2>7. CASE ~jobs[c].open
    <3>1. toClient' = toClient
      BY <2>2, <2>7 DEF Reply
    <3>2. Answering' = Answering /\ Running' = Running
      BY <2>3, <2>7, <3>1 DEF Answering, Finals
    <3>3. Quiet' /\ Sent'
      BY <2>1, <2>4, <2>5, <3>1, <3>2 DEF BridgeInv, Quiet, Sent
    <3>4. Entries' /\ NoLostWaiter'
      BY <2>1, <2>5, <3>2 DEF BridgeInv, Entries, NoLostWaiter
    <3> QED BY <3>3, <3>4 DEF BridgeInv
  <2>8. CASE jobs[c].open
    <3> DEFINE f == Frame(c, jobs[c].of, kind)
    <3>1. f \in OwnFrames /\ f.kind # "progress" /\ f.id = c
      BY <2>8 DEF Frame, OwnFrames, BridgeInv, Sent, Kinds
    <3>2. toClient' = Append(toClient, f)
      BY <2>2, <2>8 DEF Reply
    <3>3. toClient' \in Seq(OwnFrames) /\ Answering' = Answering \cup {c}
      BY <2>6, <3>1, <3>2, FinalsAppend, SeqFacts DEF Answering
    <3>4. link = "up" /\ c \in Running
      BY <2>3, <2>8 DEF BridgeInv, Quiet
    <3>5. Quiet' /\ Sent'
      BY <2>1, <2>3, <2>4, <2>5, <3>3, <3>4 DEF BridgeInv, Quiet, Sent, OwnFrames
    <3>6. Entries' /\ NoLostWaiter'
      BY <2>1, <2>3, <2>5, <3>3, <3>4 DEF BridgeInv, Entries, NoLostWaiter
    <3> QED BY <3>5, <3>6 DEF BridgeInv
  <2> QED BY <2>7, <2>8
<1>21. CASE ServerExit
  <2>1. /\ ~conn' /\ \A c \in Calls : jobs'[c] = NoJob
        /\ UNCHANGED <<cpc, sender, pending, refs, slot, link, app, toServer, toClient>>
    BY <1>21 DEF ServerExit, bridgeVars
  <2>2. /\ Ids(toServer)' = Ids(toServer) /\ Answering' = Answering /\ Running' = {}
        /\ \A c \in Calls : ~jobs'[c].open
    BY <2>1 DEF Ids, Answering, Finals, Running, NoJob
  <2>3. Quiet' /\ Sent'
    BY <2>1, <2>2 DEF BridgeInv, Quiet, Sent
  <2>4. Entries' /\ NoLostWaiter'
    BY <2>1, <2>2 DEF BridgeInv, Entries, NoLostWaiter
  <2> QED BY <2>3, <2>4 DEF BridgeInv
<1>22. CASE ServerStart \/ UNCHANGED vars
  <2>1. UNCHANGED <<cpc, sender, pending, refs, slot, link, app, toServer, toClient, conn, jobs>>
    BY <1>22 DEF ServerStart, vars, bridgeVars, wireVars, serverVars
  <2> QED
    BY <2>1, SameWire DEF BridgeInv, Quiet, Sent, Entries, NoLostWaiter
<1> QED
  BY <1>1, <1>2, <1>3, <1>4, <1>5, <1>6, <1>7, <1>8, <1>9, <1>10, <1>11, <1>12, <1>13,
      <1>14, <1>15, <1>16, <1>17, <1>18, <1>19, <1>20, <1>21, <1>22
  DEF Next, CallStep, LoopStep, ReadFrame, ServerStep

LEMMA BridgeCorrect == Spec => []BridgeInv
<1> QED BY BridgeInit, BridgeStep, PTL DEF Spec

\* A waiting call is always on its way to an answer or to the loop's failure,
\* and one that is over leaves nothing in `pending` and `refs`, whatever was
\* lost, crashed, timed out or restarted, for any number of calls at once.
THEOREM OneWaiterPerCall == Spec => []WaiterPerCall
<1>1. BridgeInv => NoLeak
  BY DEF BridgeInv, Entries, NoLeak, TypeOK
<1>2. BridgeInv => WaiterPerCall
  BY <1>1 DEF BridgeInv, WaiterPerCall
<1> QED BY BridgeCorrect, <1>2, PTL

\* A call is answered with what became of its own request, never with that of
\* an earlier run of the application.
THEOREM OwnAnswers == Spec => []OwnAnswer
<1>1. BridgeInv => OwnAnswer
  BY DEF BridgeInv, Entries, OwnAnswer
<1> QED BY BridgeCorrect, <1>1, PTL
-----------------------------------------------------------------------------
(* One stage at a time                                                     *)

LEMMA FinalsAreIds ==
  ASSUME NEW q
  PROVE  Finals(q) \subseteq Ids(q)
BY DEF Finals, Ids

LEMMA DistinctAppend ==
  ASSUME NEW S, NEW q \in Seq(S), NEW r \in S, Distinct(q), r.id \notin Ids(q)
  PROVE  Distinct(Append(q, r))
<1>1. /\ Len(Append(q, r)) = Len(q) + 1 /\ Len(q) \in Nat
      /\ \A i \in 1 .. Len(q) : Append(q, r)[i] = q[i]
      /\ Append(q, r)[Len(q) + 1] = r
  OBVIOUS
<1>2. \A i \in 1 .. Len(q) : q[i].id # r.id
  BY DEF Ids
<1> SUFFICES ASSUME NEW i \in 1 .. Len(q) + 1, NEW j \in 1 .. Len(q) + 1,
                    Append(q, r)[i].id = Append(q, r)[j].id
             PROVE  i = j
  BY <1>1 DEF Distinct
<1>3. CASE i \in 1 .. Len(q) /\ j \in 1 .. Len(q)
  BY <1>1, <1>3 DEF Distinct
<1>4. CASE i = Len(q) + 1 \/ j = Len(q) + 1
  BY <1>1, <1>2, <1>4
<1> QED BY <1>1, <1>3, <1>4

LEMMA DistinctTail ==
  ASSUME NEW S, NEW q \in Seq(S), q # <<>>, Distinct(q)
  PROVE  Distinct(Tail(q)) /\ Head(q).id \notin Ids(Tail(q))
<1>1. /\ Len(Tail(q)) = Len(q) - 1 /\ Len(q) \in Nat \ {0}
      /\ \A i \in 1 .. Len(q) - 1 : Tail(q)[i] = q[i + 1] /\ i + 1 \in 1 .. Len(q)
      /\ Head(q) = q[1] /\ 1 \in 1 .. Len(q)
  OBVIOUS
<1>2. Distinct(Tail(q))
  <2> SUFFICES ASSUME NEW i \in 1 .. Len(q) - 1, NEW j \in 1 .. Len(q) - 1,
                      Tail(q)[i].id = Tail(q)[j].id
               PROVE  i = j
    BY <1>1 DEF Distinct
  <2>1. i + 1 = j + 1
    BY <1>1 DEF Distinct
  <2> QED BY <1>1, <2>1
<1>3. ASSUME NEW i \in 1 .. Len(q) - 1, Tail(q)[i].id = Head(q).id
      PROVE  FALSE
  <2>1. i + 1 = 1
    BY <1>1, <1>3 DEF Distinct
  <2> QED BY <1>1, <2>1
<1> QED BY <1>1, <1>2, <1>3 DEF Ids

LEMMA OrderedAppend ==
  ASSUME NEW S, NEW q \in Seq(S), NEW f \in S, Ordered(q), f.id \notin Finals(q)
  PROVE  Ordered(Append(q, f))
<1>1. /\ Len(Append(q, f)) = Len(q) + 1 /\ Len(q) \in Nat
      /\ \A i \in 1 .. Len(q) : Append(q, f)[i] = q[i]
      /\ Append(q, f)[Len(q) + 1] = f
  OBVIOUS
<1>2. \A i \in 1 .. Len(q) : q[i].kind # "progress" => q[i].id # f.id
  BY DEF Finals
<1> SUFFICES ASSUME NEW i \in 1 .. Len(q) + 1, NEW j \in 1 .. Len(q) + 1,
                    Append(q, f)[i].id = Append(q, f)[j].id,
                    Append(q, f)[i].kind # "progress"
             PROVE  j <= i
  BY <1>1 DEF Ordered
<1>3. CASE i \in 1 .. Len(q) /\ j \in 1 .. Len(q)
  BY <1>1, <1>3 DEF Ordered
<1>4. CASE i \in 1 .. Len(q) /\ j = Len(q) + 1
  BY <1>1, <1>2, <1>4
<1>5. CASE i = Len(q) + 1
  BY <1>1, <1>5
<1> QED BY <1>1, <1>3, <1>4, <1>5

LEMMA OrderedTail ==
  ASSUME NEW S, NEW q \in Seq(S), q # <<>>, Ordered(q)
  PROVE  /\ Ordered(Tail(q))
         /\ Head(q).kind # "progress" => Head(q).id \notin Ids(Tail(q))
<1>1. /\ Len(Tail(q)) = Len(q) - 1 /\ Len(q) \in Nat \ {0}
      /\ \A i \in 1 .. Len(q) - 1 : Tail(q)[i] = q[i + 1] /\ i + 1 \in 1 .. Len(q)
      /\ Head(q) = q[1] /\ 1 \in 1 .. Len(q)
  OBVIOUS
<1>2. Ordered(Tail(q))
  <2> SUFFICES ASSUME NEW i \in 1 .. Len(q) - 1, NEW j \in 1 .. Len(q) - 1,
                      Tail(q)[i].id = Tail(q)[j].id, Tail(q)[i].kind # "progress"
               PROVE  j <= i
    BY <1>1 DEF Ordered
  <2>1. j + 1 <= i + 1
    BY <1>1 DEF Ordered
  <2> QED BY <1>1, <2>1
<1>3. ASSUME NEW i \in 1 .. Len(q) - 1, Tail(q)[i].id = Head(q).id, Head(q).kind # "progress"
      PROVE  FALSE
  <2>1. i + 1 <= 1
    BY <1>1, <1>3 DEF Ordered
  <2> QED BY <1>1, <2>1
<1> QED BY <1>1, <1>2, <1>3 DEF Ids

LEMMA EmptyQueue == Distinct(<<>>) /\ Ordered(<<>>) /\ Ids(<<>>) = {} /\ Finals(<<>>) = {}
BY DEF Distinct, Ordered, Ids, Finals

LEMMA StagedInit == Init => Staged
<1> SUFFICES ASSUME Init PROVE Staged
  OBVIOUS
<1>1. Running = {} /\ Answering = {} /\ Held = {}
  BY EmptyQueue DEF Init, Running, NoJob, Answering, Held
<1> QED BY <1>1, EmptyQueue DEF Init, Staged, Answering

\* Without a connection nothing is held.
LEMMA NothingHeld ==
  ASSUME Quiet, link # "up"
  PROVE  Held = {} /\ Answering = {} /\ toServer = <<>> /\ toClient = <<>>
BY EmptyQueue DEF Quiet, Held, Running, Answering

\* A step that leaves the connection and the registry alone.
LEMMA StagedSame ==
  ASSUME UNCHANGED <<toServer, toClient, jobs>>
  PROVE  Held' = Held /\ Running' = Running /\ Answering' = Answering
BY DEF Held, Ids, Running, Answering, Finals

LEMMA HeldAreCalls ==
  ASSUME TypeOK
  PROVE  Held \subseteq Calls
<1>1. \A i \in 1 .. Len(toServer) : toServer[i] \in Requests
  BY DEF TypeOK
<1>2. \A i \in 1 .. Len(toClient) : toClient[i] \in Frames
  BY DEF TypeOK
<1> QED BY <1>1, <1>2 DEF Held, Ids, Running, Requests, Frames

\* What is held belongs to a call that was sent.
LEMMA HeldAreSent ==
  ASSUME Sent, Staged
  PROVE  \A c \in Held : cpc[c] \in {"waiting", "answered", "failed", "timedout"}
BY DEF Sent, Staged, Held

LEMMA StagedStep == BridgeInv /\ BridgeInv' /\ Staged /\ [Next]_vars => Staged'
<1> SUFFICES ASSUME BridgeInv, BridgeInv', Staged, [Next]_vars PROVE Staged'
  OBVIOUS
<1> TypeOK /\ TypeOK' /\ Quiet /\ Quiet' /\ Sent /\ Entries
  BY DEF BridgeInv
<1>h. /\ Held \subseteq Calls
      /\ \A c \in Held : cpc[c] \in {"waiting", "answered", "failed", "timedout"}
  BY HeldAreCalls, HeldAreSent
<1>1. ASSUME NEW c \in Calls, Begin(c) \/ Register(c) \/ Label(c) \/ GiveUp(c) \/ Receive(c) \/ Timeout(c)
      PROVE  Staged'
  <2>1. UNCHANGED <<toServer, toClient, jobs, slot>>
    BY <1>1 DEF Begin, Register, Label, GiveUp, Receive, Timeout, wireVars, serverVars
  <2>2. /\ \A d \in Calls \ {c} : cpc'[d] = cpc[d] /\ sender'[d] = sender[d]
        /\ refs' = refs \/ refs' = refs \cup {c} \/ refs' = refs \ {c}
        /\ c \in Held => cpc'[c] \in {"answered", "failed", "timedout"}
        /\ cpc'[c] = "send" => c \in refs'
    BY <1>1, <1>h DEF Begin, Register, Label, GiveUp, Receive, Timeout, Goto, TypeOK
  <2>3. \A d \in Held : slot'[d] = NoAnswer /\ (cpc'[d] = "waiting" => d \in refs')
    BY <1>h, <2>1, <2>2 DEF Staged
  <2>4. \A d \in Calls : cpc'[d] = "send" /\ sender'[d] => d \in refs'
    BY <2>2 DEF Staged
  <2>5. \A d \in Ids(toClient) : cpc'[d] \in {"waiting", "answered", "failed", "timedout"}
    BY <1>h, <2>2 DEF Held
  <2> QED BY <2>1, <2>3, <2>4, <2>5, StagedSame DEF Staged
<1>2. CASE Connect \/ ConnectFails \/ ClearOut \/ ServerStart \/ UNCHANGED vars
  <2>1. UNCHANGED <<cpc, sender, refs, slot, toServer, toClient, jobs>>
    BY <1>2 DEF Connect, ConnectFails, ClearOut, ServerStart, vars, bridgeVars, wireVars, serverVars
  <2> QED BY <2>1, StagedSame DEF Staged
<1>3. CASE FailRefs \/ FailPending
  <2>1. UNCHANGED <<cpc, sender, toServer, toClient, jobs, app>> /\ link # "up"
    BY <1>3 DEF FailRefs, FailPending, wireVars, serverVars
  <2>2. Held = {} /\ Answering = {} /\ toServer = <<>> /\ toClient = <<>> /\ \A c \in Calls : ~sender[c]
    BY <2>1, NothingHeld DEF Quiet
  <2> QED BY <2>1, <2>2, StagedSame DEF Staged, Held
<1>4. CASE Break \/ AppRestart
  <2>1. toServer' = <<>> /\ toClient' = <<>> /\ Running' = {}
    BY <1>4, Disconnected DEF Break, AppRestart
  <2>2. \A c \in Calls : ~sender'[c]
    BY <1>4 DEF Break, AppRestart
  <2>3. Held' = {} /\ Answering' = {}
    BY <2>1, EmptyQueue DEF Held, Answering
  <2> QED BY <2>1, <2>2, <2>3, EmptyQueue DEF Staged
<1>5. ASSUME NEW c \in Calls, Send(c) PROVE Staged'
  <2>1. /\ cpc[c] = "send" /\ UNCHANGED <<sender, refs, slot, toClient, jobs, link>>
        /\ \A d \in Calls \ {c} : cpc'[d] = cpc[d]
    BY <1>5 DEF Send, Goto, TypeOK, serverVars
  <2>2. c \notin Held
    BY <1>h, <2>1
  <2>3. Running' = Running /\ Answering' = Answering /\ Ids(toClient)' = Ids(toClient)
    BY <2>1 DEF Running, Answering, Finals, Ids
  <2>4. \A d \in Calls : cpc'[d] = "send" /\ sender'[d] => d \in refs'
    BY <1>5, <2>1 DEF Staged, Send, Goto, TypeOK
  <2>5. \A d \in Ids(toClient) : cpc'[d] \in {"waiting", "answered", "failed", "timedout"}
    BY <1>h, <2>1, <2>2 DEF Held
  <2>6. CASE ~sender[c]
    <3>1. toServer' = toServer
      BY <1>5, <2>6 DEF Send
    <3>2. \A d \in Held : cpc'[d] = cpc[d]
      BY <1>h, <2>1, <2>2
    <3> QED BY <2>1, <2>3, <2>4, <2>5, <3>1, <3>2, StagedSame DEF Staged
  <2>7. CASE sender[c]
    <3> DEFINE r == [id |-> c, of |-> app]
    <3>1. toServer' = Append(toServer, r) /\ cpc'[c] = "waiting"
      BY <1>5, <2>7 DEF Send, Goto, TypeOK
    <3>2. r \in Requests /\ toServer \in Seq(Requests) /\ r.id = c
      BY DEF TypeOK, Requests
    <3>3. Distinct(toServer') /\ Ids(toServer') = Ids(toServer) \cup {c}
      BY <2>2, <3>1, <3>2, DistinctAppend, IdsAppend DEF Staged, Held
    <3>4. slot[c] = NoAnswer /\ c \in refs
      BY <2>1, <2>7 DEF Entries, Staged
    <3>5. Held' = Held \cup {c}
      BY <2>3, <3>3 DEF Held, Ids
    <3>6. \A d \in Held' : slot'[d] = NoAnswer /\ (cpc'[d] = "waiting" => d \in refs')
      BY <1>h, <2>1, <2>2, <3>4, <3>5 DEF Staged
    <3>7. Ids(toServer') \cap (Running \cup Ids(toClient)) = {}
      BY <2>2, <3>3 DEF Staged, Held
    <3> QED BY <2>1, <2>3, <2>4, <2>5, <3>3, <3>6, <3>7 DEF Staged, Ids
  <2> QED BY <2>6, <2>7
<1>6. CASE Emit \/ Deliver
  <2> DEFINE f == Head(toClient)
  <2>1. toClient \in Seq(Frames) /\ toClient # <<>> /\ toClient' = Tail(toClient)
        /\ UNCHANGED <<cpc, sender, toServer, jobs, app>>
    BY <1>6 DEF Emit, Deliver, bridgeVars, serverVars, TypeOK
  <2>2. /\ Ordered(toClient')
        /\ f.kind # "progress" => f.id \notin Ids(toClient')
        /\ Ids(toClient) = Ids(toClient') \cup {f.id}
        /\ Finals(toClient) = IF f.kind = "progress" THEN Finals(toClient')
                              ELSE Finals(toClient') \cup {f.id}
    BY <2>1, OrderedTail, IdsTail, FinalsTail DEF Staged
  <2>3. Running' = Running /\ Ids(toServer)' = Ids(toServer)
    BY <2>1 DEF Running, Ids
  <2>4. Held' \subseteq Held /\ Held' = Ids(toServer) \cup Running \cup Ids(toClient')
    BY <2>2, <2>3 DEF Held, Ids
  <2>5. CASE Emit
    <3>1. UNCHANGED <<refs, slot>>
      BY <2>5 DEF Emit, bridgeVars
    <3>2. Answering' = Answering
      BY <2>2, <2>5 DEF Emit, Answering
    <3>3. Ids(toClient') \subseteq Ids(toClient) /\ Ordered(toClient')
      BY <2>2
    <3> QED BY <2>1, <2>3, <2>4, <3>1, <3>2, <3>3 DEF Staged
  <2>6. CASE Deliver
    <3>1. f.kind # "progress" /\ f.id \in Calls
      <4>1. f \in Frames
        BY <2>1, SeqFacts
      <4> QED BY <2>6, <4>1 DEF Deliver, Frames
    <3>2. f.id \notin Held'
      <4>1. f.id \in Answering /\ f.id \in Ids(toClient)
        BY <2>2, <3>1 DEF Answering
      <4> QED BY <2>2, <2>4, <3>1, <4>1 DEF Staged
    <3>3. refs' = refs \ {f.id} /\ \A d \in Calls \ {f.id} : slot'[d] = slot[d]
      BY <2>6 DEF Deliver, TypeOK
    <3>4. cpc[f.id] # "send"
      BY <1>h, <2>2 DEF Held
    <3>5. \A d \in Held' : slot'[d] = NoAnswer /\ (cpc'[d] = "waiting" => d \in refs')
      BY <1>h, <2>1, <2>4, <3>2, <3>3 DEF Staged
    <3>6. \A d \in Calls : cpc'[d] = "send" /\ sender'[d] => d \in refs'
      BY <2>1, <3>3, <3>4 DEF Staged
    <3>7. Answering' \subseteq Answering
      BY <2>2 DEF Answering
    <3>8. Ids(toClient') \subseteq Ids(toClient) /\ Ordered(toClient')
      BY <2>2
    <3> QED BY <2>1, <2>3, <2>4, <3>5, <3>6, <3>7, <3>8 DEF Staged
  <2> QED BY <1>6, <2>5, <2>6
<1>7. CASE HandleRequest
  <2> DEFINE req == Head(toServer)
             c == req.id
  <2>1. /\ toServer \in Seq(Requests) /\ toServer # <<>> /\ toServer' = Tail(toServer)
        /\ Handle(req, TRUE) /\ UNCHANGED <<cpc, sender, refs, slot, app>>
    BY <1>7 DEF HandleRequest, bridgeVars, TypeOK
  <2>2. c \in Calls /\ req.of \in Apps
    <3>1. req \in Requests
      BY <2>1, SeqFacts
    <3> QED BY <3>1 DEF Requests
  <2>3. /\ Distinct(toServer') /\ c \notin Ids(toServer')
        /\ Ids(toServer) = Ids(toServer') \cup {c}
    BY <2>1, DistinctTail, IdsTail DEF Staged
  <2>4. c \notin Running \cup Ids(toClient) \cup Answering
    BY <2>3, FinalsAreIds DEF Staged, Answering
  <2>5. toClient \in Seq(Frames)
    BY DEF TypeOK
  <2>6. \/ /\ Running' = Running \cup {c} /\ toClient' = toClient
        \/ /\ Running' = Running /\ Ordered(toClient')
           /\ Ids(toClient') = Ids(toClient) \cup {c}
           /\ Finals(toClient') = Finals(toClient) \cup {c}
    <3>1. ASSUME NEW kind \in Kinds, kind # "progress", Reply(TRUE, Frame(c, req.of, kind))
          PROVE  /\ Ordered(toClient') /\ Ids(toClient') = Ids(toClient) \cup {c}
                 /\ Finals(toClient') = Finals(toClient) \cup {c}
      <4> DEFINE f == Frame(c, req.of, kind)
      <4>1. toClient' = Append(toClient, f)
        BY <3>1 DEF Reply
      <4>2. f \in Frames /\ f.id = c /\ f.kind = kind
        BY <2>2 DEF Frame, Frames
      <4>3. f.id \notin Finals(toClient)
        BY <2>4, <4>2 DEF Answering
      <4> HIDE DEF f
      <4> QED
        BY <2>5, <3>1, <4>1, <4>2, <4>3, OrderedAppend, IdsAppend, FinalsAppend DEF Staged
    <3>2. CASE jobs[c].state # "none"
      <4>1. Reply(TRUE, Frame(c, req.of, "duplicate")) /\ jobs' = jobs
        BY <2>1, <3>2 DEF Handle
      <4> QED BY <3>1, <4>1 DEF Kinds, Running
    <3>3. CASE jobs[c].state = "none" /\ Target[c] # NoCall
      <4>1. Reply(TRUE, Frame(c, req.of, "result")) /\ CancelJob(c)
        BY <2>1, <3>3 DEF Handle
      <4> QED BY <2>2, <3>1, <4>1, CancelKeeps DEF Kinds
    <3>4. CASE jobs[c].state = "none" /\ Target[c] = NoCall
      <4>1. /\ jobs' = [jobs EXCEPT ![c] = [state |-> "running", open |-> TRUE, of |-> req.of]]
            /\ toClient' = toClient
        BY <2>1, <3>4 DEF Handle
      <4> QED BY <2>2, <4>1 DEF Running, TypeOK
    <3> QED BY <3>2, <3>3, <3>4
  <2>7. Held' = Held
    BY <2>3, <2>6 DEF Held, Ids
  <2>8. cpc[c] \in {"waiting", "answered", "failed", "timedout"}
    BY <1>h, <2>3 DEF Held
  <2> HIDE DEF c
  <2> QED BY <2>1, <2>3, <2>4, <2>6, <2>7, <2>8, FinalsAreIds DEF Staged, Answering
<1>8. CASE HandleStale
  <2> DEFINE req == Head(stale)
             c == req.id
  <2>1. Handle(req, FALSE) /\ c \in Calls /\ UNCHANGED <<cpc, sender, refs, slot, toServer>>
    <3>1. req \in Requests
      BY <1>8, SeqFacts DEF HandleStale, TypeOK
    <3> QED BY <1>8, <3>1 DEF HandleStale, Requests, bridgeVars
  <2>2. toClient' = toClient
    BY <2>1 DEF Handle, Reply
  <2>3. Running' = Running
    <3>1. CASE jobs' = jobs
      BY <3>1 DEF Running
    <3>2. CASE CancelJob(c)
      BY <2>1, <3>2, CancelKeeps
    <3>3. CASE /\ jobs' = [jobs EXCEPT ![c] = [state |-> "running", open |-> FALSE,
                                               of |-> req.of]]
               /\ jobs[c].state = "none"
      BY <2>1, <3>3 DEF Running, TypeOK
    <3> QED BY <2>1, <3>1, <3>2, <3>3 DEF Handle
  <2>4. Held' = Held /\ Answering' = Answering /\ Ids(toClient)' = Ids(toClient)
        /\ Ids(toServer)' = Ids(toServer)
    BY <2>1, <2>2, <2>3 DEF Held, Answering, Ids, Finals
  <2> QED BY <2>1, <2>2, <2>3, <2>4 DEF Staged
<1>9. ASSUME NEW c \in Calls, Progress(c) \/ Finish(c) PROVE Staged'
  <2>1. UNCHANGED <<cpc, sender, refs, slot, toServer>>
    BY <1>9 DEF Progress, Finish, bridgeVars, serverVars
  <2>2. Ids(toServer)' = Ids(toServer)
    BY <2>1 DEF Ids
  <2>3. CASE ~jobs[c].open
    <3>1. toClient' = toClient /\ jobs' = [jobs EXCEPT ![c] = NoJob]
      BY <1>9, <2>3 DEF Progress, Finish, Reply
    <3>2. Running' = Running
      BY <2>3, <3>1 DEF Running, NoJob, TypeOK
    <3>3. Held' = Held /\ Answering' = Answering /\ Ids(toClient)' = Ids(toClient)
      BY <2>2, <3>1, <3>2 DEF Held, Answering, Ids, Finals
    <3> QED BY <2>1, <2>2, <3>1, <3>2, <3>3 DEF Staged
  <2>4. CASE jobs[c].open
    <3>1. c \in Running /\ toClient \in Seq(Frames)
      BY <1>9, <2>4 DEF Running, Progress, Finish, TypeOK
    <3>2. c \notin Finals(toClient) /\ c \notin Ids(toServer)
      BY <3>1 DEF Staged, Answering
    <3>3. PICK kind \in Kinds :
            /\ toClient' = Append(toClient, Frame(c, jobs[c].of, kind))
            /\ \/ kind = "progress" /\ jobs' = jobs
               \/ kind # "progress" /\ jobs' = [jobs EXCEPT ![c] = NoJob]
      BY <1>9, <2>4 DEF Progress, Finish, Reply, Kinds, serverVars
    <3> DEFINE f == Frame(c, jobs[c].of, kind)
    <3>4. f \in Frames /\ f.id = c /\ f.kind = kind
      BY DEF Frame, Frames, TypeOK, Jobs
    <3>5. /\ Ordered(toClient') /\ Ids(toClient') = Ids(toClient) \cup {c}
          /\ Finals(toClient') = IF kind = "progress" THEN Finals(toClient)
                                 ELSE Finals(toClient) \cup {c}
      <4>1. toClient' = Append(toClient, f)
        BY <3>3
      <4> HIDE DEF f
      <4> QED
        BY <3>1, <3>2, <3>4, <4>1, OrderedAppend, IdsAppend, FinalsAppend DEF Staged
    <3>6. Running' = IF kind = "progress" THEN Running ELSE Running \ {c}
      BY <3>3 DEF Running, NoJob, TypeOK
    <3>7. Held' = Held /\ c \in Held
      BY <2>2, <3>1, <3>5, <3>6 DEF Held, Ids
    <3>8. \A d \in Ids(toClient') : cpc'[d] \in {"waiting", "answered", "failed", "timedout"}
      BY <1>h, <2>1, <3>5, <3>7 DEF Held
    <3> QED
      BY <2>1, <2>2, <3>2, <3>5, <3>6, <3>7, <3>8 DEF Staged, Answering, Ids, Finals
  <2> QED BY <2>3, <2>4
<1>10. CASE ServerExit
  <2>1. /\ \A c \in Calls : jobs'[c] = NoJob
        /\ UNCHANGED <<cpc, sender, refs, slot, toServer, toClient>>
    BY <1>10 DEF ServerExit, bridgeVars
  <2>2. Running' = {}
    BY <2>1 DEF Running, NoJob
  <2>3. /\ Held' \subseteq Held /\ Answering' = Answering
        /\ Ids(toServer)' = Ids(toServer) /\ Ids(toClient)' = Ids(toClient)
    BY <2>1, <2>2 DEF Held, Answering, Ids, Finals
  <2> QED BY <2>1, <2>2, <2>3 DEF Staged
<1> QED
  BY <1>1, <1>2, <1>3, <1>4, <1>5, <1>6, <1>7, <1>8, <1>9, <1>10
  DEF Next, CallStep, LoopStep, ReadFrame, ServerStep

LEMMA StagedCorrect == Spec => [](BridgeInv /\ Staged)
<1>1. Init => BridgeInv /\ Staged
  BY BridgeInit, StagedInit
<1>2. (BridgeInv /\ Staged) /\ [Next]_vars => (BridgeInv /\ Staged)'
  BY BridgeStep, StagedStep
<1> QED BY <1>1, <1>2, PTL DEF Spec

\* Every request has at most one final frame and nothing after it: none is
\* under way for a call that was answered, is still read or has its job
\* running, with any calls, cancellations, lost connections and restarts.
THEOREM OneFinal == Spec => []OneFinalFrame
<1>1. Staged => OneFinalFrame
  <2> SUFFICES ASSUME Staged PROVE OneFinalFrame
    OBVIOUS
  <2>1. Answering \subseteq Ids(toClient)
    BY FinalsAreIds DEF Answering
  <2>2. \A c \in Answering : slot[c] = NoAnswer /\ c \notin Running /\ c \notin Ids(toServer)
    BY <2>1 DEF Staged, Held
  <2> QED BY <2>2 DEF Staged, Ordered, OneFinalFrame
<1> QED BY StagedCorrect, <1>1, PTL

\* A progress frame that reaches a call in flight finds the label its caller
\* filters by: no timeout, answer or lost connection takes the label first.
THEOREM ProgressLabelled == Spec => ProgressIsLabelled
<1>1. BridgeInv /\ Staged =>
        (Emit => LET c == Head(toClient).id IN cpc[c] = "waiting" => c \in refs)
  <2> SUFFICES ASSUME BridgeInv, Staged, Emit, cpc[Head(toClient).id] = "waiting"
               PROVE  Head(toClient).id \in refs
    OBVIOUS
  <2>1. toClient # <<>> /\ toClient \in Seq(Frames)
    BY DEF Emit, BridgeInv, TypeOK
  <2>2. Head(toClient).id \in Held
    BY <2>1, IdsTail DEF Held
  <2> QED BY <2>2 DEF Staged
<1> QED BY <1>1, StagedCorrect, PTL DEF ProgressIsLabelled
=============================================================================
