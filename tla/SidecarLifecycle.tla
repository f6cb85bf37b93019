---------------------------- MODULE SidecarLifecycle ----------------------------
(***************************************************************************)
(* The life of the Node process: the application that starts it, connects  *)
(* to it, starts it anew and takes it down (sidecar.rs, lib.rs), and the   *)
(* process itself from main() to its exit hook (server.js, the diagnostic  *)
(* journal of logger.service.js).                                          *)
(*                                                                         *)
(* The connection loop is a task of its own.  It shares the slot of the    *)
(* child with sidecar_restart and with shutdown, each taking the mutex for *)
(* a moment only, and it keeps running while shutdown waits.  A process    *)
(* that is not the application's child may hold the port: a server started *)
(* in a terminal, or one an earlier run of the application left.           *)
(***************************************************************************)
EXTENDS Integers, FiniteSets

CONSTANTS
  Nodes,       \* Node processes; one that ended may be started again
  NoNode,
  MaxRuns,     \* bound: runs of the application
  MaxFaults    \* bound: interventions from outside (those that call Fault)

ASSUME LifecycleAssumption ==
  /\ NoNode \notin Nodes
  /\ MaxRuns \in Nat /\ MaxFaults \in Nat

VARIABLES
  app,      \* the application: not running, up, or in shutdown()
  child,    \* the process in the slot
  doomed,   \* the process shutdown() took out of it
  loop,     \* the connection loop: where it stands
  peer,     \* the process its connection leads to
  ahead,    \* whether the doomed process was stopping before it was taken
  ph,       \* per process: how far it is
  asked,    \* processes with a signal still to be handled
  guests,   \* processes a terminal client is connected to
  last,     \* per process: its last record in the diagnostic journal
  strays,   \* processes nobody is to take down: started in a terminal, or let
            \* go of by the application
  runs, faults

appVars == <<app, child, doomed, loop, peer, ahead>>
nodeVars == <<ph, asked, guests, last>>
vars == <<appVars, nodeVars, strays, runs, faults>>

\* boot: up to installProcessHandlers; init: up to the end of main; deaf: the
\* port was taken; stopping: in shutdown() of server.js.
Phases == {"boot", "init", "listen", "deaf", "stopping", "dead"}
Places == {"off", "dial", "refused", "backoff", "serve", "lost"}
Records == {"none", "start", "listening", "error", "shutdown", "exit"}

TypeOK ==
  /\ app \in {"off", "up", "closing"}
  /\ {child, doomed, peer} \subseteq Nodes \cup {NoNode}
  /\ loop \in Places /\ ahead \in BOOLEAN
  /\ ph \in [Nodes -> Phases]
  /\ asked \subseteq Nodes /\ guests \subseteq Nodes
  /\ last \in [Nodes -> Records]
  /\ strays \subseteq Nodes
  /\ runs \in 0 .. MaxRuns /\ faults \in 0 .. MaxFaults

Alive == {n \in Nodes : ph[n] # "dead"}
Listening == {n \in Nodes : ph[n] = "listen"}

\* A process that ended and that nobody holds a handle or a connection of.
Fresh == Nodes \ (Alive \cup {child, doomed, peer})

Init ==
  /\ app = "off" /\ child = NoNode /\ doomed = NoNode
  /\ loop = "off" /\ peer = NoNode /\ ahead = FALSE
  /\ ph = [n \in Nodes |-> "dead"] /\ asked = {} /\ guests = {}
  /\ last = [n \in Nodes |-> "exit"]
  /\ strays = {} /\ runs = 0 /\ faults = 0

Fault == faults < MaxFaults /\ faults' = faults + 1

-----------------------------------------------------------------------------
(* The process                                                             *)

\* Mutant: the record is the exit code.
EndsWithCode(n, hook) ==
  /\ ph' = [ph EXCEPT ![n] = "dead"]
  /\ last' = [last EXCEPT ![n] = IF hook THEN "0" ELSE last[n]]
  /\ asked' = asked \ {n} /\ guests' = guests \ {n}

\* The process ends, by process.exit with its hook or without a chance to.
Ends(n, hook) ==
  /\ ph' = [ph EXCEPT ![n] = "dead"]
  /\ last' = IF hook THEN [last EXCEPT ![n] = "exit"] ELSE last
  /\ asked' = asked \ {n} /\ guests' = guests \ {n}

Gets(n, phase, record) ==
  /\ ph' = [ph EXCEPT ![n] = phase]
  /\ last' = [last EXCEPT ![n] = record]

Booted(n) ==
  /\ ph[n] = "boot" /\ n \notin asked
  /\ Gets(n, "init", "start")
  /\ UNCHANGED <<appVars, asked, guests, strays, runs, faults>>

Binds(n) ==
  /\ ph[n] = "init"
  /\ IF Listening = {} THEN Gets(n, "listen", "listening")
                       ELSE Gets(n, "deaf", "error")
  /\ UNCHANGED <<appVars, asked, guests, strays, runs, faults>>

\* db.init throws: main().catch.
StartFails(n) ==
  /\ ph[n] = "init" /\ Fault
  /\ Ends(n, TRUE)
  /\ UNCHANGED <<appVars, strays, runs>>

\* With the port taken nothing keeps the event loop: the watch is unref'd.
RunsOut(n) ==
  /\ ph[n] = "deaf"
  /\ Ends(n, TRUE)
  /\ UNCHANGED <<appVars, strays, runs, faults>>

\* Before the handlers are there the signal takes its default course; before
\* those of server.js the logger's handler, alone, exits by itself.
HandlesSignal(n) ==
  /\ n \in asked
  /\ CASE ph[n] = "boot" -> Ends(n, FALSE)
       [] ph[n] = "init" -> Ends(n, TRUE)
       [] ph[n] \in {"listen", "deaf"} ->
            /\ Gets(n, "stopping", "shutdown")
            /\ asked' = asked \ {n} /\ UNCHANGED guests
       [] ph[n] = "stopping" ->
            asked' = asked \ {n} /\ UNCHANGED <<ph, last, guests>>
  /\ UNCHANGED <<appVars, strays, runs, faults>>

Connected(n) == n = peer \/ n \in guests

\* wss.close calls back when the last connection is gone.
Closed(n) ==
  /\ ph[n] = "stopping" /\ ~Connected(n)
  /\ Ends(n, TRUE)
  /\ UNCHANGED <<appVars, strays, runs, faults>>

\* The timer of shutdown() in server.js, two seconds after the signal: by then
\* the application, which waits for one, has killed the process it asked.
GivesUp(n) ==
  /\ ph[n] = "stopping" /\ (n = doomed => ahead)
  /\ Ends(n, TRUE)
  /\ UNCHANGED <<appVars, strays, runs, faults>>

\* SIGKILL, out of memory, a crash of a native module.
Crash(n) ==
  /\ n \in Alive /\ Fault
  /\ Ends(n, FALSE)
  /\ UNCHANGED <<appVars, strays, runs>>

\* Ctrl+C in the terminal of the process, kill.
Signal(n) ==
  /\ n \in Alive \ asked /\ Fault
  /\ asked' = asked \cup {n}
  /\ UNCHANGED <<appVars, ph, guests, last, strays, runs>>

GuestJoins(n) ==
  /\ n \in Listening \ guests
  /\ guests' = guests \cup {n}
  /\ UNCHANGED <<appVars, ph, asked, last, strays, runs, faults>>

GuestLeaves(n) ==
  /\ n \in guests
  /\ guests' = guests \ {n}
  /\ UNCHANGED <<appVars, ph, asked, last, strays, runs, faults>>

-----------------------------------------------------------------------------
(* The application                                                         *)

Starts(n) ==
  /\ n \in Fresh
  /\ Gets(n, "boot", "none")
  /\ UNCHANGED <<asked, guests>>

\* npm run rpc:dev
StartedInTerminal(n) ==
  /\ Starts(n) /\ Fault
  /\ strays' = strays \cup {n}
  /\ UNCHANGED <<appVars, runs>>

AppStarts(n) ==
  /\ app = "off" /\ runs < MaxRuns
  /\ runs' = runs + 1
  /\ Starts(n) /\ child' = n /\ strays' = strays \ {n}
  /\ app' = "up" /\ loop' = "dial"
  /\ UNCHANGED <<doomed, peer, ahead, faults>>

\* spawn_child answers None: the application starts without a child.
AppStartsBare ==
  /\ app = "off" /\ runs < MaxRuns /\ Fault
  /\ runs' = runs + 1
  /\ app' = "up" /\ loop' = "dial"
  /\ UNCHANGED <<child, doomed, peer, ahead, nodeVars, strays>>

Connects(n) ==
  /\ loop = "dial" /\ n \in Listening
  /\ loop' = "serve" /\ peer' = n
  /\ UNCHANGED <<app, child, doomed, ahead, nodeVars, strays, runs, faults>>

Refused ==
  /\ loop = "dial" /\ Listening = {}
  /\ loop' = "refused"
  /\ UNCHANGED <<app, child, doomed, peer, ahead, nodeVars, strays, runs, faults>>

\* Mutant: an empty slot is taken for a running process.
LooksAtSomeChild ==
  /\ loop = "refused"
  /\ IF child \in Nodes \ Alive THEN child' = NoNode /\ loop' = "backoff"
                                ELSE loop' = "lost" /\ UNCHANGED child
  /\ UNCHANGED <<app, doomed, peer, ahead, nodeVars, strays, runs, faults>>

LooksAtChild ==
  /\ loop = "refused"
  /\ IF child \notin Alive THEN child' = NoNode /\ loop' = "backoff"
                           ELSE loop' = "lost" /\ UNCHANGED child
  /\ UNCHANGED <<app, doomed, peer, ahead, nodeVars, strays, runs, faults>>

\* The slot is written whatever it holds by now, and whether or not shutdown()
\* has been at it.
Respawns(n) ==
  /\ loop = "backoff"
  /\ Starts(n) /\ child' = n
  /\ strays' = (strays \ {n}) \cup (Alive \cap {child})
                 \cup (IF app = "closing" THEN {n} ELSE {})
  /\ loop' = "lost"
  /\ UNCHANGED <<app, doomed, peer, ahead, runs, faults>>

SpawnFails ==
  /\ loop = "backoff" /\ Fault
  /\ child' = NoNode /\ strays' = strays \cup (Alive \cap {child})
  /\ loop' = "lost"
  /\ UNCHANGED <<app, doomed, peer, ahead, nodeVars, runs>>

ConnectionEnds ==
  /\ loop = "serve" /\ peer \notin Alive
  /\ loop' = "lost" /\ peer' = NoNode
  /\ UNCHANGED <<app, child, doomed, ahead, nodeVars, strays, runs, faults>>

Redials ==
  /\ loop = "lost"
  /\ loop' = "dial"
  /\ UNCHANGED <<app, child, doomed, peer, ahead, nodeVars, strays, runs, faults>>

\* The connections and the handles go with the application.
AppEnds ==
  /\ app' = "off" /\ loop' = "off"
  /\ child' = NoNode /\ doomed' = NoNode /\ peer' = NoNode
  /\ ahead' = FALSE

\* Mutant: the old process is left to the garbage collector.
RestartForgets(n) ==
  /\ app = "up" /\ Fault
  /\ Starts(n)
  /\ child' = n /\ strays' = strays \ {n}
  /\ UNCHANGED <<app, doomed, loop, peer, ahead, runs>>

\* sidecar_restart
Restart(n) ==
  /\ app = "up" /\ Fault
  /\ n \in Fresh
  /\ ph' = [m \in Nodes |-> CASE m = n -> "boot" [] m = child -> "dead"
                              [] OTHER -> ph[m]]
  /\ last' = [last EXCEPT ![n] = "none"]
  /\ asked' = asked \ {child} /\ guests' = guests \ {child}
  /\ child' = n /\ strays' = strays \ {n}
  /\ UNCHANGED <<app, doomed, loop, peer, ahead, runs>>

\* spawn_child answers None: the old process is gone all the same.
RestartFails ==
  /\ app = "up" /\ Fault
  /\ IF child \in Alive THEN Ends(child, FALSE) ELSE UNCHANGED nodeVars
  /\ child' = NoNode
  /\ UNCHANGED <<app, doomed, loop, peer, ahead, strays, runs>>

\* RunEvent::Exit: shutdown() takes the child and sends it SIGTERM.
Close ==
  /\ app = "up"
  /\ IF child = NoNode
       THEN AppEnds /\ UNCHANGED asked
       ELSE /\ app' = "closing" /\ doomed' = child /\ child' = NoNode
            /\ asked' = asked \cup (Alive \cap {child})
            /\ ahead' = (ph[child] = "stopping")
            /\ UNCHANGED <<loop, peer>>
  /\ UNCHANGED <<ph, guests, last, strays, runs, faults>>

Reaps ==
  /\ app = "closing" /\ doomed \notin Alive
  /\ AppEnds
  /\ UNCHANGED <<nodeVars, strays, runs, faults>>

\* A second is over.
Kills ==
  /\ app = "closing" /\ doomed \in Alive
  /\ Ends(doomed, FALSE)
  /\ AppEnds
  /\ UNCHANGED <<strays, runs, faults>>

AppDies ==
  /\ app # "off" /\ Fault
  /\ strays' = strays \cup (Alive \cap {child, doomed})
  /\ AppEnds
  /\ UNCHANGED <<nodeVars, runs>>

-----------------------------------------------------------------------------
NodeStep(n) == Booted(n) \/ Binds(n) \/ RunsOut(n) \/ HandlesSignal(n)
                 \/ Closed(n) \/ GivesUp(n)
LoopStep == \/ Refused \/ LooksAtChild \/ ConnectionEnds \/ Redials
            \/ \E n \in Nodes : Connects(n) \/ Respawns(n)
Outside(n) == \/ StartFails(n) \/ Crash(n) \/ Signal(n)
              \/ GuestJoins(n) \/ GuestLeaves(n) \/ StartedInTerminal(n)
User == \/ Close \/ AppDies \/ AppStartsBare \/ RestartFails
        \/ \E n \in Nodes : AppStarts(n) \/ Restart(n)

Next ==
  \/ \E n \in Nodes : NodeStep(n) \/ Outside(n)
  \/ LoopStep \/ SpawnFails \/ User
  \/ Reaps \/ Kills

Spec == Init /\ [][Next]_vars

\* The processes and the loop go on, and so does shutdown(), on the main
\* thread.  Nobody outside has to do anything.
FairSpec ==
  /\ Spec
  /\ \A n \in Nodes : WF_vars(NodeStep(n))
  /\ WF_vars(LoopStep) /\ WF_vars(Reaps \/ Kills)

-----------------------------------------------------------------------------
(* Every process that is running and not a stray is in a hand that will    *)
(* take it down: the slot, or shutdown() in its second of waiting.         *)
EveryServerIsHeld == Alive \subseteq strays \cup {child, doomed}

(* While the application is up its backend comes back, whatever became of  *)
(* the processes and whoever had the port.                                 *)
BackendReturns ==
  app = "up" ~> app # "up" \/ (loop = "serve" /\ peer \in Listening)
=============================================================================
