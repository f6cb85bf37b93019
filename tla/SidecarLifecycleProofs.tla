------------------------ MODULE SidecarLifecycleProofs ------------------------
(***************************************************************************)
(* Theorems about SidecarLifecycle, for any processes, runs of the         *)
(* application and faults: TypeOK and EveryServerIsHeld.                   *)
(***************************************************************************)
EXTENDS SidecarLifecycle, TLAPS

\* Who holds what: nobody when the application is gone; while it closes, the
\* slot has only what a respawn has put there too late.
Hands ==
  /\ app = "off" => child = NoNode /\ doomed = NoNode /\ loop = "off"
  /\ app = "up" => doomed = NoNode
  /\ app = "closing" => child \notin Alive \/ child \in strays

\* A connection leads to a process that was listening.
Peers == peer \in Alive => ph[peer] \in {"listen", "stopping"}

\* A signal is handled by a process that is there.
Signals == asked \subseteq Alive

LifeInv == Signals /\ TypeOK /\ EveryServerIsHeld /\ Hands /\ Peers

LEMMA LifeInit == Init => LifeInv
<1> SUFFICES ASSUME Init PROVE LifeInv
  OBVIOUS
<1>1. TypeOK
  <2>1. ph \in [Nodes -> Phases] /\ last \in [Nodes -> Records]
    BY DEF Init, Phases, Records
  <2>2. runs \in 0 .. MaxRuns /\ faults \in 0 .. MaxFaults
    BY LifecycleAssumption DEF Init
  <2>3. /\ {child, doomed, peer} \subseteq Nodes \cup {NoNode} /\ ahead \in BOOLEAN
        /\ app = "off" /\ loop = "off" /\ asked = {} /\ guests = {} /\ strays = {}
    BY DEF Init
  <2> QED BY <2>1, <2>2, <2>3 DEF TypeOK, Places
<1>2. Alive = {} /\ app = "off" /\ asked = {}
  BY DEF Init, Alive
<1>3. EveryServerIsHeld /\ Peers /\ Signals
  BY <1>2 DEF EveryServerIsHeld, Peers, Signals
<1>4. Hands
  BY DEF Init, Hands
<1> QED BY <1>1, <1>3, <1>4 DEF LifeInv

-----------------------------------------------------------------------------
(* What the parts of an action do                                          *)

\* A process that ends is no longer alive.
LEMMA EndsFacts ==
  ASSUME TypeOK, NEW n \in Nodes, NEW hook \in BOOLEAN, Ends(n, hook)
  PROVE  /\ ph' \in [Nodes -> Phases] /\ last' \in [Nodes -> Records]
         /\ asked' \subseteq Nodes /\ guests' \subseteq Nodes
         /\ Alive' = Alive \ {n} /\ \A m \in Alive' : ph'[m] = ph[m]
         /\ Signals => Signals'
<1> USE DEF Ends, TypeOK, Phases, Records
<1>1. /\ ph' \in [Nodes -> Phases] /\ last' \in [Nodes -> Records]
      /\ asked' \subseteq Nodes /\ guests' \subseteq Nodes
  OBVIOUS
<1>2. Alive' = Alive \ {n} /\ \A m \in Alive' : ph'[m] = ph[m]
  BY DEF Alive
<1>3. Signals => Signals'
  BY <1>2 DEF Signals
<1> QED BY <1>1, <1>2, <1>3

\* A process that goes on is alive before and after.
LEMMA GetsFacts ==
  ASSUME TypeOK, NEW n \in Nodes, NEW phase \in Phases \ {"dead"},
         NEW record \in Records, Gets(n, phase, record)
  PROVE  /\ ph' \in [Nodes -> Phases] /\ last' \in [Nodes -> Records]
         /\ Alive' = Alive \cup {n} /\ ph'[n] = phase /\ \A m \in Nodes \ {n} : ph'[m] = ph[m]
<1> USE DEF Gets, TypeOK
<1>1. ph' \in [Nodes -> Phases] /\ last' \in [Nodes -> Records]
  OBVIOUS
<1>2. Alive' = Alive \cup {n} /\ ph'[n] = phase /\ \A m \in Nodes \ {n} : ph'[m] = ph[m]
  BY DEF Alive
<1> QED BY <1>1, <1>2

\* A process that is started is a new one.
LEMMA StartsFacts ==
  ASSUME TypeOK, NEW n \in Nodes, Starts(n)
  PROVE  /\ ph' \in [Nodes -> Phases] /\ last' \in [Nodes -> Records]
         /\ asked' \subseteq Nodes /\ guests' \subseteq Nodes
         /\ n \notin Alive /\ n \notin {child, doomed, peer}
         /\ Alive' = Alive \cup {n} /\ \A m \in Nodes \ {n} : ph'[m] = ph[m]
<1>1. Gets(n, "boot", "none") /\ UNCHANGED <<asked, guests>>
  BY DEF Starts
<1>2. n \notin Alive /\ n \notin {child, doomed, peer}
  BY DEF Starts, Fresh
<1>3. /\ ph' \in [Nodes -> Phases] /\ last' \in [Nodes -> Records]
      /\ Alive' = Alive \cup {n} /\ \A m \in Nodes \ {n} : ph'[m] = ph[m]
  BY <1>1, GetsFacts DEF Phases, Records
<1> QED BY <1>1, <1>2, <1>3 DEF TypeOK

\* What nobody but the processes touches.
LEMMA ApplicationUntouched ==
  ASSUME LifeInv, UNCHANGED appVars, strays' = strays, Alive' \subseteq Alive,
         \A n \in Alive' : ph'[n] = ph[n] \/ ph'[n] = "stopping" \/ ph[n] \in {"boot", "init"}
  PROVE  EveryServerIsHeld' /\ Hands' /\ Peers'
<1> QED BY DEF LifeInv, EveryServerIsHeld, Hands, Peers, appVars, Alive

-----------------------------------------------------------------------------
(* Every step keeps the invariant                                          *)

LEMMA ProcessStep ==
  ASSUME LifeInv, NEW n \in Nodes, NodeStep(n) \/ Outside(n)
  PROVE  LifeInv'
<1> USE DEF LifeInv
<1>1. CASE Booted(n)
  <2>1. Gets(n, "init", "start") /\ ph[n] = "boot" /\ UNCHANGED <<appVars, asked, guests, strays, runs, faults>>
    BY <1>1 DEF Booted
  <2>2. /\ ph' \in [Nodes -> Phases] /\ last' \in [Nodes -> Records]
        /\ Alive' = Alive \cup {n} /\ \A m \in Nodes \ {n} : ph'[m] = ph[m]
    BY <2>1, GetsFacts DEF Phases, Records
  <2>3. Alive' = Alive
    BY <2>1, <2>2 DEF Alive
  <2>4. EveryServerIsHeld' /\ Hands' /\ Peers'
    BY <2>1, <2>2, <2>3, ApplicationUntouched DEF Alive
  <2> QED BY <2>1, <2>2, <2>3, <2>4 DEF TypeOK, Signals, appVars
<1>2. CASE Binds(n)
  <2>1. PICK phase \in {"listen", "deaf"}, record \in {"listening", "error"} :
          /\ Gets(n, phase, record) /\ ph[n] = "init"
          /\ UNCHANGED <<appVars, asked, guests, strays, runs, faults>>
    BY <1>2 DEF Binds
  <2>2. /\ ph' \in [Nodes -> Phases] /\ last' \in [Nodes -> Records]
        /\ Alive' = Alive \cup {n} /\ \A m \in Nodes \ {n} : ph'[m] = ph[m]
    BY <2>1, GetsFacts DEF Phases, Records
  <2>3. Alive' = Alive
    BY <2>1, <2>2 DEF Alive
  <2>4. EveryServerIsHeld' /\ Hands' /\ Peers'
    BY <2>1, <2>2, <2>3, ApplicationUntouched DEF Alive
  <2> QED BY <2>1, <2>2, <2>3, <2>4 DEF TypeOK, Signals, appVars
<1>3. ASSUME NEW hook \in BOOLEAN, Ends(n, hook), UNCHANGED <<appVars, strays>>
      PROVE  EveryServerIsHeld' /\ Hands' /\ Peers' /\ Signals'
  <2>1. Alive' = Alive \ {n} /\ (\A m \in Alive' : ph'[m] = ph[m]) /\ Signals'
    BY <1>3, EndsFacts
  <2> QED BY <1>3, <2>1, ApplicationUntouched
<1>4. ASSUME NEW hook \in BOOLEAN, Ends(n, hook), UNCHANGED <<appVars, strays, runs>>,
             faults' = faults \/ Fault
      PROVE  TypeOK'
  <2>1. /\ ph' \in [Nodes -> Phases] /\ last' \in [Nodes -> Records]
        /\ asked' \subseteq Nodes /\ guests' \subseteq Nodes
    BY <1>4, EndsFacts
  <2>2. faults' \in 0 .. MaxFaults
    BY <1>4, LifecycleAssumption DEF Fault, TypeOK
  <2> QED BY <1>4, <2>1, <2>2 DEF TypeOK, appVars
<1>5. CASE StartFails(n) \/ RunsOut(n) \/ Closed(n) \/ GivesUp(n) \/ Crash(n)
  <2>1. PICK hook \in BOOLEAN : Ends(n, hook) /\ UNCHANGED <<appVars, strays, runs>> /\ (faults' = faults \/ Fault)
    BY <1>5 DEF StartFails, RunsOut, Closed, GivesUp, Crash
  <2> QED BY <2>1, <1>3, <1>4
<1>6. CASE HandlesSignal(n)
  <2>1. UNCHANGED <<appVars, strays, runs, faults>>
    BY <1>6 DEF HandlesSignal
  <2>2. CASE \E hook \in BOOLEAN : Ends(n, hook)
    BY <2>1, <2>2, <1>3, <1>4
  <2>3. CASE ph[n] \in {"listen", "deaf"} /\ Gets(n, "stopping", "shutdown") /\ asked' = asked \ {n} /\ UNCHANGED guests
    <3>1. /\ ph' \in [Nodes -> Phases] /\ last' \in [Nodes -> Records]
          /\ Alive' = Alive \cup {n} /\ ph'[n] = "stopping" /\ \A m \in Nodes \ {n} : ph'[m] = ph[m]
      BY <2>3, GetsFacts DEF Phases, Records
    <3>2. Alive' = Alive
      BY <2>3, <3>1 DEF Alive
    <3>3. EveryServerIsHeld' /\ Hands' /\ Peers'
      BY <2>1, <3>1, <3>2, ApplicationUntouched DEF Alive
    <3> QED BY <2>1, <2>3, <3>1, <3>2, <3>3 DEF TypeOK, Signals, appVars
  <2>4. CASE asked' = asked \ {n} /\ UNCHANGED <<ph, last, guests>>
    BY <2>1, <2>4 DEF TypeOK, EveryServerIsHeld, Hands, Peers, Signals, Alive, appVars
  <2>5. ph[n] \in Phases \ {"dead"} /\ n \in asked
    BY <1>6 DEF HandlesSignal, Signals, Alive, TypeOK
  <2> QED BY <1>6, <2>2, <2>3, <2>4, <2>5 DEF HandlesSignal, Phases
<1>7. CASE Signal(n) \/ GuestJoins(n) \/ GuestLeaves(n)
  <2>1. /\ UNCHANGED <<appVars, ph, last, strays, runs>>
        /\ asked' \subseteq Nodes /\ guests' \subseteq Nodes /\ (faults' = faults \/ Fault)
    BY <1>7 DEF Signal, GuestJoins, GuestLeaves, TypeOK, Listening
  <2>2. faults' \in 0 .. MaxFaults
    BY <2>1, LifecycleAssumption DEF Fault, TypeOK
  <2>3. TypeOK'
    BY <2>1, <2>2 DEF TypeOK, appVars
  <2>4. Alive' = Alive /\ Signals'
    BY <1>7, <2>1 DEF Alive, Signals, Signal, GuestJoins, GuestLeaves
  <2>5. EveryServerIsHeld' /\ Hands' /\ Peers'
    BY <2>1, <2>4 DEF EveryServerIsHeld, Hands, Peers, appVars
  <2> QED BY <2>3, <2>4, <2>5
<1>8. CASE StartedInTerminal(n)
  <2>1. Starts(n) /\ strays' = strays \cup {n} /\ UNCHANGED <<appVars, runs>> /\ Fault
    BY <1>8 DEF StartedInTerminal
  <2>2. /\ ph' \in [Nodes -> Phases] /\ last' \in [Nodes -> Records]
        /\ asked' \subseteq Nodes /\ guests' \subseteq Nodes
        /\ n \notin {child, doomed, peer}
        /\ Alive' = Alive \cup {n} /\ \A m \in Nodes \ {n} : ph'[m] = ph[m]
    BY <2>1, StartsFacts
  <2>3. TypeOK'
    BY <2>1, <2>2, LifecycleAssumption DEF TypeOK, Fault, appVars
  <2>4. EveryServerIsHeld' /\ Hands' /\ Peers'
    BY <2>1, <2>2 DEF EveryServerIsHeld, Hands, Peers, appVars, Alive, TypeOK
  <2> QED BY <2>1, <2>2, <2>3, <2>4 DEF Signals, Starts
<1> QED BY <1>1, <1>2, <1>5, <1>6, <1>7, <1>8 DEF NodeStep, Outside

LEMMA LoopKeeps ==
  ASSUME LifeInv, LoopStep \/ SpawnFails
  PROVE  LifeInv'
<1> USE DEF LifeInv
<1>1. CASE Refused \/ ConnectionEnds \/ Redials \/ LooksAtChild \/ \E n \in Nodes : Connects(n)
  <2>1. /\ UNCHANGED <<app, doomed, ahead, nodeVars, strays, runs, faults>> /\ loop' \in Places
        /\ child' = child \/ (child \notin Alive /\ child' = NoNode)
        /\ peer' \in Listening \cup {peer, NoNode}
    BY <1>1 DEF Refused, ConnectionEnds, Redials, LooksAtChild, Connects, Places
  <2>2. UNCHANGED <<ph, asked, guests, last, Alive>>
    BY <2>1 DEF nodeVars, Alive
  <2>3. TypeOK'
    BY <2>1, <2>2 DEF TypeOK, Listening
  <2>4. NoNode \notin Alive
    BY LifecycleAssumption DEF Alive
  <2>5. EveryServerIsHeld' /\ Signals'
    BY <2>1, <2>2, <2>4 DEF EveryServerIsHeld, Signals
  <2>6. Hands'
    BY <1>1, <2>1, <2>2, <2>4 DEF Hands, Refused, ConnectionEnds, Redials, LooksAtChild, Connects
  <2>7. Peers'
    BY <2>1, <2>2, <2>4 DEF Peers, Listening
  <2> QED BY <2>3, <2>5, <2>6, <2>7
<1>2. ASSUME NEW n \in Nodes, Respawns(n)
      PROVE  LifeInv'
  <2>1. /\ Starts(n) /\ child' = n /\ loop' = "lost"
        /\ strays' = (strays \ {n}) \cup (Alive \cap {child}) \cup (IF app = "closing" THEN {n} ELSE {})
        /\ UNCHANGED <<app, doomed, peer, ahead, runs, faults>> /\ loop = "backoff"
    BY <1>2 DEF Respawns
  <2>2. /\ ph' \in [Nodes -> Phases] /\ last' \in [Nodes -> Records]
        /\ asked' \subseteq Nodes /\ guests' \subseteq Nodes
        /\ n \notin Alive /\ n \notin {child, doomed, peer}
        /\ Alive' = Alive \cup {n} /\ (\A m \in Nodes \ {n} : ph'[m] = ph[m])
    BY <2>1, StartsFacts
  <2>3. TypeOK'
    BY <2>1, <2>2 DEF TypeOK, Alive, Places
  <2>4. app # "off"
    BY <2>1 DEF Hands
  <2>5. EveryServerIsHeld' /\ Hands' /\ Peers' /\ Signals'
    BY <2>1, <2>2, <2>4 DEF EveryServerIsHeld, Hands, Peers, Signals, Alive, Starts
  <2> QED BY <2>2, <2>3, <2>5
<1>3. CASE SpawnFails
  <2>1. /\ child' = NoNode /\ strays' = strays \cup (Alive \cap {child}) /\ loop' = "lost"
        /\ UNCHANGED <<app, doomed, peer, ahead, nodeVars, runs>> /\ Fault
    BY <1>3 DEF SpawnFails
  <2>2. UNCHANGED <<ph, asked, guests, last, Alive>>
    BY <2>1 DEF nodeVars, Alive
  <2>3. TypeOK'
    BY <2>1, <2>2, LifecycleAssumption DEF TypeOK, Fault, Alive, Places
  <2>4. NoNode \notin Alive
    BY LifecycleAssumption DEF Alive
  <2>5. EveryServerIsHeld' /\ Peers' /\ Signals'
    BY <2>1, <2>2, <2>4 DEF EveryServerIsHeld, Peers, Signals
  <2>6. Hands'
    BY <1>3, <2>2, <2>4 DEF Hands, SpawnFails
  <2> QED BY <2>3, <2>5, <2>6
<1> QED BY <1>1, <1>2, <1>3 DEF LoopStep

LEMMA ApplicationStep ==
  ASSUME LifeInv, User \/ Reaps \/ Kills
  PROVE  LifeInv'
<1> USE DEF LifeInv
<1>a. NoNode \notin Alive /\ Alive \subseteq Nodes
  BY LifecycleAssumption DEF Alive
<1>1. ASSUME AppEnds, UNCHANGED nodeVars, runs' = runs, strays' \subseteq Nodes,
             Alive \subseteq strays', faults' = faults \/ Fault
      PROVE  LifeInv'
  <2>1. UNCHANGED <<ph, asked, guests, last, Alive>>
    BY <1>1 DEF nodeVars, Alive
  <2>2. TypeOK'
    <3>1. faults' \in 0 .. MaxFaults
      BY <1>1, LifecycleAssumption DEF Fault, TypeOK
    <3>2. /\ app' = "off" /\ loop' = "off" /\ child' = NoNode /\ doomed' = NoNode /\ peer' = NoNode
          /\ ahead' = FALSE
      BY <1>1 DEF AppEnds
    <3> QED BY <1>1, <2>1, <3>1, <3>2 DEF TypeOK, Places
  <2>3. EveryServerIsHeld' /\ Hands' /\ Peers' /\ Signals'
    BY <1>1, <1>a, <2>1 DEF AppEnds, EveryServerIsHeld, Hands, Peers, Signals
  <2> QED BY <2>2, <2>3
<1>2. ASSUME NEW n \in Nodes, AppStarts(n)
      PROVE  LifeInv'
  <2>1. /\ Starts(n) /\ child' = n /\ loop' = "dial" /\ strays' = strays \ {n} /\ app = "off" /\ app' = "up"
        /\ UNCHANGED <<doomed, peer, ahead, faults>> /\ runs < MaxRuns /\ runs' = runs + 1
    BY <1>2 DEF AppStarts
  <2>2. /\ ph' \in [Nodes -> Phases] /\ last' \in [Nodes -> Records]
        /\ asked' \subseteq Nodes /\ guests' \subseteq Nodes
        /\ n \notin Alive /\ n \notin {child, doomed, peer}
        /\ Alive' = Alive \cup {n} /\ (\A m \in Nodes \ {n} : ph'[m] = ph[m])
    BY <2>1, StartsFacts
  <2>3. TypeOK'
    BY <2>1, <2>2, LifecycleAssumption DEF TypeOK, Places
  <2>4. EveryServerIsHeld' /\ Hands' /\ Peers' /\ Signals'
    BY <1>a, <2>1, <2>2 DEF EveryServerIsHeld, Hands, Peers, Signals, Starts, Alive
  <2> QED BY <2>2, <2>3, <2>4
<1>3. ASSUME NEW n \in Nodes, Restart(n)
      PROVE  LifeInv'
  <2>1. /\ app = "up" /\ Fault /\ n \in Fresh
        /\ ph' = [m \in Nodes |-> CASE m = n -> "boot" [] m = child -> "dead" [] OTHER -> ph[m]]
        /\ last' = [last EXCEPT ![n] = "none"]
        /\ asked' = asked \ {child} /\ guests' = guests \ {child}
        /\ child' = n /\ strays' = strays \ {n}
        /\ UNCHANGED <<app, doomed, loop, peer, ahead, runs>>
    BY <1>3 DEF Restart
  <2>2. n \notin Alive /\ n \notin {child, doomed, peer}
    BY <2>1 DEF Fresh
  <2>3. /\ ph' \in [Nodes -> Phases] /\ last' \in [Nodes -> Records]
        /\ asked' \subseteq Nodes /\ guests' \subseteq Nodes
    BY <2>1, <1>a DEF TypeOK, Phases, Records
  <2>4. TypeOK'
    BY <2>1, <2>3, LifecycleAssumption DEF TypeOK, Fault
  <2>5. Alive' = (Alive \ {child}) \cup {n} /\ \A m \in Alive' \ {n} : ph'[m] = ph[m]
    BY <2>1, <2>2 DEF Alive
  <2>6. EveryServerIsHeld' /\ Hands' /\ Peers' /\ Signals'
    BY <2>1, <2>2, <2>5 DEF EveryServerIsHeld, Hands, Peers, Signals
  <2> QED BY <2>4, <2>6
<1>4. CASE Close
  <2>1. CASE child = NoNode
    <3>1. AppEnds /\ UNCHANGED <<nodeVars, strays, runs, faults>> /\ doomed = NoNode
      BY <1>4, <2>1 DEF Close, nodeVars, Hands
    <3> QED BY <1>1, <1>a, <2>1, <3>1 DEF EveryServerIsHeld, TypeOK
  <2>2. CASE child # NoNode
    <3>1. /\ app' = "closing" /\ doomed' = child /\ child' = NoNode
          /\ asked' = asked \cup (Alive \cap {child}) /\ ahead' = (ph[child] = "stopping")
          /\ UNCHANGED <<loop, peer, ph, guests, last, strays, runs, faults>> /\ app = "up"
      BY <1>4, <2>2 DEF Close
    <3>2. TypeOK' /\ Alive' = Alive
      BY <1>a, <3>1 DEF TypeOK, Alive
    <3>3. EveryServerIsHeld' /\ Hands' /\ Peers' /\ Signals'
      BY <1>a, <3>1, <3>2 DEF EveryServerIsHeld, Hands, Peers, Signals
    <3> QED BY <3>2, <3>3
  <2> QED BY <2>1, <2>2
<1>5. CASE AppDies
  <2>1. AppEnds /\ strays' = strays \cup (Alive \cap {child, doomed}) /\ UNCHANGED <<nodeVars, runs>> /\ Fault
    BY <1>5 DEF AppDies
  <2>2. strays' \subseteq Nodes /\ Alive \subseteq strays'
    BY <1>a, <2>1 DEF EveryServerIsHeld, TypeOK
  <2> QED BY <1>1, <2>1, <2>2
<1>6. CASE Reaps
  <2>1. AppEnds /\ UNCHANGED <<nodeVars, strays, runs, faults>> /\ app = "closing" /\ doomed \notin Alive
    BY <1>6 DEF Reaps
  <2>2. Alive \subseteq strays'
    BY <2>1 DEF EveryServerIsHeld, Hands
  <2> QED BY <1>1, <2>1, <2>2 DEF TypeOK
<1>7. CASE Kills
  <2>1. Ends(doomed, FALSE) /\ AppEnds /\ UNCHANGED <<strays, runs, faults>> /\ app = "closing" /\ doomed \in Alive
    BY <1>7 DEF Kills
  <2>2. /\ ph' \in [Nodes -> Phases] /\ last' \in [Nodes -> Records]
        /\ asked' \subseteq Nodes /\ guests' \subseteq Nodes
        /\ Alive' = Alive \ {doomed} /\ Signals'
    BY <1>a, <2>1, EndsFacts
  <2>3. TypeOK'
    BY <2>1, <2>2 DEF TypeOK, AppEnds, Places
  <2>4. EveryServerIsHeld' /\ Hands' /\ Peers'
    BY <1>a, <2>1, <2>2, LifecycleAssumption DEF EveryServerIsHeld, Hands, Peers, AppEnds, Alive
  <2> QED BY <2>2, <2>3, <2>4
<1>8. CASE AppStartsBare
  <2>1. /\ app = "off" /\ app' = "up" /\ loop' = "dial" /\ runs < MaxRuns /\ runs' = runs + 1 /\ Fault
        /\ UNCHANGED <<child, doomed, peer, ahead, nodeVars, strays>>
    BY <1>8 DEF AppStartsBare
  <2>2. UNCHANGED <<ph, asked, guests, last, Alive>>
    BY <2>1 DEF nodeVars, Alive
  <2>3. TypeOK'
    BY <2>1, <2>2, LifecycleAssumption DEF TypeOK, Places, Fault
  <2>4. EveryServerIsHeld' /\ Hands' /\ Peers' /\ Signals'
    BY <2>1, <2>2 DEF EveryServerIsHeld, Hands, Peers, Signals
  <2> QED BY <2>3, <2>4
<1>9. CASE RestartFails
  <2>1. /\ app = "up" /\ Fault /\ child' = NoNode
        /\ UNCHANGED <<app, doomed, loop, peer, ahead, strays, runs>>
    BY <1>9 DEF RestartFails
  <2>2. /\ ph' \in [Nodes -> Phases] /\ last' \in [Nodes -> Records]
        /\ asked' \subseteq Nodes /\ guests' \subseteq Nodes
        /\ Alive' = Alive \ {child} /\ (\A m \in Alive' : ph'[m] = ph[m]) /\ Signals'
    <3>1. CASE child \in Alive
      BY <1>9, <1>a, <3>1, EndsFacts DEF RestartFails
    <3>2. CASE child \notin Alive
      BY <1>9, <3>2 DEF RestartFails, nodeVars, Alive, TypeOK, Signals
    <3> QED BY <3>1, <3>2
  <2>3. TypeOK'
    BY <2>1, <2>2, LifecycleAssumption DEF TypeOK, Fault
  <2>4. EveryServerIsHeld' /\ Hands' /\ Peers'
    BY <1>a, <2>1, <2>2 DEF EveryServerIsHeld, Hands, Peers
  <2> QED BY <2>2, <2>3, <2>4
<1> QED BY <1>2, <1>3, <1>4, <1>5, <1>6, <1>7, <1>8, <1>9 DEF User

LEMMA LifeStep == LifeInv /\ [Next]_vars => LifeInv'
<1> SUFFICES ASSUME LifeInv, [Next]_vars
             PROVE  LifeInv'
  OBVIOUS
<1>1. CASE UNCHANGED vars
  BY <1>1
  DEF vars, appVars, nodeVars, LifeInv, TypeOK, EveryServerIsHeld, Hands, Peers,
      Signals, Alive
<1>2. CASE Next
  BY <1>2, ProcessStep, LoopKeeps, ApplicationStep DEF Next
<1> QED BY <1>1, <1>2

LEMMA LifeCorrect == Spec => []LifeInv
<1> QED BY LifeInit, LifeStep, PTL DEF Spec

-----------------------------------------------------------------------------
\* Every variable keeps to its type, however many processes and runs there are.
THEOREM LifeTypeCorrect == Spec => []TypeOK
<1>1. LifeInv => TypeOK
  BY DEF LifeInv
<1> QED BY LifeCorrect, <1>1, PTL

\* No process is forgotten: it is in the slot, in the hand of shutdown(), or a
\* stray (started in a terminal, outlived its application, or written over in
\* the slot by the respawn).
THEOREM NobodyForgotten == Spec => []EveryServerIsHeld
<1>1. LifeInv => EveryServerIsHeld
  BY DEF LifeInv
<1> QED BY LifeCorrect, <1>1, PTL
=============================================================================
