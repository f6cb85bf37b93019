-------------------------- MODULE PipelineLockProofs --------------------------
(***************************************************************************)
(* Theorems about PipelineLock, for any processes and operations:          *)
(*   - TypeOK, in every environment;                                       *)
(*   - MutualExclusion, HolderIsVisible and ImplementsWriteLock where at   *)
(*     most a creation fails (db.unlock without force included): CalmInv;  *)
(*   - NoLeftover where removals succeed, without db.unlock: KeeperInv.    *)
(***************************************************************************)
EXTENDS PipelineLock, TLAPS

TopLevel(o) == ProcOf[o] \notin ChildProcs

-----------------------------------------------------------------------------
(* The invariant of the environments where nothing fails.                  *)

\* No process is lost but a script that returned.
CalmProcs ==
  /\ \A p \in Procs : status[p] # "reused" /\ upc[p] \in {"idle", "judge"}
  /\ \A p \in Procs \ ChildProcs : status[p] = "alive" /\ ~inherited[p]

\* The file belongs to the one section in progress.
CalmFile ==
  /\ file # NoFile =>
       /\ file.full /\ file.fresh
       /\ TopLevel(file.owner)
       /\ pc[file.owner] \in InSection
  /\ \A o \in Ops : TopLevel(o) /\ pc[o] \in InSection => file.owner = o

\* Nobody reads a lock that could be taken, so nobody takes one.
CalmReaders ==
  /\ \A o \in Ops :
       /\ pc[o] \notin {"write", "steal"}
       /\ pc[o] = "judge" =>
            seen[o].owner \in Ops /\ seen[o].full /\ TopLevel(seen[o].owner)
  /\ \A p \in Procs : upc[p] = "judge" =>
       useen[p].owner \in Ops /\ useen[p].full /\ TopLevel(useen[p].owner)

\* The section's operation has the heartbeat running.
CalmHolder ==
  \A o \in Ops : TopLevel(o) =>
    /\ pc[o] = "held" => timer[ProcOf[o]] /\ heldLock[ProcOf[o]]
    /\ pc[o] \in {"create", "inspect", "judge"} => att[o] > 0

\* A script lives inside its parent's section and takes part in it only by
\* inheritance.
CalmScripts ==
  /\ \A p \in ChildProcs : status[p] = "alive" => pc[SpawnerOf[p]] = "held"
  /\ \A p, q \in ChildProcs :
       SpawnerOf[p] = SpawnerOf[q] /\ status[p] = "alive" /\ status[q] = "alive"
         => p = q
  /\ \A o \in Ops : ProcOf[o] \in ChildProcs =>
       /\ pc[o] \in {"idle", "inspect", "judge", "held"}
       /\ att[o] = 0
       /\ pc[o] # "idle" => status[ProcOf[o]] = "alive"
       /\ pc[o] = "judge" => seen[o].owner = SpawnerOf[ProcOf[o]]
       /\ pc[o] = "held" => heldLock[ProcOf[o]] /\ inherited[ProcOf[o]]

CalmInv ==
  /\ TypeOK
  /\ CalmProcs /\ CalmFile /\ CalmReaders /\ CalmHolder /\ CalmScripts

-----------------------------------------------------------------------------
(* The invariant of the environments without db.unlock.                    *)

\* An operation whose remaining steps remove a file that names its process.
Keeper(o) ==
  \/ pc[o] \in {"grant", "relread", "unlink"}
  \/ pc[o] = "held" /\ heldLock[ProcOf[o]] /\ ~inherited[ProcOf[o]]

KeeperOfFile ==
  \A p \in Procs :
    /\ file # NoFile /\ file.full /\ ProcOf[file.owner] = p /\ status[p] = "alive"
    => \E o \in Ops : ProcOf[o] = p /\ Keeper(o)

FileIsOfBorn == file # NoFile => status[ProcOf[file.owner]] # "unborn"

InheritCheck ==
  \A o \in Ops :
    pc[o] \in {"create", "inspect", "judge", "steal"} /\ att[o] = 0 =>
      pc[o] \in {"inspect", "judge"} /\ ProcOf[o] \in ChildProcs

KeeperInv ==
  /\ TypeOK
  /\ KeeperOfFile /\ FileIsOfBorn /\ InheritCheck
  /\ \A p \in Procs : upc[p] = "idle"

-----------------------------------------------------------------------------
(* Type correctness                                                        *)

\* A created file, and a file whose text or mtime changes, is a lock file.
LEMMA FileCreated ==
  ASSUME NEW o \in Ops, NEW b \in BOOLEAN
  PROVE  /\ NewLock(o, b) \in LockFiles /\ NewLock(o, b).owner = o
         /\ NewLock(o, b).full = b /\ NewLock(o, b).fresh
BY DEF NewLock, LockFiles

\* What is read of a lock file is a text, by its owner.
LEMMA TextRead ==
  ASSUME NEW f \in LockFiles
  PROVE  /\ Text(f) \in Texts /\ Text(f).owner = f.owner /\ Text(f).full = f.full
         /\ f.owner \in Ops /\ f.full \in BOOLEAN
BY DEF Text, Texts, LockFiles

LEMMA TouchedFile ==
  ASSUME NEW f \in LockFiles, NEW b \in BOOLEAN
  PROVE  /\ [f EXCEPT !.full = b] \in LockFiles
         /\ [f EXCEPT !.fresh = b] \in LockFiles
BY DEF LockFiles

\* The owner tells a lock file from none.
LEMMA FileOwner ==
  ASSUME NEW f \in LockFiles \cup {NoFile}
  PROVE  /\ f.owner \in Ops <=> f # NoFile
         /\ f # NoFile => f \in LockFiles
BY LockAssumption DEF LockFiles, NoFile

LEMMA InitType == Init => TypeOK
BY LockAssumption DEF Init, TypeOK, NoFile, LockFiles, MaxAttempts

\* Every step keeps every variable in its type.
LEMMA TypeStep == TypeOK /\ [Next]_vars => TypeOK'
<1> SUFFICES ASSUME TypeOK, [Next]_vars PROVE TypeOK'
  OBVIOUS
<1> USE LockAssumption DEF TypeOK, MaxAttempts
<1>1. ASSUME NEW o \in Ops, Start(o) PROVE TypeOK'
  BY <1>1 DEF Start, Goto, At, Alive
<1>2. ASSUME NEW o \in Ops, Create(o) PROVE TypeOK'
  <2>1. file' \in LockFiles \cup {NoFile}
    BY <1>2, FileCreated DEF Create
  <2> QED
    BY <1>2, <2>1 DEF Create, Goto
<1>3. ASSUME NEW o \in Ops, Write(o) PROVE TypeOK'
  <2>1. file' \in LockFiles \cup {NoFile}
    BY <1>3, TouchedFile, FileOwner DEF Write
  <2> QED
    BY <1>3, <2>1 DEF Write, Goto
<1>4. ASSUME NEW o \in Ops, Grant(o) PROVE TypeOK'
  BY <1>4 DEF Grant, Goto, At, Alive
<1>5. ASSUME NEW o \in Ops, Inspect(o) PROVE TypeOK'
  <2>1. seen' \in [Ops -> Texts \cup {NoText}]
    BY <1>5, TextRead DEF Inspect
  <2> QED
    BY <1>5, <2>1 DEF Inspect, Retry, Goto, At, Alive
<1>6. ASSUME NEW o \in Ops, Inherit(o) PROVE TypeOK'
  BY <1>6 DEF Inherit, Forget, Goto, At, Alive
<1>7. ASSUME NEW o \in Ops, InheritFails(o) PROVE TypeOK'
  BY <1>7 DEF InheritFails, Retry, Forget, Goto, At, Alive
<1>8. ASSUME NEW o \in Ops, Refuse(o) PROVE TypeOK'
  BY <1>8 DEF Refuse, Forget, Goto, At, Alive
<1>9. ASSUME NEW o \in Ops, DecideToSteal(o) PROVE TypeOK'
  BY <1>9 DEF DecideToSteal, Forget, Goto, At, Alive
<1>10. ASSUME NEW o \in Ops, Steal(o) PROVE TypeOK'
  BY <1>10 DEF Steal, Retry, Goto, At, Alive
<1>11. ASSUME NEW o \in Ops, End(o) PROVE TypeOK'
  BY <1>11 DEF End, Goto, At, Alive
<1>12. ASSUME NEW o \in Ops, RelRead(o) PROVE TypeOK'
  BY <1>12 DEF RelRead, Goto, At, Alive
<1>13. ASSUME NEW o \in Ops, Unlink(o) PROVE TypeOK'
  BY <1>13 DEF Unlink, Goto, At, Alive
<1>14. ASSUME NEW p \in Procs, UnlockRead(p) PROVE TypeOK'
  <2>1. useen' \in [Procs -> Texts \cup {NoText}]
    BY <1>14, TextRead DEF UnlockRead
  <2> QED
    BY <1>14, <2>1 DEF UnlockRead, UGoto
<1>15. ASSUME NEW p \in Procs, UnlockJudge(p) PROVE TypeOK'
  BY <1>15 DEF UnlockJudge, UGoto
<1>16. ASSUME NEW p \in Procs, UnlockRemove(p) PROVE TypeOK'
  BY <1>16 DEF UnlockRemove, UGoto
<1>17. ASSUME NEW p \in Procs, UnlockForget(p) PROVE TypeOK'
  BY <1>17 DEF UnlockForget, UGoto
<1>18. ASSUME NEW p \in Procs, Heartbeat(p) PROVE TypeOK'
  BY <1>18, TouchedFile DEF Heartbeat
<1>19. ASSUME NEW p \in Procs, Spawn(p) PROVE TypeOK'
  BY <1>19 DEF Spawn
<1>20. ASSUME NEW p \in Procs, ChildExit(p) PROVE TypeOK'
  BY <1>20 DEF ChildExit, Vanish
<1>21. ASSUME NEW p \in Procs, Crash(p) PROVE TypeOK'
  BY <1>21 DEF Crash, Vanish
<1>22. ASSUME NEW p \in Procs, Exit(p) PROVE TypeOK'
  BY <1>22 DEF Exit, Vanish
<1>23. ASSUME NEW p \in Procs, ReusePid(p) PROVE TypeOK'
  BY <1>23 DEF ReusePid
<1>24. CASE Expire
  BY <1>24, TouchedFile DEF Expire
<1>25. CASE UNCHANGED vars
  BY <1>25 DEF vars
<1>26. ASSUME NEW o \in Ops, CreateFails(o) \/ StealFails(o) \/ UnlinkFails(o) PROVE TypeOK'
  BY <1>26 DEF CreateFails, StealFails, UnlinkFails, Throw, Goto, At, Alive
<1>27. ASSUME NEW p \in Procs, UnlockFails(p) PROVE TypeOK'
  BY <1>27 DEF UnlockFails, UGoto
<1> QED
  BY <1>1, <1>2, <1>3, <1>4, <1>5, <1>6, <1>7, <1>8, <1>9, <1>10, <1>11, <1>12, <1>13,
      <1>14, <1>15, <1>16, <1>17, <1>18, <1>19, <1>20, <1>21, <1>22, <1>23, <1>24, <1>25,
      <1>26, <1>27
  DEF Next, Step, Unlocking, ProcStep

\* Every variable stays in its type, whatever the environment does.
THEOREM TypeCorrect == Spec => []TypeOK
<1> QED BY InitType, TypeStep, PTL DEF Spec

-----------------------------------------------------------------------------
(* Where nothing fails                                                     *)

LEMMA CalmInit == Init => CalmInv
<1> SUFFICES ASSUME Init PROVE CalmInv
  OBVIOUS
<1> USE LockAssumption DEF Init, ChildProcs, TopLevel
<1>1. CalmProcs
  BY DEF CalmProcs
<1>2. CalmFile
  BY DEF CalmFile, InSection
<1>3. CalmReaders
  BY DEF CalmReaders
<1>4. CalmHolder
  BY DEF CalmHolder
<1>5. CalmScripts
  <2>1. \A p \in ChildProcs : status[p] = "unborn"
    OBVIOUS
  <2>2. \A o \in Ops : pc[o] = "idle" /\ att[o] = 0
    OBVIOUS
  <2> QED
    BY <2>1, <2>2 DEF CalmScripts
<1> QED
  BY InitType, <1>1, <1>2, <1>3, <1>4, <1>5 DEF CalmInv

\* No lock that anyone has read can be taken over or removed unasked.
LEMMA CalmJudgement ==
  ASSUME CalmInv
  PROVE  /\ \A o \in Ops : pc[o] = "judge" => ~Takeable(seen[o])
         /\ \A p \in Procs : upc[p] = "judge" => ~Takeable(useen[p])
BY LockAssumption
DEF CalmInv, CalmProcs, CalmFile, CalmReaders, Takeable, Broken, Stale,
    HeartbeatLost, IsProcessAlive, TopLevel, ChildProcs

\* A script that reads the lock finds its parent's.
LEMMA CalmInherits ==
  ASSUME CalmInv, NEW o \in Ops, pc[o] = "judge", att[o] = 0
  PROVE  ProcOf[seen[o].owner] = ProcOf[SpawnerOf[ProcOf[o]]]
BY DEF CalmInv, CalmHolder, CalmScripts, TopLevel

\* While a section is in progress its operation is not a script.
LEMMA SpawnerTopLevel ==
  ASSUME NEW p \in ChildProcs
  PROVE  SpawnerOf[p] \in Ops /\ TopLevel(SpawnerOf[p])
BY LockAssumption, ChildAssumption DEF ChildProcs, TopLevel

LEMMA CalmStep ==
  ASSUME Env \subseteq {"unlock", "disk"}, CalmInv, [Next]_vars
  PROVE  CalmInv'
<1> TypeOK /\ TypeOK'
  BY TypeStep DEF CalmInv
<1> file # NoFile => file.owner \in Ops
  BY FileOwner DEF TypeOK
<1> USE LockAssumption
<1>1. ASSUME NEW o \in Ops, Start(o) PROVE CalmInv'
  <2>1. CalmProcs'
    BY <1>1, SpawnerTopLevel
    DEF CalmInv, CalmProcs, CalmFile, CalmReaders, CalmHolder, CalmScripts, Start, Goto,
        At, Alive,
      TypeOK, TopLevel, InSection, ChildProcs
  <2>2. CalmFile'
    BY <1>1, SpawnerTopLevel
    DEF CalmInv, CalmProcs, CalmFile, CalmReaders, CalmHolder, CalmScripts, Start, Goto,
        At, Alive,
      TypeOK, TopLevel, InSection, ChildProcs
  <2>3. CalmReaders'
    BY <1>1, SpawnerTopLevel
    DEF CalmInv, CalmProcs, CalmFile, CalmReaders, CalmHolder, CalmScripts, Start, Goto,
        At, Alive,
      TypeOK, TopLevel, InSection, ChildProcs
  <2>4. CalmHolder'
    BY <1>1, SpawnerTopLevel
    DEF CalmInv, CalmProcs, CalmFile, CalmReaders, CalmHolder, CalmScripts, Start, Goto,
        At, Alive,
      TypeOK, TopLevel, InSection, ChildProcs
  <2>5. CalmScripts'
    BY <1>1, SpawnerTopLevel
    DEF CalmInv, CalmProcs, CalmFile, CalmReaders, CalmHolder, CalmScripts, Start, Goto,
        At, Alive,
      TypeOK, TopLevel, InSection, ChildProcs
  <2> QED BY <2>1, <2>2, <2>3, <2>4, <2>5 DEF CalmInv
<1>2. ASSUME NEW o \in Ops, Create(o) PROVE CalmInv'
  <2>1. CalmProcs'
    BY <1>2, SpawnerTopLevel
    DEF CalmInv, CalmProcs, CalmFile, CalmReaders, CalmHolder, CalmScripts, Create,
        Goto, At, Alive,
      TypeOK, TopLevel, InSection, ChildProcs
  <2>2. CalmFile'
    <3>1. CASE file # NoFile
      BY <1>2, <3>1
      DEF CalmInv, CalmProcs, CalmFile, CalmReaders, CalmHolder, CalmScripts, Create,
          Goto, At,
        TypeOK, TopLevel, InSection
    <3>2. CASE file = NoFile
      <4>0. "torn" \notin Env
        OBVIOUS
      <4>1. /\ file' = NewLock(o, TRUE)
            /\ pc' = [pc EXCEPT ![o] = "grant"]
        BY <1>2, <3>2, <4>0 DEF Create, Goto
      <4>2. TopLevel(o)
        BY <1>2 DEF CalmInv, CalmScripts, Create, At, TopLevel
      <4>3. file'.owner = o /\ file'.full /\ file'.fresh /\ file' # NoFile
        BY <4>1, FileCreated, FileOwner
      <4>4. pc'[o] = "grant" /\ \A q \in Ops : q # o => pc'[q] = pc[q]
        BY <4>1 DEF TypeOK
      <4>5. \A q \in Ops : q # o /\ TopLevel(q) => pc[q] \notin InSection
        BY <3>2, FileOwner DEF CalmInv, CalmFile
      <4> QED
        BY <4>2, <4>3, <4>4, <4>5 DEF CalmFile, TopLevel, InSection
    <3> QED
      BY <3>1, <3>2
  <2>3. CalmReaders'
    BY <1>2, SpawnerTopLevel
    DEF CalmInv, CalmProcs, CalmFile, CalmReaders, CalmHolder, CalmScripts, Create,
        Goto, At, Alive,
      TypeOK, TopLevel, InSection, ChildProcs
  <2>4. CalmHolder'
    BY <1>2, SpawnerTopLevel
    DEF CalmInv, CalmProcs, CalmFile, CalmReaders, CalmHolder, CalmScripts, Create,
        Goto, At, Alive,
      TypeOK, TopLevel, InSection, ChildProcs
  <2>5. CalmScripts'
    BY <1>2, SpawnerTopLevel
    DEF CalmInv, CalmProcs, CalmFile, CalmReaders, CalmHolder, CalmScripts, Create,
        Goto, At, Alive,
      TypeOK, TopLevel, InSection, ChildProcs
  <2> QED BY <2>1, <2>2, <2>3, <2>4, <2>5 DEF CalmInv
<1>3. ASSUME NEW o \in Ops, Grant(o) PROVE CalmInv'
  <2>1. CalmProcs'
    BY <1>3, SpawnerTopLevel
    DEF CalmInv, CalmProcs, CalmFile, CalmReaders, CalmHolder, CalmScripts, Grant, Goto,
        At, Alive,
      TypeOK, TopLevel, InSection, ChildProcs
  <2>2. CalmFile'
    BY <1>3, SpawnerTopLevel
    DEF CalmInv, CalmProcs, CalmFile, CalmReaders, CalmHolder, CalmScripts, Grant, Goto,
        At, Alive,
      TypeOK, TopLevel, InSection, ChildProcs
  <2>3. CalmReaders'
    BY <1>3, SpawnerTopLevel
    DEF CalmInv, CalmProcs, CalmFile, CalmReaders, CalmHolder, CalmScripts, Grant, Goto,
        At, Alive,
      TypeOK, TopLevel, InSection, ChildProcs
  <2>4. CalmHolder'
    BY <1>3, SpawnerTopLevel
    DEF CalmInv, CalmProcs, CalmFile, CalmReaders, CalmHolder, CalmScripts, Grant, Goto,
        At, Alive,
      TypeOK, TopLevel, InSection, ChildProcs
  <2>5. CalmScripts'
    BY <1>3, SpawnerTopLevel
    DEF CalmInv, CalmProcs, CalmFile, CalmReaders, CalmHolder, CalmScripts, Grant, Goto,
        At, Alive,
      TypeOK, TopLevel, InSection, ChildProcs
  <2> QED BY <2>1, <2>2, <2>3, <2>4, <2>5 DEF CalmInv
<1>4. ASSUME NEW o \in Ops, Inspect(o) PROVE CalmInv'
  <2>1. CalmProcs'
    BY <1>4, SpawnerTopLevel, TextRead
    DEF CalmInv, CalmProcs, CalmFile, CalmReaders, CalmHolder, CalmScripts, Inspect,
        Goto, At, Alive, Retry,
      TypeOK, TopLevel, InSection, ChildProcs
  <2>2. CalmFile'
    BY <1>4, SpawnerTopLevel, TextRead
    DEF CalmInv, CalmProcs, CalmFile, CalmReaders, CalmHolder, CalmScripts, Inspect,
        Goto, At, Alive, Retry,
      TypeOK, TopLevel, InSection, ChildProcs
  <2>3. CalmReaders'
    BY <1>4, SpawnerTopLevel, TextRead
    DEF CalmInv, CalmProcs, CalmFile, CalmReaders, CalmHolder, CalmScripts, Inspect,
        Goto, At, Alive, Retry,
      TypeOK, TopLevel, InSection, ChildProcs
  <2>4. CalmHolder'
    BY <1>4, SpawnerTopLevel, TextRead
    DEF CalmInv, CalmProcs, CalmFile, CalmReaders, CalmHolder, CalmScripts, Inspect,
        Goto, At, Alive, Retry,
      TypeOK, TopLevel, InSection, ChildProcs
  <2>5. CalmScripts'
    <3>1. CASE TopLevel(o)
      BY <1>4, <3>1, SpawnerTopLevel DEF CalmInv, CalmScripts, Inspect, Goto, At,
        Alive, Retry, TypeOK, TopLevel
    <3>2. CASE ~TopLevel(o)
      <4>1. file.owner = SpawnerOf[ProcOf[o]] /\ file # NoFile
        BY <1>4, <3>2, SpawnerTopLevel, FileOwner DEF CalmInv, CalmFile, CalmScripts,
          Inspect, At, Alive, TopLevel, InSection, TypeOK
      <4>2. pc' = [pc EXCEPT ![o] = "judge"] /\ seen' = [seen EXCEPT ![o] = Text(file)]
        BY <1>4, <4>1 DEF Inspect, Goto
      <4> QED
        BY <1>4, <4>1, <4>2, SpawnerTopLevel, TextRead DEF CalmInv, CalmScripts, Inspect, At,
          Alive, TypeOK, TopLevel
    <3> QED
      BY <3>1, <3>2
  <2> QED BY <2>1, <2>2, <2>3, <2>4, <2>5 DEF CalmInv
<1>5. ASSUME NEW o \in Ops, Inherit(o) PROVE CalmInv'
  <2>1. CalmProcs'
    BY <1>5, SpawnerTopLevel
    DEF CalmInv, CalmProcs, CalmFile, CalmReaders, CalmHolder, CalmScripts, Inherit,
        Goto, At, Alive, Forget,
      TypeOK, TopLevel, InSection, ChildProcs
  <2>2. CalmFile'
    BY <1>5, SpawnerTopLevel
    DEF CalmInv, CalmProcs, CalmFile, CalmReaders, CalmHolder, CalmScripts, Inherit,
        Goto, At, Alive, Forget,
      TypeOK, TopLevel, InSection, ChildProcs
  <2>3. CalmReaders'
    BY <1>5, SpawnerTopLevel
    DEF CalmInv, CalmProcs, CalmFile, CalmReaders, CalmHolder, CalmScripts, Inherit,
        Goto, At, Alive, Forget,
      TypeOK, TopLevel, InSection, ChildProcs
  <2>4. CalmHolder'
    BY <1>5, SpawnerTopLevel
    DEF CalmInv, CalmProcs, CalmFile, CalmReaders, CalmHolder, CalmScripts, Inherit,
        Goto, At, Alive, Forget,
      TypeOK, TopLevel, InSection, ChildProcs
  <2>5. CalmScripts'
    BY <1>5, SpawnerTopLevel
    DEF CalmInv, CalmProcs, CalmFile, CalmReaders, CalmHolder, CalmScripts, Inherit,
        Goto, At, Alive, Forget,
      TypeOK, TopLevel, InSection, ChildProcs
  <2> QED BY <2>1, <2>2, <2>3, <2>4, <2>5 DEF CalmInv
<1>6. ASSUME NEW o \in Ops, Refuse(o) PROVE CalmInv'
  <2>1. CalmProcs'
    BY <1>6, SpawnerTopLevel
    DEF CalmInv, CalmProcs, CalmFile, CalmReaders, CalmHolder, CalmScripts, Refuse,
        Goto, At, Alive, Forget,
      TypeOK, TopLevel, InSection, ChildProcs
  <2>2. CalmFile'
    BY <1>6, SpawnerTopLevel
    DEF CalmInv, CalmProcs, CalmFile, CalmReaders, CalmHolder, CalmScripts, Refuse,
        Goto, At, Alive, Forget,
      TypeOK, TopLevel, InSection, ChildProcs
  <2>3. CalmReaders'
    BY <1>6, SpawnerTopLevel
    DEF CalmInv, CalmProcs, CalmFile, CalmReaders, CalmHolder, CalmScripts, Refuse,
        Goto, At, Alive, Forget,
      TypeOK, TopLevel, InSection, ChildProcs
  <2>4. CalmHolder'
    BY <1>6, SpawnerTopLevel
    DEF CalmInv, CalmProcs, CalmFile, CalmReaders, CalmHolder, CalmScripts, Refuse,
        Goto, At, Alive, Forget,
      TypeOK, TopLevel, InSection, ChildProcs
  <2>5. CalmScripts'
    BY <1>6, SpawnerTopLevel
    DEF CalmInv, CalmProcs, CalmFile, CalmReaders, CalmHolder, CalmScripts, Refuse,
        Goto, At, Alive, Forget,
      TypeOK, TopLevel, InSection, ChildProcs
  <2> QED BY <2>1, <2>2, <2>3, <2>4, <2>5 DEF CalmInv
<1>7. ASSUME NEW o \in Ops, End(o) PROVE CalmInv'
  <2>1. CalmProcs'
    BY <1>7, SpawnerTopLevel
    DEF CalmInv, CalmProcs, CalmFile, CalmReaders, CalmHolder, CalmScripts, End, Goto,
        At, Alive,
      TypeOK, TopLevel, InSection, ChildProcs
  <2>2. CalmFile'
    BY <1>7, SpawnerTopLevel
    DEF CalmInv, CalmProcs, CalmFile, CalmReaders, CalmHolder, CalmScripts, End, Goto,
        At, Alive,
      TypeOK, TopLevel, InSection, ChildProcs
  <2>3. CalmReaders'
    BY <1>7, SpawnerTopLevel
    DEF CalmInv, CalmProcs, CalmFile, CalmReaders, CalmHolder, CalmScripts, End, Goto,
        At, Alive,
      TypeOK, TopLevel, InSection, ChildProcs
  <2>4. CalmHolder'
    BY <1>7, SpawnerTopLevel
    DEF CalmInv, CalmProcs, CalmFile, CalmReaders, CalmHolder, CalmScripts, End, Goto,
        At, Alive,
      TypeOK, TopLevel, InSection, ChildProcs
  <2>5. CalmScripts'
    <3>1. \A p \in ChildProcs : status[p] = "alive" => SpawnerOf[p] # o
      BY <1>7 DEF End
    <3>2. \A c \in Ops : /\ ProcOf[c] \in ChildProcs /\ c # o
                        /\ pc[c] = "held" => ProcOf[c] # ProcOf[o]
      BY ChildAssumption DEF ChildProcs
    <3>3. ~TopLevel(o) => pc' = [pc EXCEPT ![o] = "idle"]
      BY <1>7 DEF End, Goto, At, CalmInv, CalmScripts, TopLevel
    <3>4. \E x \in {"idle", "relread"} : pc' = [pc EXCEPT ![o] = x]
      BY <1>7 DEF End, Goto
    <3> QED
      BY <1>7, <3>1, <3>2, <3>3, <3>4 DEF CalmInv, CalmScripts, End, At, TypeOK, TopLevel
  <2> QED BY <2>1, <2>2, <2>3, <2>4, <2>5 DEF CalmInv
<1>8. ASSUME NEW o \in Ops, RelRead(o) PROVE CalmInv'
  <2>1. CalmProcs'
    BY <1>8, SpawnerTopLevel
    DEF CalmInv, CalmProcs, CalmFile, CalmReaders, CalmHolder, CalmScripts, RelRead,
        Goto, At, Alive,
      TypeOK, TopLevel, InSection, ChildProcs
  <2>2. CalmFile'
    BY <1>8, SpawnerTopLevel
    DEF CalmInv, CalmProcs, CalmFile, CalmReaders, CalmHolder, CalmScripts, RelRead,
        Goto, At, Alive,
      TypeOK, TopLevel, InSection, ChildProcs
  <2>3. CalmReaders'
    BY <1>8, SpawnerTopLevel
    DEF CalmInv, CalmProcs, CalmFile, CalmReaders, CalmHolder, CalmScripts, RelRead,
        Goto, At, Alive,
      TypeOK, TopLevel, InSection, ChildProcs
  <2>4. CalmHolder'
    BY <1>8, SpawnerTopLevel
    DEF CalmInv, CalmProcs, CalmFile, CalmReaders, CalmHolder, CalmScripts, RelRead,
        Goto, At, Alive,
      TypeOK, TopLevel, InSection, ChildProcs
  <2>5. CalmScripts'
    BY <1>8, SpawnerTopLevel
    DEF CalmInv, CalmProcs, CalmFile, CalmReaders, CalmHolder, CalmScripts, RelRead,
        Goto, At, Alive,
      TypeOK, TopLevel, InSection, ChildProcs
  <2> QED BY <2>1, <2>2, <2>3, <2>4, <2>5 DEF CalmInv
<1>9. ASSUME NEW o \in Ops, Unlink(o) PROVE CalmInv'
  <2>1. CalmProcs'
    BY <1>9, SpawnerTopLevel
    DEF CalmInv, CalmProcs, CalmFile, CalmReaders, CalmHolder, CalmScripts, Unlink,
        Goto, At, Alive,
      TypeOK, TopLevel, InSection, ChildProcs
  <2>2. CalmFile'
    BY <1>9, SpawnerTopLevel
    DEF CalmInv, CalmProcs, CalmFile, CalmReaders, CalmHolder, CalmScripts, Unlink,
        Goto, At, Alive,
      TypeOK, TopLevel, InSection, ChildProcs
  <2>3. CalmReaders'
    BY <1>9, SpawnerTopLevel
    DEF CalmInv, CalmProcs, CalmFile, CalmReaders, CalmHolder, CalmScripts, Unlink,
        Goto, At, Alive,
      TypeOK, TopLevel, InSection, ChildProcs
  <2>4. CalmHolder'
    BY <1>9, SpawnerTopLevel
    DEF CalmInv, CalmProcs, CalmFile, CalmReaders, CalmHolder, CalmScripts, Unlink,
        Goto, At, Alive,
      TypeOK, TopLevel, InSection, ChildProcs
  <2>5. CalmScripts'
    BY <1>9, SpawnerTopLevel
    DEF CalmInv, CalmProcs, CalmFile, CalmReaders, CalmHolder, CalmScripts, Unlink,
        Goto, At, Alive,
      TypeOK, TopLevel, InSection, ChildProcs
  <2> QED BY <2>1, <2>2, <2>3, <2>4, <2>5 DEF CalmInv
<1>10. ASSUME NEW p \in Procs, UnlockRead(p) PROVE CalmInv'
  <2>1. CalmProcs'
    BY <1>10, SpawnerTopLevel, TextRead
    DEF CalmInv, CalmProcs, CalmFile, CalmReaders, CalmHolder, CalmScripts, UnlockRead,
        UGoto,
      TypeOK, TopLevel, InSection, ChildProcs
  <2>2. CalmFile'
    BY <1>10, SpawnerTopLevel, TextRead
    DEF CalmInv, CalmProcs, CalmFile, CalmReaders, CalmHolder, CalmScripts, UnlockRead,
        UGoto,
      TypeOK, TopLevel, InSection, ChildProcs
  <2>3. CalmReaders'
    BY <1>10, SpawnerTopLevel, TextRead
    DEF CalmInv, CalmProcs, CalmFile, CalmReaders, CalmHolder, CalmScripts, UnlockRead,
        UGoto,
      TypeOK, TopLevel, InSection, ChildProcs
  <2>4. CalmHolder'
    BY <1>10, SpawnerTopLevel, TextRead
    DEF CalmInv, CalmProcs, CalmFile, CalmReaders, CalmHolder, CalmScripts, UnlockRead,
        UGoto,
      TypeOK, TopLevel, InSection, ChildProcs
  <2>5. CalmScripts'
    BY <1>10, SpawnerTopLevel, TextRead
    DEF CalmInv, CalmProcs, CalmFile, CalmReaders, CalmHolder, CalmScripts, UnlockRead,
        UGoto,
      TypeOK, TopLevel, InSection, ChildProcs
  <2> QED BY <2>1, <2>2, <2>3, <2>4, <2>5 DEF CalmInv
<1>11. ASSUME NEW p \in Procs, UnlockJudge(p) PROVE CalmInv'
  <2>0. upc' = [upc EXCEPT ![p] = "idle"]
    BY <1>11, CalmJudgement DEF UnlockJudge, UGoto
  <2>1. CalmProcs'
    BY <1>11, <2>0, SpawnerTopLevel
    DEF CalmInv, CalmProcs, CalmFile, CalmReaders, CalmHolder, CalmScripts, UnlockJudge,
        UGoto,
      TypeOK, TopLevel, InSection, ChildProcs
  <2>2. CalmFile'
    BY <1>11, <2>0, SpawnerTopLevel
    DEF CalmInv, CalmProcs, CalmFile, CalmReaders, CalmHolder, CalmScripts, UnlockJudge,
        UGoto,
      TypeOK, TopLevel, InSection, ChildProcs
  <2>3. CalmReaders'
    BY <1>11, <2>0, SpawnerTopLevel
    DEF CalmInv, CalmProcs, CalmFile, CalmReaders, CalmHolder, CalmScripts, UnlockJudge,
        UGoto,
      TypeOK, TopLevel, InSection, ChildProcs
  <2>4. CalmHolder'
    BY <1>11, <2>0, SpawnerTopLevel
    DEF CalmInv, CalmProcs, CalmFile, CalmReaders, CalmHolder, CalmScripts, UnlockJudge,
        UGoto,
      TypeOK, TopLevel, InSection, ChildProcs
  <2>5. CalmScripts'
    BY <1>11, <2>0, SpawnerTopLevel
    DEF CalmInv, CalmProcs, CalmFile, CalmReaders, CalmHolder, CalmScripts, UnlockJudge,
        UGoto,
      TypeOK, TopLevel, InSection, ChildProcs
  <2> QED BY <2>1, <2>2, <2>3, <2>4, <2>5 DEF CalmInv
<1>12. ASSUME NEW p \in Procs, Heartbeat(p) PROVE CalmInv'
  <2>1. CalmProcs'
    BY <1>12, SpawnerTopLevel
    DEF CalmInv, CalmProcs, CalmFile, CalmReaders, CalmHolder, CalmScripts, Heartbeat,
      TypeOK, TopLevel, InSection, ChildProcs
  <2>2. CalmFile'
    BY <1>12, SpawnerTopLevel
    DEF CalmInv, CalmProcs, CalmFile, CalmReaders, CalmHolder, CalmScripts, Heartbeat,
      TypeOK, TopLevel, InSection, ChildProcs
  <2>3. CalmReaders'
    BY <1>12, SpawnerTopLevel
    DEF CalmInv, CalmProcs, CalmFile, CalmReaders, CalmHolder, CalmScripts, Heartbeat,
      TypeOK, TopLevel, InSection, ChildProcs
  <2>4. CalmHolder'
    BY <1>12, SpawnerTopLevel
    DEF CalmInv, CalmProcs, CalmFile, CalmReaders, CalmHolder, CalmScripts, Heartbeat,
      TypeOK, TopLevel, InSection, ChildProcs
  <2>5. CalmScripts'
    BY <1>12, SpawnerTopLevel
    DEF CalmInv, CalmProcs, CalmFile, CalmReaders, CalmHolder, CalmScripts, Heartbeat,
      TypeOK, TopLevel, InSection, ChildProcs
  <2> QED BY <2>1, <2>2, <2>3, <2>4, <2>5 DEF CalmInv
<1>13. ASSUME NEW p \in Procs, Spawn(p) PROVE CalmInv'
  <2>1. CalmProcs'
    BY <1>13, SpawnerTopLevel
    DEF CalmInv, CalmProcs, CalmFile, CalmReaders, CalmHolder, CalmScripts, Spawn, At,
        Alive,
      TypeOK, TopLevel, InSection, ChildProcs
  <2>2. CalmFile'
    BY <1>13, SpawnerTopLevel
    DEF CalmInv, CalmProcs, CalmFile, CalmReaders, CalmHolder, CalmScripts, Spawn, At,
        Alive,
      TypeOK, TopLevel, InSection, ChildProcs
  <2>3. CalmReaders'
    BY <1>13, SpawnerTopLevel
    DEF CalmInv, CalmProcs, CalmFile, CalmReaders, CalmHolder, CalmScripts, Spawn, At,
        Alive,
      TypeOK, TopLevel, InSection, ChildProcs
  <2>4. CalmHolder'
    BY <1>13, SpawnerTopLevel
    DEF CalmInv, CalmProcs, CalmFile, CalmReaders, CalmHolder, CalmScripts, Spawn, At,
        Alive,
      TypeOK, TopLevel, InSection, ChildProcs
  <2>5. CalmScripts'
    BY <1>13, SpawnerTopLevel
    DEF CalmInv, CalmProcs, CalmFile, CalmReaders, CalmHolder, CalmScripts, Spawn, At,
        Alive,
      TypeOK, TopLevel, InSection, ChildProcs
  <2> QED BY <2>1, <2>2, <2>3, <2>4, <2>5 DEF CalmInv
<1>14. ASSUME NEW p \in Procs, ChildExit(p) PROVE CalmInv'
  <2>1. CalmProcs'
    BY <1>14, SpawnerTopLevel
    DEF CalmInv, CalmProcs, CalmFile, CalmReaders, CalmHolder, CalmScripts, ChildExit,
        Vanish,
      TypeOK, TopLevel, InSection, ChildProcs
  <2>2. CalmFile'
    BY <1>14, SpawnerTopLevel
    DEF CalmInv, CalmProcs, CalmFile, CalmReaders, CalmHolder, CalmScripts, ChildExit,
        Vanish,
      TypeOK, TopLevel, InSection, ChildProcs
  <2>3. CalmReaders'
    BY <1>14, SpawnerTopLevel
    DEF CalmInv, CalmProcs, CalmFile, CalmReaders, CalmHolder, CalmScripts, ChildExit,
        Vanish,
      TypeOK, TopLevel, InSection, ChildProcs
  <2>4. CalmHolder'
    BY <1>14, SpawnerTopLevel
    DEF CalmInv, CalmProcs, CalmFile, CalmReaders, CalmHolder, CalmScripts, ChildExit,
        Vanish,
      TypeOK, TopLevel, InSection, ChildProcs
  <2>5. CalmScripts'
    BY <1>14, SpawnerTopLevel
    DEF CalmInv, CalmProcs, CalmFile, CalmReaders, CalmHolder, CalmScripts, ChildExit,
        Vanish,
      TypeOK, TopLevel, InSection, ChildProcs
  <2> QED BY <2>1, <2>2, <2>3, <2>4, <2>5 DEF CalmInv
<1>15. ASSUME NEW o \in Ops, Write(o) PROVE FALSE
  BY <1>15, CalmJudgement, CalmInherits DEF CalmInv, CalmReaders, CalmProcs, Write, At
<1>16. ASSUME NEW o \in Ops, InheritFails(o) PROVE FALSE
  BY <1>16, CalmJudgement, CalmInherits
  DEF CalmInv, CalmReaders, CalmProcs, InheritFails, At
<1>17. ASSUME NEW o \in Ops, DecideToSteal(o) PROVE FALSE
  BY <1>17, CalmJudgement, CalmInherits
  DEF CalmInv, CalmReaders, CalmProcs, DecideToSteal, At
<1>18. ASSUME NEW o \in Ops, Steal(o) PROVE FALSE
  BY <1>18, CalmJudgement, CalmInherits DEF CalmInv, CalmReaders, CalmProcs, Steal, At
<1>19. ASSUME NEW p \in Procs, UnlockRemove(p) PROVE FALSE
  BY <1>19, CalmJudgement, CalmInherits DEF CalmInv, CalmReaders, CalmProcs, UnlockRemove
<1>20. ASSUME NEW p \in Procs, UnlockForget(p) PROVE FALSE
  BY <1>20, CalmJudgement, CalmInherits DEF CalmInv, CalmReaders, CalmProcs, UnlockForget
<1>21. ASSUME NEW p \in Procs, Crash(p) PROVE FALSE
  BY <1>21, CalmJudgement, CalmInherits DEF CalmInv, CalmReaders, CalmProcs, Crash
<1>22. ASSUME NEW p \in Procs, Exit(p) PROVE FALSE
  BY <1>22, CalmJudgement, CalmInherits DEF CalmInv, CalmReaders, CalmProcs, Exit
<1>23. ASSUME NEW p \in Procs, ReusePid(p) PROVE FALSE
  BY <1>23, CalmJudgement, CalmInherits DEF CalmInv, CalmReaders, CalmProcs, ReusePid
<1>24. CASE Expire
  BY <1>24, FileOwner DEF Expire, CalmInv, CalmFile, CalmProcs, Alive, TypeOK, TopLevel
<1>25. CASE UNCHANGED vars
  BY <1>25
  DEF vars, CalmInv, CalmProcs, CalmFile, CalmReaders, CalmHolder, CalmScripts, TypeOK,
      TopLevel
<1>26. ASSUME NEW o \in Ops, CreateFails(o) PROVE CalmInv'
  <2>1. pc[o] = "create" /\ pc' = [pc EXCEPT ![o] = "idle"] /\ att' = [att EXCEPT ![o] = 0]
    BY <1>26 DEF CreateFails, Throw, Goto, At, CalmInv, CalmReaders
  <2>2. UNCHANGED <<file, status, heldLock, inherited, timer, seen, upc, useen>>
    BY <1>26 DEF CreateFails
  <2>3. CalmProcs'
    BY <2>2 DEF CalmInv, CalmProcs, ChildProcs
  <2>4. CalmFile'
    BY <2>1, <2>2 DEF CalmInv, CalmFile, TypeOK, TopLevel, InSection, ChildProcs
  <2>5. CalmReaders'
    BY <2>1, <2>2 DEF CalmInv, CalmReaders, TypeOK, TopLevel, ChildProcs
  <2>6. CalmHolder'
    BY <2>1, <2>2 DEF CalmInv, CalmHolder, TypeOK, TopLevel, ChildProcs
  <2>7. CalmScripts'
    BY <2>1, <2>2 DEF CalmInv, CalmScripts, TypeOK, ChildProcs
  <2> QED BY <2>3, <2>4, <2>5, <2>6, <2>7 DEF CalmInv
<1>27. ASSUME NEW o \in Ops, StealFails(o) \/ UnlinkFails(o) PROVE FALSE
  BY <1>27 DEF StealFails, UnlinkFails, RemovalFails
<1>28. ASSUME NEW p \in Procs, UnlockFails(p) PROVE FALSE
  BY <1>28 DEF UnlockFails, RemovalFails
<1> QED
  BY <1>1, <1>2, <1>3, <1>4, <1>5, <1>6, <1>7, <1>8, <1>9, <1>10, <1>11, <1>12, <1>13,
      <1>14, <1>15, <1>16, <1>17, <1>18, <1>19, <1>20, <1>21, <1>22, <1>23, <1>24, <1>25,
      <1>26, <1>27, <1>28
  DEF Next, Step, Unlocking, ProcStep

LEMMA CalmCorrect ==
  ASSUME Env \subseteq {"unlock", "disk"}
  PROVE  Spec => []CalmInv
<1>1. CalmInv /\ [Next]_vars => CalmInv'
  BY CalmStep
<1> QED
  BY CalmInit, <1>1, PTL DEF Spec

\* A writer's section is the owner of the file.
LEMMA WriterOwnsFile ==
  ASSUME CalmInv, NEW o \in Writers
  PROVE  /\ file.owner = SectionOf(o)
         /\ TopLevel(SectionOf(o)) /\ SectionOf(o) \in Writers
<1>1. o \in Ops /\ pc[o] = "held" /\ status[ProcOf[o]] = "alive"
  BY DEF Writers, At, Alive
<1>2. CASE TopLevel(o)
  BY <1>1, <1>2 DEF CalmInv, CalmFile, SectionOf, TopLevel, InSection
<1>3. CASE ~TopLevel(o)
  <2> DEFINE s == SpawnerOf[ProcOf[o]]
  <2>1. s \in Ops /\ TopLevel(s) /\ SectionOf(o) = s
    BY <1>3, SpawnerTopLevel DEF SectionOf, TopLevel
  <2>2. pc[s] = "held" /\ status[ProcOf[s]] = "alive"
    BY <1>1, <1>3, <2>1, LockAssumption DEF CalmInv, CalmProcs, CalmScripts, TopLevel
  <2> QED
    BY <2>1, <2>2 DEF CalmInv, CalmFile, Writers, At, Alive, InSection
<1> QED
  BY <1>2, <1>3

\* Two writers are at work at once only as a section and the script it waits
\* for, with any number of processes, operations and spawned scripts and with
\* db.unlock called at any moment, as long as it is not forced.
THEOREM Exclusion ==
  ASSUME Env \subseteq {"unlock", "disk"}
  PROVE  Spec => []MutualExclusion
<1>1. CalmInv => MutualExclusion
  BY WriterOwnsFile DEF MutualExclusion
<1> QED
  BY CalmCorrect, <1>1, PTL

\* The operation at work has its own complete file at the path, and the timer
\* that keeps it from being judged silent.
THEOREM HolderVisible ==
  ASSUME Env \subseteq {"unlock", "disk"}
  PROVE  Spec => []HolderIsVisible
<1>1. ASSUME CalmInv PROVE HolderIsVisible
  <2> SUFFICES ASSUME NEW o \in Writers, ProcOf[o] \notin ChildProcs
               PROVE  /\ file = NewLock(o, TRUE)
                      /\ timer[ProcOf[o]] /\ heldLock[ProcOf[o]] /\ ~inherited[ProcOf[o]]
    BY DEF HolderIsVisible
  <2>1. o \in Ops /\ pc[o] = "held"
    BY DEF Writers, At
  <2>2. file \in LockFiles /\ file.owner = o /\ file.full /\ file.fresh
    BY <1>1, <2>1, FileOwner DEF CalmInv, CalmFile, TypeOK, TopLevel, InSection
  <2>3. file = NewLock(o, TRUE)
    BY <2>2 DEF LockFiles, NewLock
  <2> QED
    BY <1>1, <2>1, <2>3, LockAssumption DEF CalmInv, CalmProcs, CalmHolder, TopLevel
<1> QED
  BY CalmCorrect, <1>1, PTL

\* Every step of the protocol is a step of WriteLock or leaves the writers alone.
LEMMA AbstractStep ==
  ASSUME Env \subseteq {"unlock", "disk"}, CalmInv, [Next]_vars
  PROVE  [Abstract!Next]_Writers
<1> DEFINE Parent == [o \in Ops |-> IF ProcOf[o] \in ChildProcs
                                     THEN SpawnerOf[ProcOf[o]] ELSE NoOp]
<1> CalmInv'
  BY CalmStep
<1> TypeOK
  BY DEF CalmInv
<1> USE LockAssumption
<1>1. ASSUME NEW o \in Ops, Grant(o) PROVE Abstract!Begin(o)
  <2>1. TopLevel(o) /\ file.owner = o
    BY <1>1 DEF CalmInv, CalmFile, CalmScripts, Grant, At, TopLevel, InSection
  <2>2. Writers = {}
    BY <1>1, <2>1, WriterOwnsFile DEF Grant, At, Writers
  <2>3. Writers' = {o}
    BY <1>1, <2>2 DEF Grant, At, Alive, Goto, Writers, TypeOK
  <2> QED
    BY <2>1, <2>2, <2>3 DEF Abstract!Begin, TopLevel
<1>2. ASSUME NEW o \in Ops, Inherit(o) PROVE Abstract!BeginChild(o)
  <2>1. ProcOf[o] \in ChildProcs
    BY <1>2 DEF CalmInv, CalmHolder, Inherit, At, TopLevel
  <2>2. /\ SpawnerOf[ProcOf[o]] \in Ops /\ TopLevel(SpawnerOf[ProcOf[o]])
        /\ SpawnerOf[ProcOf[o]] \in Writers
    BY <1>2, <2>1, SpawnerTopLevel
    DEF CalmInv, CalmProcs, CalmScripts, Inherit, At, Alive, TopLevel, Writers
  <2>3. \A w \in Writers : w = SpawnerOf[ProcOf[o]]
    <3> SUFFICES ASSUME NEW w \in Writers PROVE w = SpawnerOf[ProcOf[o]]
      OBVIOUS
    <3>1. SectionOf(w) = SpawnerOf[ProcOf[o]]
      BY <2>2, WriterOwnsFile DEF SectionOf, TopLevel
    <3>2. CASE TopLevel(w)
      BY <3>1, <3>2 DEF SectionOf, TopLevel
    <3>3. CASE ~TopLevel(w)
      <4>1. ProcOf[w] = ProcOf[o]
        BY <1>2, <2>1, <3>1, <3>3
        DEF CalmInv, CalmScripts, Writers, At, Alive, SectionOf, Inherit, TopLevel
      <4>2. w = o
        BY <2>1, <4>1, ChildAssumption DEF ChildProcs, Writers
      <4> QED
        BY <1>2, <4>2 DEF Inherit, At, Writers
    <3> QED
      BY <3>2, <3>3
  <2>4. Writers = {SpawnerOf[ProcOf[o]]}
    BY <2>2, <2>3
  <2>5. Writers' = Writers \cup {o}
    BY <1>2 DEF Inherit, At, Alive, Goto, Writers, TypeOK
  <2>6. SpawnerOf[ProcOf[o]] # NoOp
    BY <2>1 DEF ChildProcs
  <2> QED
    BY <2>1, <2>4, <2>5, <2>6 DEF Abstract!BeginChild
<1>3. ASSUME NEW o \in Ops, End(o) PROVE Abstract!End(o)
  <2>1. o \in Writers
    BY <1>3 DEF End, Writers
  <2>2. \A c \in Writers : Parent[c] # o
    BY <1>3 DEF End, Writers, At, Alive
  <2>3. Writers' = Writers \ {o}
    BY <1>3 DEF End, At, Alive, Goto, Writers, TypeOK
  <2> QED
    BY <2>1, <2>2, <2>3 DEF Abstract!End
<1>4. ASSUME NEW o \in Ops, Start(o) PROVE UNCHANGED Writers
  BY <1>4 DEF Start, Writers, TypeOK, CalmInv, Goto, At, Alive
<1>5. ASSUME NEW o \in Ops, Create(o) PROVE UNCHANGED Writers
  BY <1>5 DEF Create, Writers, TypeOK, CalmInv, Goto, At, Alive
<1>6. ASSUME NEW o \in Ops, Write(o) PROVE UNCHANGED Writers
  BY <1>6 DEF Write, Writers, TypeOK, CalmInv, Goto, At, Alive
<1>7. ASSUME NEW o \in Ops, Inspect(o) PROVE UNCHANGED Writers
  BY <1>7 DEF Inspect, Writers, TypeOK, CalmInv, Goto, At, Alive, Retry
<1>8. ASSUME NEW o \in Ops, InheritFails(o) PROVE UNCHANGED Writers
  BY <1>8 DEF InheritFails, Writers, TypeOK, CalmInv, Goto, At, Alive, Retry
<1>9. ASSUME NEW o \in Ops, Refuse(o) PROVE UNCHANGED Writers
  BY <1>9 DEF Refuse, Writers, TypeOK, CalmInv, Goto, At, Alive
<1>10. ASSUME NEW o \in Ops, DecideToSteal(o) PROVE UNCHANGED Writers
  BY <1>10 DEF DecideToSteal, Writers, TypeOK, CalmInv, Goto, At, Alive
<1>11. ASSUME NEW o \in Ops, Steal(o) PROVE UNCHANGED Writers
  BY <1>11 DEF Steal, Writers, TypeOK, CalmInv, Goto, At, Alive, Retry
<1>12. ASSUME NEW o \in Ops, RelRead(o) PROVE UNCHANGED Writers
  BY <1>12 DEF RelRead, Writers, TypeOK, CalmInv, Goto, At, Alive
<1>13. ASSUME NEW o \in Ops, Unlink(o) PROVE UNCHANGED Writers
  BY <1>13 DEF Unlink, Writers, TypeOK, CalmInv, Goto, At, Alive
<1>14. ASSUME NEW p \in Procs, UnlockRead(p) PROVE UNCHANGED Writers
  BY <1>14 DEF UnlockRead, Writers, TypeOK, CalmInv, At, Alive
<1>15. ASSUME NEW p \in Procs, UnlockJudge(p) PROVE UNCHANGED Writers
  BY <1>15 DEF UnlockJudge, Writers, TypeOK, CalmInv, At, Alive
<1>16. ASSUME NEW p \in Procs, UnlockRemove(p) PROVE UNCHANGED Writers
  BY <1>16 DEF UnlockRemove, Writers, TypeOK, CalmInv, At, Alive
<1>17. ASSUME NEW p \in Procs, UnlockForget(p) PROVE UNCHANGED Writers
  BY <1>17 DEF UnlockForget, Writers, TypeOK, CalmInv, At, Alive
<1>18. ASSUME NEW p \in Procs, Heartbeat(p) PROVE UNCHANGED Writers
  BY <1>18 DEF Heartbeat, Writers, TypeOK, CalmInv, At, Alive
<1>19. ASSUME NEW p \in Procs, Spawn(p) PROVE UNCHANGED Writers
  BY <1>19 DEF Spawn, Writers, TypeOK, CalmInv, At, Alive, CalmScripts
<1>20. ASSUME NEW p \in Procs, ChildExit(p) PROVE UNCHANGED Writers
  BY <1>20 DEF ChildExit, Writers, TypeOK, CalmInv, Vanish, At, Alive
<1>21. ASSUME NEW p \in Procs, Crash(p) PROVE UNCHANGED Writers
  BY <1>21 DEF Crash, Writers, TypeOK, CalmInv, Vanish
<1>22. ASSUME NEW p \in Procs, Exit(p) PROVE UNCHANGED Writers
  BY <1>22 DEF Exit, Writers, TypeOK, CalmInv, Vanish
<1>23. ASSUME NEW p \in Procs, ReusePid(p) PROVE UNCHANGED Writers
  BY <1>23 DEF ReusePid, Writers, TypeOK, CalmInv
<1>24. CASE Expire
  BY <1>24 DEF Expire, Writers, At, Alive
<1>25. CASE UNCHANGED vars
  BY <1>25 DEF vars, Writers, At, Alive
<1>26. ASSUME NEW o \in Ops, CreateFails(o) \/ StealFails(o) \/ UnlinkFails(o)
       PROVE  UNCHANGED Writers
  BY <1>26 DEF CreateFails, StealFails, UnlinkFails, Throw, Writers, TypeOK, Goto, At, Alive
<1>27. ASSUME NEW p \in Procs, UnlockFails(p) PROVE UNCHANGED Writers
  BY <1>27 DEF UnlockFails, Writers, At, Alive
<1> QED
  BY <1>1, <1>2, <1>3, <1>4, <1>5, <1>6, <1>7, <1>8, <1>9, <1>10, <1>11, <1>12, <1>13,
      <1>14, <1>15, <1>16, <1>17, <1>18, <1>19, <1>20, <1>21, <1>22, <1>23, <1>24, <1>25,
      <1>26, <1>27
  DEF Next, Step, Unlocking, ProcStep, Abstract!Next

\* The lock protocol implements the abstract write lock: one section at a time,
\* a script only inside its section, no section ending before its script.
THEOREM Implementation ==
  ASSUME Env \subseteq {"unlock", "disk"}
  PROVE  Spec => ImplementsWriteLock
<1>1. Init => Abstract!Init
  BY DEF Init, Abstract!Init, Writers, At
<1>2. CalmInv /\ [Next]_vars => [Abstract!Next]_Writers
  BY AbstractStep
<1> QED
  BY CalmCorrect, <1>1, <1>2, PTL DEF Spec, Abstract!Spec, ImplementsWriteLock

-----------------------------------------------------------------------------
(* Where db.unlock is not called                                           *)

LEMMA KeeperInit == Init => KeeperInv
BY InitType, LockAssumption
DEF Init, KeeperInv, KeeperOfFile, FileIsOfBorn, InheritCheck, NoFile

LEMMA KeeperStep ==
  ASSUME {"unlock", "force", "rm"} \cap Env = {}, KeeperInv, [Next]_vars
  PROVE  KeeperInv'
<1> TypeOK /\ TypeOK'
  BY TypeStep DEF KeeperInv
<1> (file # NoFile => file.owner \in Ops) /\ (file'  # NoFile => file'.owner \in Ops)
  BY FileOwner DEF TypeOK
<1> USE LockAssumption
<1>1. ASSUME NEW o \in Ops, Start(o) PROVE KeeperInv'
  <2>1. KeeperOfFile'
    BY <1>1
    DEF KeeperInv, KeeperOfFile, FileIsOfBorn, InheritCheck, Start, Goto, At,
        Alive, Keeper, TypeOK, NoFile
  <2>2. FileIsOfBorn'
    BY <1>1
    DEF KeeperInv, KeeperOfFile, FileIsOfBorn, InheritCheck, Start, Goto, At,
        Alive, TypeOK, NoFile
  <2>3. InheritCheck'
    BY <1>1
    DEF KeeperInv, KeeperOfFile, FileIsOfBorn, InheritCheck, Start, Goto, At,
        Alive, TypeOK, NoFile
  <2>4. \A p \in Procs : upc'[p] = "idle"
    BY <1>1 DEF KeeperInv, Start
  <2> QED BY <2>1, <2>2, <2>3, <2>4 DEF KeeperInv
<1>2. ASSUME NEW o \in Ops, Create(o) PROVE KeeperInv'
  <2>0. /\ pc[o] = "create" /\ status[ProcOf[o]] = "alive" /\ UNCHANGED <<status, heldLock, inherited>>
        /\ \/ UNCHANGED file /\ pc' = [pc EXCEPT ![o] = "inspect"]
           \/ /\ file'.owner = o
              /\ \/ pc' = [pc EXCEPT ![o] = "grant"]
                 \/ pc' = [pc EXCEPT ![o] = "write"] /\ ~file'.full
    <3>1. "torn" \in Env => ~NewLock(o, "torn" \notin Env).full
      BY DEF NewLock
    <3>2. NewLock(o, "torn" \notin Env).owner = o
      BY DEF NewLock
    <3> QED BY <1>2, <3>1, <3>2 DEF Create, Goto, At, Alive
  <2>1. KeeperOfFile'
    BY <2>0 DEF KeeperInv, KeeperOfFile, Keeper, TypeOK
  <2>2. FileIsOfBorn'
    BY <2>0 DEF KeeperInv, FileIsOfBorn
  <2>3. InheritCheck'
    BY <1>2
    DEF KeeperInv, KeeperOfFile, FileIsOfBorn, InheritCheck, Create, Goto, At,
        Alive, TypeOK, NoFile
  <2>4. \A p \in Procs : upc'[p] = "idle"
    BY <1>2 DEF KeeperInv, Create
  <2> QED BY <2>1, <2>2, <2>3, <2>4 DEF KeeperInv
<1>3. ASSUME NEW o \in Ops, Write(o) PROVE KeeperInv'
  <2>1. KeeperOfFile'
    BY <1>3
    DEF KeeperInv, KeeperOfFile, FileIsOfBorn, InheritCheck, Write, Goto, At,
        Alive, Keeper, TypeOK, NoFile
  <2>2. FileIsOfBorn'
    BY <1>3
    DEF KeeperInv, KeeperOfFile, FileIsOfBorn, InheritCheck, Write, Goto, At,
        Alive, TypeOK, NoFile
  <2>3. InheritCheck'
    BY <1>3
    DEF KeeperInv, KeeperOfFile, FileIsOfBorn, InheritCheck, Write, Goto, At,
        Alive, TypeOK, NoFile
  <2>4. \A p \in Procs : upc'[p] = "idle"
    BY <1>3 DEF KeeperInv, Write
  <2> QED BY <2>1, <2>2, <2>3, <2>4 DEF KeeperInv
<1>4. ASSUME NEW o \in Ops, Grant(o) PROVE KeeperInv'
  <2>1. KeeperOfFile'
    BY <1>4
    DEF KeeperInv, KeeperOfFile, FileIsOfBorn, InheritCheck, Grant, Goto, At,
        Alive, Keeper, TypeOK, NoFile
  <2>2. FileIsOfBorn'
    BY <1>4
    DEF KeeperInv, KeeperOfFile, FileIsOfBorn, InheritCheck, Grant, Goto, At,
        Alive, TypeOK, NoFile
  <2>3. InheritCheck'
    BY <1>4
    DEF KeeperInv, KeeperOfFile, FileIsOfBorn, InheritCheck, Grant, Goto, At,
        Alive, TypeOK, NoFile
  <2>4. \A p \in Procs : upc'[p] = "idle"
    BY <1>4 DEF KeeperInv, Grant
  <2> QED BY <2>1, <2>2, <2>3, <2>4 DEF KeeperInv
<1>5. ASSUME NEW o \in Ops, Inspect(o) PROVE KeeperInv'
  <2>1. KeeperOfFile'
    BY <1>5
    DEF KeeperInv, KeeperOfFile, FileIsOfBorn, InheritCheck, Inspect, Goto,
        At, Alive, Retry, Keeper, TypeOK, NoFile
  <2>2. FileIsOfBorn'
    BY <1>5
    DEF KeeperInv, KeeperOfFile, FileIsOfBorn, InheritCheck, Inspect, Goto,
        At, Alive, Retry, TypeOK, NoFile
  <2>3. InheritCheck'
    BY <1>5
    DEF KeeperInv, KeeperOfFile, FileIsOfBorn, InheritCheck, Inspect, Goto,
        At, Alive, Retry, TypeOK, NoFile
  <2>4. \A p \in Procs : upc'[p] = "idle"
    BY <1>5 DEF KeeperInv, Inspect
  <2> QED BY <2>1, <2>2, <2>3, <2>4 DEF KeeperInv
<1>6. ASSUME NEW o \in Ops, Inherit(o) PROVE KeeperInv'
  <2>1. KeeperOfFile'
    <3>1. ProcOf[o] \in ChildProcs /\ pc[o] = "judge"
      BY <1>6 DEF KeeperInv, InheritCheck, Inherit, At
    <3>2. \A k \in Ops : ProcOf[k] = ProcOf[o] => k = o
      BY <3>1, ChildAssumption DEF ChildProcs
    <3>3. file # NoFile /\ file.full => ProcOf[file.owner] # ProcOf[o] \/ status[ProcOf[o]] # "alive"
      BY <3>1, <3>2 DEF KeeperInv, KeeperOfFile, Keeper
    <3> QED
      BY <1>6, <3>1, <3>2, <3>3
      DEF KeeperInv, KeeperOfFile, Inherit, Goto, Keeper, TypeOK
  <2>2. FileIsOfBorn'
    BY <1>6
    DEF KeeperInv, KeeperOfFile, FileIsOfBorn, InheritCheck, Inherit, Goto,
        At, Alive, TypeOK, NoFile
  <2>3. InheritCheck'
    BY <1>6
    DEF KeeperInv, KeeperOfFile, FileIsOfBorn, InheritCheck, Inherit, Goto,
        At, Alive, TypeOK, NoFile
  <2>4. \A p \in Procs : upc'[p] = "idle"
    BY <1>6 DEF KeeperInv, Inherit
  <2> QED BY <2>1, <2>2, <2>3, <2>4 DEF KeeperInv
<1>7. ASSUME NEW o \in Ops, InheritFails(o) PROVE KeeperInv'
  <2>1. KeeperOfFile'
    BY <1>7
    DEF KeeperInv, KeeperOfFile, FileIsOfBorn, InheritCheck, InheritFails,
        Goto, At, Alive, Retry, Keeper, TypeOK, NoFile
  <2>2. FileIsOfBorn'
    BY <1>7
    DEF KeeperInv, KeeperOfFile, FileIsOfBorn, InheritCheck, InheritFails,
        Goto, At, Alive, Retry, TypeOK, NoFile
  <2>3. InheritCheck'
    BY <1>7
    DEF KeeperInv, KeeperOfFile, FileIsOfBorn, InheritCheck, InheritFails,
        Goto, At, Alive, Retry, TypeOK, NoFile
  <2>4. \A p \in Procs : upc'[p] = "idle"
    BY <1>7 DEF KeeperInv, InheritFails
  <2> QED BY <2>1, <2>2, <2>3, <2>4 DEF KeeperInv
<1>8. ASSUME NEW o \in Ops, Refuse(o) PROVE KeeperInv'
  <2>1. KeeperOfFile'
    BY <1>8
    DEF KeeperInv, KeeperOfFile, FileIsOfBorn, InheritCheck, Refuse, Goto, At,
        Alive, Keeper, TypeOK, NoFile
  <2>2. FileIsOfBorn'
    BY <1>8
    DEF KeeperInv, KeeperOfFile, FileIsOfBorn, InheritCheck, Refuse, Goto, At,
        Alive, TypeOK, NoFile
  <2>3. InheritCheck'
    BY <1>8
    DEF KeeperInv, KeeperOfFile, FileIsOfBorn, InheritCheck, Refuse, Goto, At,
        Alive, TypeOK, NoFile
  <2>4. \A p \in Procs : upc'[p] = "idle"
    BY <1>8 DEF KeeperInv, Refuse
  <2> QED BY <2>1, <2>2, <2>3, <2>4 DEF KeeperInv
<1>9. ASSUME NEW o \in Ops, DecideToSteal(o) PROVE KeeperInv'
  <2>1. KeeperOfFile'
    BY <1>9
    DEF KeeperInv, KeeperOfFile, FileIsOfBorn, InheritCheck, DecideToSteal,
        Goto, At, Alive, Keeper, TypeOK, NoFile
  <2>2. FileIsOfBorn'
    BY <1>9
    DEF KeeperInv, KeeperOfFile, FileIsOfBorn, InheritCheck, DecideToSteal,
        Goto, At, Alive, TypeOK, NoFile
  <2>3. InheritCheck'
    BY <1>9
    DEF KeeperInv, KeeperOfFile, FileIsOfBorn, InheritCheck, DecideToSteal,
        Goto, At, Alive, TypeOK, NoFile
  <2>4. \A p \in Procs : upc'[p] = "idle"
    BY <1>9 DEF KeeperInv, DecideToSteal
  <2> QED BY <2>1, <2>2, <2>3, <2>4 DEF KeeperInv
<1>10. ASSUME NEW o \in Ops, Steal(o) PROVE KeeperInv'
  <2>1. KeeperOfFile'
    BY <1>10
    DEF KeeperInv, KeeperOfFile, FileIsOfBorn, InheritCheck, Steal, Goto, At,
        Alive, Retry, Keeper, TypeOK, NoFile
  <2>2. FileIsOfBorn'
    BY <1>10
    DEF KeeperInv, KeeperOfFile, FileIsOfBorn, InheritCheck, Steal, Goto, At,
        Alive, Retry, TypeOK, NoFile
  <2>3. InheritCheck'
    BY <1>10
    DEF KeeperInv, KeeperOfFile, FileIsOfBorn, InheritCheck, Steal, Goto, At,
        Alive, Retry, TypeOK, NoFile
  <2>4. \A p \in Procs : upc'[p] = "idle"
    BY <1>10 DEF KeeperInv, Steal
  <2> QED BY <2>1, <2>2, <2>3, <2>4 DEF KeeperInv
<1>11. ASSUME NEW o \in Ops, End(o) PROVE KeeperInv'
  <2>1. KeeperOfFile'
    BY <1>11
    DEF KeeperInv, KeeperOfFile, FileIsOfBorn, InheritCheck, End, Goto, At,
        Alive, Keeper, TypeOK, NoFile
  <2>2. FileIsOfBorn'
    BY <1>11
    DEF KeeperInv, KeeperOfFile, FileIsOfBorn, InheritCheck, End, Goto, At,
        Alive, TypeOK, NoFile
  <2>3. InheritCheck'
    BY <1>11
    DEF KeeperInv, KeeperOfFile, FileIsOfBorn, InheritCheck, End, Goto, At,
        Alive, TypeOK, NoFile
  <2>4. \A p \in Procs : upc'[p] = "idle"
    BY <1>11 DEF KeeperInv, End
  <2> QED BY <2>1, <2>2, <2>3, <2>4 DEF KeeperInv
<1>12. ASSUME NEW o \in Ops, RelRead(o) PROVE KeeperInv'
  <2>1. KeeperOfFile'
    BY <1>12
    DEF KeeperInv, KeeperOfFile, FileIsOfBorn, InheritCheck, RelRead, Goto,
        At, Alive, Keeper, TypeOK, NoFile
  <2>2. FileIsOfBorn'
    BY <1>12
    DEF KeeperInv, KeeperOfFile, FileIsOfBorn, InheritCheck, RelRead, Goto,
        At, Alive, TypeOK, NoFile
  <2>3. InheritCheck'
    BY <1>12
    DEF KeeperInv, KeeperOfFile, FileIsOfBorn, InheritCheck, RelRead, Goto,
        At, Alive, TypeOK, NoFile
  <2>4. \A p \in Procs : upc'[p] = "idle"
    BY <1>12 DEF KeeperInv, RelRead
  <2> QED BY <2>1, <2>2, <2>3, <2>4 DEF KeeperInv
<1>13. ASSUME NEW o \in Ops, Unlink(o) PROVE KeeperInv'
  <2>1. KeeperOfFile'
    BY <1>13
    DEF KeeperInv, KeeperOfFile, FileIsOfBorn, InheritCheck, Unlink, Goto, At,
        Alive, Keeper, TypeOK, NoFile
  <2>2. FileIsOfBorn'
    BY <1>13
    DEF KeeperInv, KeeperOfFile, FileIsOfBorn, InheritCheck, Unlink, Goto, At,
        Alive, TypeOK, NoFile
  <2>3. InheritCheck'
    BY <1>13
    DEF KeeperInv, KeeperOfFile, FileIsOfBorn, InheritCheck, Unlink, Goto, At,
        Alive, TypeOK, NoFile
  <2>4. \A q \in Procs : upc'[q] = "idle"
    BY <1>13 DEF KeeperInv, Unlink
  <2> QED BY <2>1, <2>2, <2>3, <2>4 DEF KeeperInv
<1>14. ASSUME NEW p \in Procs, Heartbeat(p) PROVE KeeperInv'
  <2>1. KeeperOfFile'
    BY <1>14
    DEF KeeperInv, KeeperOfFile, FileIsOfBorn, InheritCheck, Heartbeat, Alive,
        Keeper, TypeOK, NoFile
  <2>2. FileIsOfBorn'
    BY <1>14
    DEF KeeperInv, KeeperOfFile, FileIsOfBorn, InheritCheck, Heartbeat, Alive,
        TypeOK, NoFile
  <2>3. InheritCheck'
    BY <1>14
    DEF KeeperInv, KeeperOfFile, FileIsOfBorn, InheritCheck, Heartbeat, Alive,
        TypeOK, NoFile
  <2>4. \A q \in Procs : upc'[q] = "idle"
    BY <1>14 DEF KeeperInv, Heartbeat
  <2> QED BY <2>1, <2>2, <2>3, <2>4 DEF KeeperInv
<1>15. ASSUME NEW p \in Procs, Spawn(p) PROVE KeeperInv'
  <2>1. KeeperOfFile'
    BY <1>15
    DEF KeeperInv, KeeperOfFile, FileIsOfBorn, InheritCheck, Spawn, Alive,
        Keeper, TypeOK, NoFile
  <2>2. FileIsOfBorn'
    BY <1>15
    DEF KeeperInv, KeeperOfFile, FileIsOfBorn, InheritCheck, Spawn, Alive,
        TypeOK, NoFile
  <2>3. InheritCheck'
    BY <1>15
    DEF KeeperInv, KeeperOfFile, FileIsOfBorn, InheritCheck, Spawn, Alive,
        TypeOK, NoFile
  <2>4. \A q \in Procs : upc'[q] = "idle"
    BY <1>15 DEF KeeperInv, Spawn
  <2> QED BY <2>1, <2>2, <2>3, <2>4 DEF KeeperInv
<1>16. ASSUME NEW p \in Procs, ChildExit(p) PROVE KeeperInv'
  <2>1. KeeperOfFile'
    BY <1>16
    DEF KeeperInv, KeeperOfFile, FileIsOfBorn, InheritCheck, ChildExit,
        Vanish, Alive, Keeper, TypeOK, NoFile
  <2>2. FileIsOfBorn'
    BY <1>16
    DEF KeeperInv, KeeperOfFile, FileIsOfBorn, InheritCheck, ChildExit,
        Vanish, Alive, TypeOK, NoFile
  <2>3. InheritCheck'
    BY <1>16
    DEF KeeperInv, KeeperOfFile, FileIsOfBorn, InheritCheck, ChildExit,
        Vanish, Alive, TypeOK, NoFile
  <2>4. \A q \in Procs : upc'[q] = "idle"
    BY <1>16 DEF KeeperInv, ChildExit, Vanish
  <2> QED BY <2>1, <2>2, <2>3, <2>4 DEF KeeperInv
<1>17. ASSUME NEW p \in Procs, Crash(p) PROVE KeeperInv'
  <2>1. KeeperOfFile'
    BY <1>17
    DEF KeeperInv, KeeperOfFile, FileIsOfBorn, InheritCheck, Crash, Vanish,
        Alive, Keeper, TypeOK, NoFile
  <2>2. FileIsOfBorn'
    BY <1>17
    DEF KeeperInv, KeeperOfFile, FileIsOfBorn, InheritCheck, Crash, Vanish,
        Alive, TypeOK, NoFile
  <2>3. InheritCheck'
    BY <1>17
    DEF KeeperInv, KeeperOfFile, FileIsOfBorn, InheritCheck, Crash, Vanish,
        Alive, TypeOK, NoFile
  <2>4. \A q \in Procs : upc'[q] = "idle"
    BY <1>17 DEF KeeperInv, Crash, Vanish
  <2> QED BY <2>1, <2>2, <2>3, <2>4 DEF KeeperInv
<1>18. ASSUME NEW p \in Procs, Exit(p) PROVE KeeperInv'
  <2>1. KeeperOfFile'
    BY <1>18
    DEF KeeperInv, KeeperOfFile, FileIsOfBorn, InheritCheck, Exit, Vanish,
        Alive, Keeper, TypeOK, NoFile
  <2>2. FileIsOfBorn'
    BY <1>18
    DEF KeeperInv, KeeperOfFile, FileIsOfBorn, InheritCheck, Exit, Vanish,
        Alive, TypeOK, NoFile
  <2>3. InheritCheck'
    BY <1>18
    DEF KeeperInv, KeeperOfFile, FileIsOfBorn, InheritCheck, Exit, Vanish,
        Alive, TypeOK, NoFile
  <2>4. \A q \in Procs : upc'[q] = "idle"
    BY <1>18 DEF KeeperInv, Exit, Vanish
  <2> QED BY <2>1, <2>2, <2>3, <2>4 DEF KeeperInv
<1>19. ASSUME NEW p \in Procs, ReusePid(p) PROVE KeeperInv'
  <2>1. KeeperOfFile'
    BY <1>19
    DEF KeeperInv, KeeperOfFile, FileIsOfBorn, InheritCheck, ReusePid, Alive,
        Keeper, TypeOK, NoFile
  <2>2. FileIsOfBorn'
    BY <1>19
    DEF KeeperInv, KeeperOfFile, FileIsOfBorn, InheritCheck, ReusePid, Alive,
        TypeOK, NoFile
  <2>3. InheritCheck'
    BY <1>19
    DEF KeeperInv, KeeperOfFile, FileIsOfBorn, InheritCheck, ReusePid, Alive,
        TypeOK, NoFile
  <2>4. \A q \in Procs : upc'[q] = "idle"
    BY <1>19 DEF KeeperInv, ReusePid
  <2> QED BY <2>1, <2>2, <2>3, <2>4 DEF KeeperInv
<1>20. ASSUME NEW p \in Procs, Unlocking(p) PROVE FALSE
  BY <1>20 DEF KeeperInv, Unlocking, UnlockRead, UnlockJudge, UnlockRemove, UnlockFails, UnlockForget
<1>21. CASE Expire
  BY <1>21
  DEF Expire, KeeperInv, KeeperOfFile, FileIsOfBorn, InheritCheck, Keeper,
      Alive, TypeOK, NoFile
<1>22. CASE UNCHANGED vars
  BY <1>22
  DEF vars, KeeperInv, KeeperOfFile, FileIsOfBorn, InheritCheck, Keeper,
      Alive, TypeOK
<1>23. ASSUME NEW o \in Ops, CreateFails(o) PROVE KeeperInv'
  <2>1. KeeperOfFile'
    BY <1>23 DEF KeeperInv, KeeperOfFile, CreateFails, Throw, Goto, At, Alive, Keeper, TypeOK
  <2>2. FileIsOfBorn'
    BY <1>23 DEF KeeperInv, FileIsOfBorn, CreateFails
  <2>3. InheritCheck'
    BY <1>23 DEF KeeperInv, InheritCheck, CreateFails, Throw, Goto, TypeOK
  <2>4. \A p \in Procs : upc'[p] = "idle"
    BY <1>23 DEF KeeperInv, CreateFails
  <2> QED BY <2>1, <2>2, <2>3, <2>4 DEF KeeperInv
<1>24. ASSUME NEW o \in Ops, StealFails(o) \/ UnlinkFails(o) PROVE FALSE
  BY <1>24 DEF StealFails, UnlinkFails, RemovalFails
<1> QED
  BY <1>1, <1>2, <1>3, <1>4, <1>5, <1>6, <1>7, <1>8, <1>9, <1>10, <1>11, <1>12, <1>13,
      <1>14, <1>15, <1>16, <1>17, <1>18, <1>19, <1>20, <1>21, <1>22, <1>23, <1>24
  DEF Next, Step, ProcStep

\* Whatever is killed, torn, suspended, stolen or could not be created, a live
\* process whose operations have all ended leaves no lock file that names it,
\* as long as every removal succeeds and nobody removes a lock by hand.
THEOREM LeavesNothing ==
  ASSUME {"unlock", "force", "rm"} \cap Env = {}
  PROVE  Spec => []NoLeftover
<1>1. KeeperInv => NoLeftover
  BY DEF KeeperInv, KeeperOfFile, NoLeftover, Keeper, InSection
<1>2. KeeperInv /\ [Next]_vars => KeeperInv'
  BY KeeperStep
<1> QED
  BY KeeperInit, <1>1, <1>2, PTL DEF Spec
=============================================================================
