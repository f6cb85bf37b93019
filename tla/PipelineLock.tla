----------------------------- MODULE PipelineLock -----------------------------
(***************************************************************************)
(* The file lock every write operation of the sidecar runs under           *)
(* (DbService: readLock, acquireLock, releaseLock, withWriteLock,          *)
(* forceUnlock, the heartbeat and the exit hook), shared by the processes  *)
(* that open the same database and by the requests inside one process.     *)
(*                                                                         *)
(* A file operation is one step, and every `await` between two of them is  *)
(* a place where the other operations and processes run.  One process      *)
(* keeps heldLock, inheritedLock and heartbeatTimer for all its            *)
(* operations, as the DbService singleton does.                            *)
(***************************************************************************)
EXTENDS Integers, FiniteSets

CONSTANTS
  Procs,      \* operating system processes, named by their pid
  Ops,        \* write operations: one withWriteLock call in flight each
  ProcOf,     \* the process an operation runs in
  SpawnerOf,  \* the operation that spawns a process with
              \* PIPELINE_LOCK_OWNER_PID, NoOp for the others
  NoOp,
  Env         \* what the environment does in this instance

\* What may happen to a process or a file besides the code's own steps:
\*   torn    - a reader runs between the open("wx") and the write
\*   crash   - a process is killed (kill -9, or a signal it does not handle)
\*   exit    - process.exit() while operations are in flight
\*   reuse   - the pid of a dead process is given to a foreign one
\*   suspend - the machine or a process sleeps past LOCK_STALE_MS
\*   disk    - a writeFile fails with something else than EEXIST
\*   rm      - a removal fails, as in a directory without the rights
\*   unlock  - db.unlock is called without force
\*   force   - db.unlock is called with {"force": true}
EnvKinds == {"torn", "crash", "exit", "reuse", "suspend", "disk", "rm",
             "unlock", "force"}

ASSUME LockAssumption ==
  /\ ProcOf \in [Ops -> Procs]
  /\ NoOp \notin Ops
  /\ SpawnerOf \in [Procs -> Ops \cup {NoOp}]
  /\ Env \subseteq EnvKinds

\* A spawned script is one withWriteLock call (cli/run-vectorize.js), and only
\* a server spawns one (runChildScript): never a spawned script.
ASSUME ChildAssumption ==
  \A p \in Procs : SpawnerOf[p] # NoOp =>
    /\ SpawnerOf[ProcOf[SpawnerOf[p]]] = NoOp
    /\ \A o1, o2 \in Ops : ProcOf[o1] = p /\ ProcOf[o2] = p => o1 = o2

VARIABLES
  file,       \* pipeline.lock: NoFile, or who created it, whether its text is
              \* written, whether its mtime is younger than LOCK_STALE_MS
  status,     \* per process: unborn, alive, dead, reused (its pid is foreign)
  heldLock,   \* per process: whether DbService.heldLock is set
  inherited,  \* per process: DbService.inheritedLock
  timer,      \* per process: whether heartbeatTimer is set
  pc,         \* per operation: the await it stands at
  att,        \* per operation: 0 in the inherit check, 1..3 the attempt
  seen,       \* per operation: the text readLock read, NoText if none
  upc,        \* per process: the await forceUnlock stands at
  useen       \* per process: the text forceUnlock's readLock read

vars == <<file, status, heldLock, inherited, timer, pc, att, seen, upc, useen>>

MaxAttempts == 3

NoFile == [owner |-> NoOp, full |-> FALSE, fresh |-> FALSE]

LockFiles == [owner : Ops, full : BOOLEAN, fresh : BOOLEAN]

\* What readFile brings: who wrote it, if anyone has.
Text(f) == [owner |-> f.owner, full |-> f.full]
NoText == Text(NoFile)
Texts == {Text(f) : f \in LockFiles}

\* What a writeFile has created, with its text or without.
NewLock(o, full) == [owner |-> o, full |-> full, fresh |-> TRUE]

ChildProcs == {p \in Procs : SpawnerOf[p] # NoOp}

TypeOK ==
  /\ file \in LockFiles \cup {NoFile}
  /\ status \in [Procs -> {"unborn", "alive", "dead", "reused"}]
  /\ heldLock \in [Procs -> BOOLEAN]
  /\ inherited \in [Procs -> BOOLEAN]
  /\ timer \in [Procs -> BOOLEAN]
  /\ pc \in [Ops -> {"idle", "create", "write", "grant", "inspect", "judge",
                     "steal", "held", "relread", "unlink"}]
  /\ att \in [Ops -> 0 .. MaxAttempts]
  /\ seen \in [Ops -> Texts \cup {NoText}]
  /\ upc \in [Procs -> {"idle", "judge", "remove", "forget"}]
  /\ useen \in [Procs -> Texts \cup {NoText}]

Init ==
  /\ file = NoFile
  /\ status = [p \in Procs |-> IF p \in ChildProcs THEN "unborn" ELSE "alive"]
  /\ heldLock = [p \in Procs |-> FALSE]
  /\ inherited = [p \in Procs |-> FALSE]
  /\ timer = [p \in Procs |-> FALSE]
  /\ pc = [o \in Ops |-> "idle"]
  /\ att = [o \in Ops |-> 0]
  /\ seen = [o \in Ops |-> NoText]
  /\ upc = [p \in Procs |-> "idle"]
  /\ useen = [p \in Procs |-> NoText]

Alive(o) == status[ProcOf[o]] = "alive"

At(o, place) == Alive(o) /\ pc[o] = place

Goto(o, place) == pc' = [pc EXCEPT ![o] = place]

-----------------------------------------------------------------------------
(* readLock: the text first, then the mtime of whatever file is there by   *)
(* then, then the pid.                                                     *)

\* isProcessAlive: kill(pid, 0) cannot tell the owner from a foreign process
\* that was given its number.
IsProcessAlive(p) == status[p] \in {"alive", "reused"}

Broken(read) == ~read.full

\* No file at the stat: heartbeatAgeMs is null and the heartbeat is not lost.
HeartbeatLost == file # NoFile /\ ~file.fresh

\* Mutant: the pid alone decides.
StaleByPidOnly(read) == ~IsProcessAlive(ProcOf[read.owner])

Stale(read) == ~IsProcessAlive(ProcOf[read.owner]) \/ HeartbeatLost

\* broken || stale: what acquireLock takes over and forceUnlock removes unasked.
Takeable(read) == Broken(read) \/ Stale(read)

-----------------------------------------------------------------------------
(* acquireLock                                                             *)

\* withWriteLock outside any section; a spawned script checks its parent's
\* lock first.
Start(o) ==
  /\ At(o, "idle")
  /\ IF ProcOf[o] \in ChildProcs
       THEN Goto(o, "inspect") /\ att' = [att EXCEPT ![o] = 0]
       ELSE Goto(o, "create") /\ att' = [att EXCEPT ![o] = 1]
  /\ UNCHANGED <<file, status, heldLock, inherited, timer, seen, upc, useen>>

\* Mutant: flag "w".
CreateOver(o) ==
  /\ At(o, "create")
  /\ file' = NewLock(o, TRUE)
  /\ Goto(o, "grant")
  /\ UNCHANGED <<status, heldLock, inherited, timer, att, seen, upc, useen>>

\* writeFile with flag "wx": the open creates the file, or fails with EEXIST.
Create(o) ==
  /\ At(o, "create")
  /\ IF file # NoFile
       THEN Goto(o, "inspect") /\ UNCHANGED file
       ELSE /\ file' = NewLock(o, "torn" \notin Env)
            /\ Goto(o, IF "torn" \in Env THEN "write" ELSE "grant")
  /\ UNCHANGED <<status, heldLock, inherited, timer, att, seen, upc, useen>>

\* Its call throws: an error of writeFile that is not EEXIST, or
\* PIPELINE_LOCK_STALE.
Throw(o) == Goto(o, "idle") /\ att' = [att EXCEPT ![o] = 0]

\* The open fails, or the write after it: the file is left without a text.
CreateFails(o) ==
  /\ "disk" \in Env
  /\ At(o, "create") \/ At(o, "write")
  /\ Throw(o)
  /\ UNCHANGED <<file, status, heldLock, inherited, timer, seen, upc, useen>>

\* The write of writeFile goes to the file the open created, even when another
\* operation has unlinked it since.
Write(o) ==
  /\ At(o, "write")
  /\ file' = IF file.owner = o THEN [file EXCEPT !.full = TRUE] ELSE file
  /\ Goto(o, "grant")
  /\ UNCHANGED <<status, heldLock, inherited, timer, att, seen, upc, useen>>

\* Mutant: no startHeartbeat.
GrantSilently(o) ==
  /\ At(o, "grant")
  /\ heldLock' = [heldLock EXCEPT ![ProcOf[o]] = TRUE]
  /\ inherited' = [inherited EXCEPT ![ProcOf[o]] = FALSE]
  /\ att' = [att EXCEPT ![o] = 0]
  /\ Goto(o, "held")
  /\ UNCHANGED <<file, status, timer, seen, upc, useen>>

\* The continuation of writeFile: heldLock, startHeartbeat, installExitHook.
Grant(o) ==
  /\ At(o, "grant")
  /\ heldLock' = [heldLock EXCEPT ![ProcOf[o]] = TRUE]
  /\ inherited' = [inherited EXCEPT ![ProcOf[o]] = FALSE]
  /\ timer' = [timer EXCEPT ![ProcOf[o]] = TRUE]
  /\ att' = [att EXCEPT ![o] = 0]
  /\ Goto(o, "held")
  /\ UNCHANGED <<file, status, seen, upc, useen>>

\* Mutant: attempt <= 3.
RetryOnceMore(o) ==
  IF att[o] > MaxAttempts
    THEN Goto(o, "idle") /\ att' = [att EXCEPT ![o] = 0]
    ELSE Goto(o, "create") /\ att' = [att EXCEPT ![o] = @ + 1]

\* An attempt that got nowhere: the next one, or the failure of the third.
Retry(o) ==
  IF att[o] = MaxAttempts
    THEN Goto(o, "idle") /\ att' = [att EXCEPT ![o] = 0]
    ELSE Goto(o, "create") /\ att' = [att EXCEPT ![o] = @ + 1]

\* What readLock returned is out of use.
Forget(o) == seen' = [seen EXCEPT ![o] = NoText]

\* readFile inside readLock; null sends the caller to its next attempt.
Inspect(o) ==
  /\ At(o, "inspect")
  /\ IF file = NoFile
       THEN Retry(o) /\ UNCHANGED seen
       ELSE Goto(o, "judge") /\ seen' = [seen EXCEPT ![o] = Text(file)] /\ UNCHANGED att
  /\ UNCHANGED <<file, status, heldLock, inherited, timer, upc, useen>>

\* A spawned script finds the live lock of the process that spawned it: it
\* takes none of its own.
Inherit(o) ==
  /\ At(o, "judge") /\ att[o] = 0
  /\ ~Takeable(seen[o])
  /\ ProcOf[seen[o].owner] = ProcOf[SpawnerOf[ProcOf[o]]]
  /\ inherited' = [inherited EXCEPT ![ProcOf[o]] = TRUE]
  /\ heldLock' = [heldLock EXCEPT ![ProcOf[o]] = TRUE]
  /\ Forget(o)
  /\ Goto(o, "held")
  /\ UNCHANGED <<file, status, timer, att, upc, useen>>

\* It finds anything else: it competes like any operation.
InheritFails(o) ==
  /\ At(o, "judge") /\ att[o] = 0
  /\ \/ Takeable(seen[o])
     \/ ProcOf[seen[o].owner] # ProcOf[SpawnerOf[ProcOf[o]]]
  /\ Forget(o)
  /\ Retry(o)
  /\ UNCHANGED <<file, status, heldLock, inherited, timer, upc, useen>>

\* Mutant: the refusal resets the fields of a section in progress.
RefuseAndReset(o) ==
  /\ At(o, "judge") /\ att[o] > 0
  /\ ~Takeable(seen[o])
  /\ heldLock' = [heldLock EXCEPT ![ProcOf[o]] = FALSE]
  /\ Forget(o)
  /\ att' = [att EXCEPT ![o] = 0]
  /\ Goto(o, "idle")
  /\ UNCHANGED <<file, status, inherited, timer, upc, useen>>

\* PIPELINE_LOCKED: the owner is alive.
Refuse(o) ==
  /\ At(o, "judge") /\ att[o] > 0
  /\ ~Takeable(seen[o])
  /\ Forget(o)
  /\ att' = [att EXCEPT ![o] = 0]
  /\ Goto(o, "idle")
  /\ UNCHANGED <<file, status, heldLock, inherited, timer, upc, useen>>

DecideToSteal(o) ==
  /\ At(o, "judge") /\ att[o] > 0
  /\ Takeable(seen[o])
  /\ Forget(o)
  /\ Goto(o, "steal")
  /\ UNCHANGED <<file, status, heldLock, inherited, timer, att, upc, useen>>

\* fs.rm removes whatever file is at the path by now.
Steal(o) ==
  /\ At(o, "steal")
  /\ file' = NoFile
  /\ Retry(o)
  /\ UNCHANGED <<status, heldLock, inherited, timer, seen, upc, useen>>

\* fs.rm with force fails on a file, never on none.
RemovalFails == "rm" \in Env /\ file # NoFile

StealFails(o) ==
  /\ At(o, "steal") /\ RemovalFails
  /\ Throw(o)
  /\ UNCHANGED <<file, status, heldLock, inherited, timer, seen, upc, useen>>

-----------------------------------------------------------------------------
(* releaseLock: the synchronous part, the read, the removal                *)

\* Mutant: the script is not awaited.
EndEarly(o) ==
  /\ At(o, "held")
  /\ LET p == ProcOf[o] IN
       /\ timer' = [timer EXCEPT ![p] = FALSE]
       /\ inherited' = [inherited EXCEPT ![p] = FALSE]
       /\ heldLock' = [heldLock EXCEPT ![p] = FALSE]
       /\ Goto(o, IF heldLock[p] /\ ~inherited[p] THEN "relread" ELSE "idle")
  /\ UNCHANGED <<file, status, att, seen, upc, useen>>

\* A section ends when its function returns; fullSync's returns after the
\* `close` of the script it spawned.
End(o) ==
  /\ At(o, "held")
  /\ \A p \in ChildProcs : SpawnerOf[p] = o => status[p] # "alive"
  /\ LET p == ProcOf[o] IN
       /\ timer' = [timer EXCEPT ![p] = FALSE]
       /\ inherited' = [inherited EXCEPT ![p] = FALSE]
       /\ heldLock' = [heldLock EXCEPT ![p] = FALSE]
       /\ Goto(o, IF heldLock[p] /\ ~inherited[p] THEN "relread" ELSE "idle")
  /\ UNCHANGED <<file, status, att, seen, upc, useen>>

\* The file is compared by pid only; an empty one fails the parse.
RelRead(o) ==
  /\ At(o, "relread")
  /\ Goto(o, IF file # NoFile /\ file.full /\ ProcOf[file.owner] = ProcOf[o]
               THEN "unlink" ELSE "idle")
  /\ UNCHANGED <<file, status, heldLock, inherited, timer, att, seen, upc, useen>>

Unlink(o) ==
  /\ At(o, "unlink")
  /\ file' = NoFile
  /\ Goto(o, "idle")
  /\ UNCHANGED <<status, heldLock, inherited, timer, att, seen, upc, useen>>

\* The section has succeeded: a warning, no error, and the file stays.
UnlinkFails(o) ==
  /\ At(o, "unlink") /\ RemovalFails
  /\ Goto(o, "idle")
  /\ UNCHANGED <<file, status, heldLock, inherited, timer, att, seen, upc, useen>>

-----------------------------------------------------------------------------
(* forceUnlock, one call at a time in a process                            *)

UGoto(p, place) == upc' = [upc EXCEPT ![p] = place]

UnlockRead(p) ==
  /\ {"unlock", "force"} \cap Env # {}
  /\ status[p] = "alive" /\ p \notin ChildProcs /\ upc[p] = "idle"
  /\ file # NoFile
  /\ useen' = [useen EXCEPT ![p] = Text(file)]
  /\ UGoto(p, "judge")
  /\ UNCHANGED <<file, status, heldLock, inherited, timer, pc, att, seen>>

\* A live owner is spared without force; the lockStatus read before the
\* removal changes nothing.
UnlockJudge(p) ==
  /\ status[p] = "alive" /\ upc[p] = "judge"
  /\ \E forced \in {f \in BOOLEAN : f => "force" \in Env} :
       IF forced \/ Takeable(useen[p])
         THEN UGoto(p, "remove") /\ UNCHANGED useen
         ELSE UGoto(p, "idle") /\ useen' = [useen EXCEPT ![p] = NoText]
  /\ UNCHANGED <<file, status, heldLock, inherited, timer, pc, att, seen>>

UnlockRemove(p) ==
  /\ status[p] = "alive" /\ upc[p] = "remove"
  /\ file' = NoFile
  /\ UGoto(p, "forget")
  /\ UNCHANGED <<status, heldLock, inherited, timer, pc, att, seen, useen>>

\* The call of db.unlock throws.
UnlockFails(p) ==
  /\ status[p] = "alive" /\ upc[p] = "remove" /\ RemovalFails
  /\ useen' = [useen EXCEPT ![p] = NoText]
  /\ UGoto(p, "idle")
  /\ UNCHANGED <<file, status, heldLock, inherited, timer, pc, att, seen>>

\* heldLock.pid === lock.pid: a server's heldLock names itself, and the pid of
\* a broken lock is null.
UnlockForget(p) ==
  /\ status[p] = "alive" /\ upc[p] = "forget"
  /\ LET own == heldLock[p] /\ useen[p].full /\ ProcOf[useen[p].owner] = p IN
       /\ heldLock' = [heldLock EXCEPT ![p] = @ /\ ~own]
       /\ inherited' = [inherited EXCEPT ![p] = @ /\ ~own]
  /\ useen' = [useen EXCEPT ![p] = NoText]
  /\ UGoto(p, "idle")
  /\ UNCHANGED <<file, status, timer, pc, att, seen>>

-----------------------------------------------------------------------------
(* The processes, the clock, the file system                               *)

\* The operations between the creation of the file and its removal.
InSection == {"write", "grant", "held", "relread", "unlink"}

\* utimes touches the file at the path, whoever created it.
Heartbeat(p) ==
  /\ status[p] = "alive" /\ timer[p]
  /\ file # NoFile
  /\ file' = [file EXCEPT !.fresh = TRUE]
  /\ UNCHANGED <<status, heldLock, inherited, timer, pc, att, seen, upc, useen>>

\* LOCK_STALE_MS pass without a heartbeat.  An awake process beats every
\* LOCK_HEARTBEAT_MS and gets through a file operation well before that.
Expire ==
  /\ file # NoFile /\ file.fresh
  /\ \/ "suspend" \in Env
     \/ /\ \A p \in Procs : status[p] = "alive" => ~timer[p]
        /\ ~(Alive(file.owner) /\ pc[file.owner] \in InSection)
  /\ file' = [file EXCEPT !.fresh = FALSE]
  /\ UNCHANGED <<status, heldLock, inherited, timer, pc, att, seen, upc, useen>>

\* runChildScript of a section in progress, one script at a time.
Spawn(p) ==
  /\ p \in ChildProcs /\ status[p] = "unborn"
  /\ At(SpawnerOf[p], "held")
  /\ \A q \in ChildProcs : SpawnerOf[q] = SpawnerOf[p] => status[q] # "alive"
  /\ status' = [status EXCEPT ![p] = "alive"]
  /\ UNCHANGED <<file, heldLock, inherited, timer, pc, att, seen, upc, useen>>

\* The process is gone with its memory; the file stays.
Vanish(p) ==
  /\ status' = [status EXCEPT ![p] = "dead"]
  /\ pc' = [o \in Ops |-> IF ProcOf[o] = p THEN "idle" ELSE pc[o]]
  /\ heldLock' = [heldLock EXCEPT ![p] = FALSE]
  /\ inherited' = [inherited EXCEPT ![p] = FALSE]
  /\ timer' = [timer EXCEPT ![p] = FALSE]
  /\ upc' = [upc EXCEPT ![p] = "idle"]
  /\ useen' = [useen EXCEPT ![p] = NoText]
  /\ att' = [o \in Ops |-> IF ProcOf[o] = p THEN 0 ELSE att[o]]
  /\ seen' = [o \in Ops |-> IF ProcOf[o] = p THEN NoText ELSE seen[o]]

\* A spawned script returns from main with nothing in flight.
ChildExit(p) ==
  /\ p \in ChildProcs /\ status[p] = "alive"
  /\ \A o \in Ops : ProcOf[o] = p => pc[o] = "idle"
  /\ Vanish(p)
  /\ UNCHANGED file

Crash(p) ==
  /\ "crash" \in Env
  /\ status[p] = "alive"
  /\ Vanish(p)
  /\ UNCHANGED file

\* process.exit() runs the exit hook: it removes the lock the process holds,
\* compared by pid, in one synchronous block, or fails to.
Exit(p) ==
  /\ "exit" \in Env
  /\ status[p] = "alive"
  /\ Vanish(p)
  /\ \/ file' = IF /\ heldLock[p] /\ ~inherited[p]
                   /\ file # NoFile /\ file.full /\ ProcOf[file.owner] = p
                  THEN NoFile ELSE file
     \/ RemovalFails /\ UNCHANGED file

ReusePid(p) ==
  /\ "reuse" \in Env
  /\ status[p] = "dead"
  /\ status' = [status EXCEPT ![p] = "reused"]
  /\ UNCHANGED <<file, heldLock, inherited, timer, pc, att, seen, upc, useen>>

-----------------------------------------------------------------------------
\* What an operation does once its withWriteLock call is made.
Step(o) ==
  \/ Create(o) \/ Write(o) \/ CreateFails(o) \/ Grant(o)
  \/ Inspect(o) \/ Inherit(o) \/ InheritFails(o) \/ Refuse(o)
  \/ DecideToSteal(o) \/ Steal(o) \/ StealFails(o)
  \/ End(o) \/ RelRead(o) \/ Unlink(o) \/ UnlinkFails(o)

Unlocking(p) ==
  \/ UnlockRead(p) \/ UnlockJudge(p)
  \/ UnlockRemove(p) \/ UnlockFails(p) \/ UnlockForget(p)

ProcStep(p) ==
  \/ Heartbeat(p) \/ Spawn(p) \/ ChildExit(p)
  \/ Crash(p) \/ Exit(p) \/ ReusePid(p)

Next ==
  \/ \E o \in Ops : Start(o) \/ Step(o)
  \/ \E p \in Procs : Unlocking(p) \/ ProcStep(p)
  \/ Expire

Spec == Init /\ [][Next]_vars

\* The event loop runs every continuation, a script that is done exits, and
\* time passes.
Fairness ==
  /\ \A o \in Ops : WF_vars(Step(o))
  /\ \A p \in Procs : WF_vars(ChildExit(p))
  /\ WF_vars(Expire)

FairSpec == Spec /\ Fairness

\* Users who keep asking for their operations, or who ask for none and keep
\* pressing db.unlock; a disk on which a creation or a removal that is tried
\* again and again succeeds again and again.
Retrying ==
  /\ \A o \in Ops : WF_vars(Start(o))
  /\ SF_vars(\E o \in Ops : Create(o)) /\ SF_vars(\E o \in Ops : Steal(o))
Rescuing ==
  /\ \A p \in Procs : WF_vars(Unlocking(p))
  /\ SF_vars(\E p \in Procs : UnlockRemove(p))

-----------------------------------------------------------------------------
\* The operations whose writes are in progress.
Writers == {o \in Ops : At(o, "held")}

\* The section a writer belongs to: a spawned script works for the operation
\* that spawned it.
SectionOf(o) ==
  IF ProcOf[o] \in ChildProcs THEN SpawnerOf[ProcOf[o]] ELSE o

\* Two writers are never at work at once, but for a script and the operation
\* that waits for it: what pipeline.lock is for (two vectorizations in one
\* LanceDB table and one chunks_fts).
MutualExclusion ==
  \A o1, o2 \in Writers : SectionOf(o1) = SectionOf(o2)

\* An operation at work has its own file at the path, complete, with a
\* heartbeat behind it, so no other process can judge it dead or silent.
HolderIsVisible ==
  \A o \in Writers : ProcOf[o] \notin ChildProcs =>
    /\ file = NewLock(o, TRUE)
    /\ timer[ProcOf[o]] /\ heldLock[ProcOf[o]] /\ ~inherited[ProcOf[o]]

\* A live process with none of its operations in flight leaves no lock file
\* that names it: whatever was stolen, created, released or thrown in whatever
\* order, the last of them to end removes it (no "busy" answer without a
\* writer). It holds where removals succeed: a release that cannot remove the
\* file only warns of it, and what becomes of that file is DeadLockGoes.
NoLeftover ==
  \A p \in Procs :
    /\ file # NoFile /\ file.full
    /\ ProcOf[file.owner] = p /\ status[p] = "alive"
    => \E o \in Ops : ProcOf[o] = p /\ pc[o] \in InSection

\* The file of an operation that is not at work: its process is dead, its pid
\* perhaps a foreign process's by now, or it lives on and could not remove it.
Abandoned(o) == file.owner = o /\ ~(Alive(o) /\ pc[o] \in InSection)

\* Such a file does not block the database: while anyone is left to ask for it,
\* or to press db.unlock without force, it goes, even when the pid in it is
\* alive for good and only the heartbeat tells.
DeadLockGoes ==
  Retrying \/ Rescuing =>
    \A o \in Ops :
      Abandoned(o) ~> \/ ~Abandoned(o)
                      \/ \A p \in Procs \ ChildProcs : status[p] # "alive"

-----------------------------------------------------------------------------
(* What the lock promises: WriteLock, with the operations at work as its    *)
(* only state.                                                              *)

Abstract == INSTANCE WriteLock WITH
  Parent <- [o \in Ops |-> IF ProcOf[o] \in ChildProcs
                             THEN SpawnerOf[ProcOf[o]] ELSE NoOp],
  writers <- Writers

\* The lock protocol implements the abstract write lock.
ImplementsWriteLock == Abstract!Spec
=============================================================================
