------------------------------ MODULE WriteLock ------------------------------
(***************************************************************************)
(* What the write lock of the database promises: one section at a time,    *)
(* and inside a section at most one spawned script, which the section      *)
(* outlives.  A busy lock is a refusal, so nothing here waits.             *)
(***************************************************************************)
CONSTANTS
  Ops,        \* write operations
  Parent,     \* the operation a spawned script works for, NoOp for the others
  NoOp

VARIABLE writers   \* the operations at work

Init == writers = {}

\* A section begins when nobody writes.
Begin(o) ==
  /\ Parent[o] = NoOp
  /\ writers = {}
  /\ writers' = {o}

\* A script begins inside the section it was spawned for.
BeginChild(o) ==
  /\ Parent[o] # NoOp
  /\ writers = {Parent[o]}
  /\ writers' = {Parent[o], o}

\* A section ends after its script.
End(o) ==
  /\ o \in writers
  /\ \A c \in writers : Parent[c] # o
  /\ writers' = writers \ {o}

Next == \E o \in Ops : Begin(o) \/ BeginChild(o) \/ End(o)

Spec == Init /\ [][Next]_writers
=============================================================================
