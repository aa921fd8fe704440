------------------------------- MODULE RWLock -------------------------------
(***************************************************************************)
(* What the header of storage/lmgr/lwlock.c promises of a lightweight      *)
(* lock: "exclusive and shared lock modes".                                *)
(***************************************************************************)
EXTENDS Integers

CONSTANT Procs
VARIABLES readers, writers   \* the processes that hold the lock, by mode

Init == readers = {} /\ writers = {}

AcquireShared(p) ==
  /\ writers = {} /\ p \notin readers
  /\ readers' = readers \cup {p} /\ UNCHANGED writers

AcquireExclusive(p) ==
  /\ writers = {} /\ readers = {}
  /\ writers' = {p} /\ UNCHANGED readers

Release(p) ==
  /\ p \in readers \cup writers
  /\ readers' = readers \ {p} /\ writers' = writers \ {p}

Next == \E p \in Procs : AcquireShared(p) \/ AcquireExclusive(p) \/ Release(p)

Spec == Init /\ [][Next]_<<readers, writers>>
=============================================================================
