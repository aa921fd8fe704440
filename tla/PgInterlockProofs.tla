-------------------------- MODULE PgInterlockProofs --------------------------
(***************************************************************************)
(* Lock file and segment keep two servers apart, for any number of         *)
(* postmasters, backends and segments of other programs.                   *)
(***************************************************************************)
EXTENDS PgInterlock, FiniteSetTheorems, TLAPS

Processes == Postmasters \cup Backends
Segment ==
  [key : Nat, header : {"zero", "ours", "foreign"},
   attached : SUBSET (Processes \cup {"foreign"}), destroyed : BOOLEAN]
Segments(s) == s = [i \in DOMAIN s |-> s[i]] /\ \A i \in DOMAIN s : s[i] \in Segment

\* The variables of a process are functions of the processes ...
Locals ==
  /\ pc = [p \in Postmasters |-> pc[p]] /\ seen = [p \in Postmasters |-> seen[p]]
  /\ key \in [Postmasters -> Nat] /\ id = [p \in Postmasters |-> id[p]]
  /\ nattch = [p \in Postmasters |-> nattch[p]] /\ state = [p \in Postmasters |-> state[p]]
  /\ own \in [Postmasters -> Nat] /\ owns \in [Postmasters -> BOOLEAN]
  /\ be = [b \in Backends |-> be[b]]

\* ... and the lock file and the segments records; the id of the next segment is new.
Shared ==
  /\ lock \in [by : Postmasters \cup {None}, pid : Postmasters \cup {None}, shm : Nat]
  /\ Segments(segs) /\ nextId \in Nat /\ \A i \in DOMAIN segs : i \in Nat /\ i < nextId

StartLabels == CreatingLockFile \cup CreatingMemory \cup Recreating
Owning == CreatingMemory \cup Recreating \cup {"run", "stopping"}
Probing == {"kill", "stat1", "attach1", "inuse", "unlink"}
Recorded == "unrecorded" \notin upset
NoBackends == Recorded => \A b \in Backends : be[b] = 0
Holds(s, i, q) == i \in DOMAIN s /\ q \in s[i].attached

\* A postmaster that has the lock file on its list has made the one that is there.
Owner(p) ==
  /\ owns[p] => lock.by = p /\ lock.pid = p
  /\ pc[p] \in Owning => owns[p]
  /\ pc[p] \in CreatingLockFile \cup {"dead"} => ~ owns[p]
  /\ At(p, "write") => lock.by = p /\ lock.pid = None

\* If nothing was left unrecorded, the lock file leads to the segment of a running postmaster ...
Parent(p) ==
  /\ pc[p] \in {"addline", "header", "run", "stopping"} => Holds(segs, own[p], p)
  /\ pc[p] \in {"run", "stopping"} => segs[own[p]].header = "ours"
  /\ Recorded /\ pc[p] \in {"header", "run", "stopping"} => lock.shm = own[p]

\* ... and to the one a backend is attached to, whether its postmaster is alive
\* or not.
Child(b) ==
  be[b] # 0 => /\ Recorded => lock # NoFile /\ lock.shm = be[b]
               /\ Holds(segs, be[b], b) /\ segs[be[b]].header = "ours"

\* No backend is there when a postmaster sets up its memory, or takes it down.
Childless(p) ==
  /\ pc[p] \in CreatingMemory \cup Recreating \cup {"write"} => NoBackends
  /\ owns[p] /\ pc[p] \in {"shmdt", "rmid", "exit"} => NoBackends

\* What a starting postmaster knows of a lock file that has not changed since it
\* has read it is still so; and it finds out about every backend.
Prober(p) ==
  /\ pc[p] \in {"stat1", "attach1", "inuse"} => id[p] = seen[p].shm
  /\ p \in fresh /\ pc[p] \in Probing => lock = seen[p] /\ lock.pid \in Postmasters
  /\ p \in fresh /\ pc[p] \in Probing \ {"kill"} => \A q \in Postmasters : ~ owns[q]
  /\ p \in fresh /\ At(p, "attach1") /\ ~ NoBackends => nattch[p] # 0
  /\ p \in fresh /\ At(p, "inuse") /\ ~ NoBackends => state[p] = "ATTACHED"
  /\ p \in fresh /\ At(p, "unlink") => NoBackends

Mine(p) == Owner(p) /\ Parent(p) /\ Childless(p) /\ Prober(p)

Interlock ==
  /\ \A p \in Postmasters : Mine(p)
  /\ \A b \in Backends : Child(b)
InterlockSteps == Locals /\ Shared /\ ("removal" \notin upset => Interlock)

-----------------------------------------------------------------------------
(***************************************************************************)
(* What the calls for segments leave alone.                                *)
(***************************************************************************)

\* t has what s has of the processes other than those of Q, and no new segment.
Keeps(s, t, Q) ==
  /\ Segments(t) /\ DOMAIN t \subseteq DOMAIN s
  /\ \A i \in DOMAIN t : t[i].header = s[i].header
  /\ \A i, q : Holds(s, i, q) /\ q \notin Q => Holds(t, i, q)

\* A segment somebody is attached to stays.
LEMMA ReapKeeps == ASSUME NEW s, Segments(s) PROVE Keeps(s, Reap(s), {})
BY Zenon DEF Reap, Segments, Keeps, Holds, Segment

\* Keeping is transitive.
LEMMA KeepsTwice ==
  ASSUME NEW s, NEW t, NEW u, NEW Q, Keeps(s, t, Q), Keeps(t, u, Q) PROVE Keeps(s, u, Q)
BY Zenon DEF Keeps, Holds

\* shmat
LEMMA AttachKeeps ==
  ASSUME NEW s, Segments(s), NEW i \in DOMAIN s, NEW q \in Processes
  PROVE  Keeps(s, Attach(s, i, q), {}) /\ Holds(Attach(s, i, q), i, q)
<1> DEFINE t == Attach(s, i, q)
<1>1. s[i] \in Segment /\ s[i].attached \cup {q} \subseteq Processes \cup {"foreign"}
  BY Zenon DEF Segments, Segment
<1>2. /\ DOMAIN t = DOMAIN s /\ t = [j \in DOMAIN t |-> t[j]]
      /\ t[i] = [s[i] EXCEPT !.attached = s[i].attached \cup {q}]
      /\ \A j \in DOMAIN s : j # i => t[j] = s[j]
  BY Zenon DEF Attach, Segments
<1>3. t[i] \in Segment /\ t[i].attached = s[i].attached \cup {q} /\ t[i].header = s[i].header
  BY Zenon, <1>1, <1>2 DEF Segment
<1> QED
  BY Zenon, <1>2, <1>3 DEF Keeps, Holds, Segments

\* shmdt
LEMMA DetachKeeps ==
  ASSUME NEW s, Segments(s), NEW i, NEW q PROVE Keeps(s, Detach(s, i, q), {q})
<1>1. CASE i \notin DOMAIN s
  BY Zenon, <1>1 DEF Detach, Keeps
<1>2. CASE i \in DOMAIN s
  <2> DEFINE t == [s EXCEPT ![i].attached = @ \ {q}]
  <2>1. s[i] \in Segment
    BY Zenon, <1>2 DEF Segments
  <2>2. /\ DOMAIN t = DOMAIN s /\ t = [j \in DOMAIN t |-> t[j]]
        /\ t[i] = [s[i] EXCEPT !.attached = s[i].attached \ {q}]
        /\ \A j \in DOMAIN s : j # i => t[j] = s[j]
    BY Zenon, <1>2 DEF Segments
  <2>3. t[i] \in Segment /\ t[i].attached = s[i].attached \ {q} /\ t[i].header = s[i].header
    BY <2>1, <2>2 DEF Segment
  <2>4. Keeps(s, t, {q}) /\ Segments(t)
    BY Zenon, <2>2, <2>3 DEF Keeps, Holds, Segments
  <2>5. Keeps(t, Reap(t), {q})
    BY ZenonT(60), <2>4, ReapKeeps DEF Keeps
  <2>6. Detach(s, i, q) = Reap(t)
    BY Zenon, <1>2 DEF Detach
  <2> QED
    BY Zenon, <2>4, <2>5, <2>6, KeepsTwice
<1> QED
  BY Zenon, <1>1, <1>2

\* The end of the processes Q.
LEMMA DetachAllKeeps ==
  ASSUME NEW s, Segments(s), NEW Q PROVE Keeps(s, DetachAll(s, Q), Q)
<1> DEFINE t == [i \in DOMAIN s |-> [s[i] EXCEPT !.attached = @ \ Q]]
<1>1. \A i \in DOMAIN s : /\ t[i] \in Segment /\ t[i].attached = s[i].attached \ Q
                          /\ t[i].header = s[i].header
  BY Zenon DEF Segments, Segment
<1>2. Keeps(s, t, Q) /\ Segments(t)
  BY Zenon, <1>1 DEF Keeps, Holds, Segments
<1>3. Keeps(t, Reap(t), Q)
  BY Zenon, <1>2, ReapKeeps DEF Keeps
<1> QED
  BY Zenon, <1>2, <1>3, KeepsTwice DEF DetachAll

\* shmctl(IPC_RMID)
LEMMA RmidKeeps ==
  ASSUME NEW s, Segments(s), NEW i PROVE Keeps(s, Rmid(s, i), {})
<1>1. CASE i \notin DOMAIN s
  BY Zenon, <1>1 DEF Rmid, Keeps
<1>2. CASE i \in DOMAIN s
  <2> DEFINE t == [s EXCEPT ![i].destroyed = TRUE]
  <2>1. s[i] \in Segment
    BY Zenon, <1>2 DEF Segments
  <2>2. /\ DOMAIN t = DOMAIN s /\ t = [j \in DOMAIN t |-> t[j]]
        /\ t[i] = [s[i] EXCEPT !.destroyed = TRUE]
        /\ \A j \in DOMAIN s : j # i => t[j] = s[j]
    BY Zenon, <1>2 DEF Segments
  <2>3. t[i] \in Segment /\ t[i].attached = s[i].attached /\ t[i].header = s[i].header
    <3> DEFINE d == TRUE
    <3>1. d \in BOOLEAN /\ t[i] = [s[i] EXCEPT !.destroyed = d]
      BY Zenon, <2>2
    <3> HIDE DEF d
    <3> QED
      BY <2>1, <3>1 DEF Segment
  <2>4. Keeps(s, t, {}) /\ Segments(t)
    BY Zenon, <2>2, <2>3 DEF Keeps, Holds, Segments
  <2>5. Keeps(t, Reap(t), {})
    BY Zenon, <2>4, ReapKeeps
  <2>6. Rmid(s, i) = Reap(t)
    BY Zenon, <1>2 DEF Rmid
  <2> QED
    BY Zenon, <2>4, <2>5, <2>6, KeepsTwice
<1> QED
  BY Zenon, <1>1, <1>2

-----------------------------------------------------------------------------
(***************************************************************************)
(* The kinds of the variables.                                             *)
(***************************************************************************)

\* A step of a postmaster, of a backend, or from outside.
LEMMA LocalsNext == Locals /\ Shared /\ [Next]_vars => Locals'
<1> SUFFICES ASSUME Locals, Shared, [Next]_vars PROVE Locals'
  BY Zenon
<1>1. ASSUME NEW p \in Postmasters,
             \/ Start(p) \/ Open(p) \/ IsInUse(p) \/ AttachOwn(p) \/ AddLine(p) \/ Recheck(p)
             \/ ChildrenGone(p) \/ ShmemDetach(p) \/ Reinitialize(p) \/ Shutdown(p) \/ Fatal(p)
      PROVE  Locals'
  <2>1. UNCHANGED <<probe, own, owns, be>> /\ \E l : Goto(p, l)
    BY Zenon, <1>1 DEF Start, Open, IsInUse, AttachOwn, AddLine, Recheck, ChildrenGone, ShmemDetach,
                Reinitialize, Shutdown, Fatal
  <2> QED
    BY Zenon, <2>1 DEF Locals, Goto, probe
<1>2. ASSUME NEW p \in Postmasters, Unlink(p) \/ MapMemory(p) \/ Header(p) PROVE Locals'
  <2>1. UNCHANGED <<own, owns, be>> /\ Forget(p) /\ \E l : Goto(p, l)
    BY Zenon, <1>2 DEF Unlink, MapMemory, Header
  <2>2. key' \in [Postmasters -> Nat]
    BY Zenon, <2>1 DEF Locals, Forget
  <2> QED
    BY Zenon, <2>1, <2>2 DEF Locals, Goto, Forget
<1>3. ASSUME NEW p \in Postmasters, ReadFile(p) \/ TestOwner(p) PROVE Locals'
  BY Zenon, <1>3 DEF ReadFile, TestOwner, Locals, Goto
<1>4. ASSUME NEW p \in Postmasters, NEW h, NEW t, NEW a, IpcStat(p, h, t, a) \/ Shmat(p, h, a)
      PROVE  Locals'
  BY Zenon, <1>4 DEF IpcStat, Shmat, Locals, Goto
<1>5. ASSUME NEW p \in Postmasters, WriteFile(p) \/ ProcExit(p) PROVE Locals'
  <2>1. /\ UNCHANGED <<own, be>> /\ \E l : Goto(p, l)
        /\ Forget(p) \/ UNCHANGED probe
    BY Zenon, <1>5 DEF WriteFile, ProcExit
  <2>2. owns' \in [Postmasters -> BOOLEAN]
    BY Zenon, <1>5 DEF WriteFile, ProcExit, Locals
  <2>3. key' \in [Postmasters -> Nat]
    BY <2>1 DEF Locals, Forget, probe
  <2> QED
    BY Zenon, <2>1, <2>2, <2>3 DEF Locals, Goto, Forget, probe
<1>6. ASSUME NEW p \in Postmasters, Shmget(p) \/ ShmemDelete(p) PROVE Locals'
  <2>1. UNCHANGED <<probe, owns, be>> /\ \E l : Goto(p, l)
    BY Zenon, <1>6 DEF Shmget, ShmemDelete
  <2>2. own' \in [Postmasters -> Nat]
    BY <1>6 DEF Shmget, ShmemDelete, Locals, Shared
  <2> QED
    BY Zenon, <2>1, <2>2 DEF Locals, Goto, probe
<1>7. ASSUME NEW p \in Postmasters, Probe(p) \/ Recycle(p) PROVE Locals'
  <2>1. UNCHANGED <<seen, own, owns, be>> /\ \E l : Goto(p, l)
    BY Zenon, <1>7 DEF Probe, Recycle
  <2>2. key' \in [Postmasters -> Nat]
    BY <1>7 DEF Probe, Recycle, Locals
  <2>3. /\ id' = [q \in Postmasters |-> id'[q]] /\ nattch' = [q \in Postmasters |-> nattch'[q]]
        /\ state' = [q \in Postmasters |-> state'[q]]
    BY Zenon, <1>7 DEF Probe, Recycle, Locals
  <2> QED
    BY Zenon, <2>1, <2>2, <2>3 DEF Locals, Goto
<1>8. ASSUME NEW Q, Dies(Q), be' = [b \in Backends |-> be'[b]] PROVE Locals'
  <2>1. owns' \in [Postmasters -> BOOLEAN]
    BY Zenon, <1>8 DEF Dies, Locals
  <2>2. key' \in [Postmasters -> Nat] /\ own' \in [Postmasters -> Nat]
    BY Zenon, <1>8 DEF Dies, Locals
  <2> QED
    BY Zenon, <1>8, <2>1, <2>2 DEF Dies, Locals
<1>9. ASSUME NEW p \in Postmasters, Kill(p) \/ SigBus(p) PROVE Locals'
  BY Zenon, <1>8, <1>9 DEF Kill, SigBus, Locals
<1>10. CASE Reboot
  BY Zenon, <1>8, <1>10 DEF Reboot
<1>11. ASSUME NEW b \in Backends, BackendExit(b) \/ \E p \in Postmasters : Fork(p, b) PROVE Locals'
  BY Zenon, <1>11 DEF BackendExit, Fork, Locals, probe
<1>12. CASE ForeignExit \/ RemoveByHand \/ UNCHANGED vars
  BY Zenon, <1>12 DEF ForeignExit, RemoveByHand, vars, Locals, probe
<1> QED
  BY Zenon, <1>1, <1>2, <1>3, <1>4, <1>5, <1>6, <1>7, <1>9, <1>10, <1>11, <1>12 DEF Next, Steps

Moves(p) == Start(p) \/ Steps(p) \/ Reinitialize(p) \/ Shutdown(p) \/ Fatal(p) \/ Kill(p)

\* The others stay attached, and a segment with their header keeps it.
Undisturbed(p) ==
  \A i, q : Holds(segs, i, q) /\ q # p =>
              Holds(segs', i, q) /\ (segs[i].header = "ours" => segs'[i].header = "ours")

\* What a postmaster does to the segments.
LEMMA SegmentsMove ==
  ASSUME Locals, Shared, NEW p \in Postmasters, Moves(p)
  PROVE  /\ Segments(segs') /\ nextId' \in Nat
         /\ \A i \in DOMAIN segs' : i \in Nat /\ i < nextId'
         /\ Undisturbed(p)
<1> USE DEF Shared
<1>1. ASSUME Keeps(segs, segs', {p}), UNCHANGED nextId
      PROVE  /\ Segments(segs') /\ nextId' \in Nat
             /\ \A i \in DOMAIN segs' : i \in Nat /\ i < nextId'
             /\ Undisturbed(p)
  BY Zenon, <1>1 DEF Keeps, Holds, Undisturbed
<1>2. ASSUME NEW t, Keeps(segs, t, {}) PROVE Keeps(segs, t, {p})
  BY Zenon, <1>2 DEF Keeps
<1>3. p \in Processes /\ Keeps(segs, segs, {p})
  BY Zenon DEF Processes, Keeps
<1>4. CASE \/ Start(p) \/ Open(p) \/ ReadFile(p) \/ TestOwner(p) \/ Unlink(p) \/ WriteFile(p)
           \/ IpcStat(p, "stat1", "attach1", "inuse") \/ IpcStat(p, "stat2", "attach2", "recycle")
           \/ MapMemory(p) \/ Probe(p) \/ AddLine(p) \/ Recheck(p) \/ ChildrenGone(p)
           \/ Reinitialize(p) \/ Shutdown(p) \/ Fatal(p)
  <2>1. UNCHANGED <<segs, nextId>>
    BY Zenon, <1>4 DEF Start, Open, ReadFile, TestOwner, Unlink, WriteFile, IpcStat, MapMemory, Probe,
                AddLine, Recheck, ChildrenGone, Reinitialize, Shutdown, Fatal
  <2> QED
    BY Zenon, <1>1, <1>3, <2>1
<1>5. ASSUME NEW h, NEW a, Shmat(p, h, a) PROVE Keeps(segs, segs', {p}) /\ UNCHANGED nextId
  BY Zenon, <1>2, <1>3, <1>5, AttachKeeps DEF Shmat
<1>6. CASE AttachOwn(p)
  BY Zenon, <1>1, <1>2, <1>3, <1>6, AttachKeeps DEF AttachOwn
<1>7. CASE IsInUse(p) \/ ShmemDetach(p)
  BY <1>1, <1>7, DetachKeeps DEF IsInUse, ShmemDetach
<1>8. CASE ShmemDelete(p)
  BY Zenon, <1>1, <1>2, <1>8, RmidKeeps DEF ShmemDelete
<1>9. CASE ProcExit(p) \/ Kill(p)
  <2>1. segs' = DetachAll(segs, {p}) /\ UNCHANGED nextId
    BY Zenon, <1>9 DEF ProcExit, Kill
  <2> QED
    BY Zenon, <1>1, <2>1, DetachAllKeeps
<1>10. CASE Recycle(p)
  <2> DEFINE t == Rmid(segs, id[p])
  <2>1. Keeps(segs, t, {p}) /\ Segments(t)
    BY <1>2, RmidKeeps DEF Keeps
  <2>2. Keeps(segs, Detach(t, id[p], p), {p})
    BY Zenon, <2>1, DetachKeeps, KeepsTwice
  <2>3. Keeps(segs, Detach(segs, id[p], p), {p})
    BY Zenon, DetachKeeps
  <2>4. /\ segs' \in {Detach(t, id[p], p), Detach(segs, id[p], p), segs}
        /\ UNCHANGED nextId
    BY Zenon, <1>10 DEF Recycle
  <2> QED
    BY Zenon, <1>1, <1>3, <2>2, <2>3, <2>4
<1>11. CASE Shmget(p)
  <2>1. CASE WithKey(key[p]) # {}
    BY Zenon, <1>1, <1>3, <1>11, <2>1 DEF Shmget
  <2>2. CASE WithKey(key[p]) = {}
    <3> DEFINE new == [key |-> key[p], header |-> "zero", attached |-> {}, destroyed |-> FALSE]
    <3>1. /\ segs' = [i \in DOMAIN segs \cup {nextId} |-> IF i = nextId THEN new ELSE segs[i]]
          /\ nextId' = nextId + 1
      BY Zenon, <1>11, <2>2 DEF Shmget
    <3>2. new \in Segment
      <4> DEFINE d == FALSE
      <4>1. d \in BOOLEAN /\ key[p] \in Nat
            /\ new = [key |-> key[p], header |-> "zero", attached |-> {}, destroyed |-> d]
        BY Zenon DEF Locals
      <4> HIDE DEF d, new
      <4> QED
        BY Zenon, <4>1 DEF Segment
    <3> HIDE DEF new
    <3>3. nextId \notin DOMAIN segs
      OBVIOUS
    <3>4. Segments(segs') /\ \A i \in DOMAIN segs : segs'[i] = segs[i]
      BY Zenon, <3>1, <3>2, <3>3 DEF Segments
    <3>5. \A i \in DOMAIN segs' : i \in Nat /\ i < nextId'
      BY <3>1
    <3> QED
      BY <3>1, <3>4, <3>5 DEF Undisturbed, Holds
  <2> QED
    BY Zenon, <2>1, <2>2
<1>12. CASE Header(p) \/ SigBus(p)
  <2> DEFINE t == [segs EXCEPT ![own[p]].header = "ours"]
  <2>1. segs' \in {t, DetachAll(t, {p})} /\ UNCHANGED nextId
    BY Zenon, <1>12 DEF Header, SigBus
  <2>2. /\ DOMAIN t = DOMAIN segs /\ t = [i \in DOMAIN t |-> t[i]]
        /\ \A i \in DOMAIN segs :
             t[i] = IF i = own[p] THEN [segs[i] EXCEPT !.header = "ours"] ELSE segs[i]
    BY Zenon DEF Segments
  <2>3. \A i \in DOMAIN segs : /\ t[i] \in Segment /\ t[i].attached = segs[i].attached
                               /\ t[i].header \in {segs[i].header, "ours"}
    BY <2>2 DEF Segments, Segment
  <2> HIDE DEF t
  <2>4. Segments(t)
    BY Zenon, <2>2, <2>3 DEF Segments
  <2>5. Keeps(t, segs', {p})
    <3>1. Keeps(t, t, {p})
      BY Zenon, <2>4 DEF Keeps
    <3>2. Keeps(t, DetachAll(t, {p}), {p})
      BY Zenon, <2>4, DetachAllKeeps
    <3> QED
      BY Zenon, <2>1, <3>1, <3>2
  <2>6. Segments(segs') /\ DOMAIN segs' \subseteq DOMAIN segs
    BY Zenon, <2>2, <2>5 DEF Keeps
  <2>7. Undisturbed(p)
    BY Zenon, <2>2, <2>3, <2>5 DEF Keeps, Undisturbed, Holds
  <2> QED
    BY Zenon, <2>1, <2>6, <2>7
<1> QED
  BY Zenon, <1>1, <1>4, <1>5, <1>6, <1>7, <1>8, <1>9, <1>10, <1>11, <1>12 DEF Moves, Steps

\* The lock file is one some postmaster has made.
LEMMA LockNext ==
  Locals /\ Shared /\ [Next]_vars =>
    lock' \in [by : Postmasters \cup {None}, pid : Postmasters \cup {None}, shm : Nat]
<1> DEFINE File == [by : Postmasters \cup {None}, pid : Postmasters \cup {None}, shm : Nat]
<1> SUFFICES ASSUME Locals, Shared, [Next]_vars PROVE lock' \in File
  BY Zenon
<1>1. lock \in File /\ NoFile \in File /\ own \in [Postmasters -> Nat]
  BY Zenon DEF Shared, Locals, NoFile
<1>2. ASSUME NEW p \in Postmasters, Open(p) \/ Unlink(p) \/ WriteFile(p) \/ AddLine(p) \/ ProcExit(p)
      PROVE  lock' \in File
  BY <1>1, <1>2 DEF Open, Unlink, WriteFile, AddLine, ProcExit, NoFile
<1>3. CASE ~ \E p \in Postmasters : Open(p) \/ Unlink(p) \/ WriteFile(p) \/ AddLine(p) \/ ProcExit(p)
  <2>1. lock' = lock \/ lock' = NoFile
    BY ZenonT(60), <1>3 DEF Next, Steps, Start, ReadFile, TestOwner, IpcStat, Shmat, IsInUse,
       MapMemory, Shmget, Probe, Recycle, AttachOwn, Header, SigBus, Recheck, ChildrenGone,
       ShmemDetach, ShmemDelete, Reinitialize, Shutdown, Fatal, Kill, Dies, Fork, BackendExit,
       Reboot, ForeignExit, RemoveByHand, vars
  <2> QED
    BY Zenon, <1>1, <2>1
<1> QED
  BY Zenon, <1>2, <1>3

\* The segments after any step.
LEMMA SharedNext == Locals /\ Shared /\ [Next]_vars => Shared'
<1> SUFFICES ASSUME Locals, Shared, [Next]_vars PROVE Shared'
  BY Zenon
<1>1. ASSUME Keeps(segs, segs', {}) \/ (\E q : Keeps(segs, segs', {q})), UNCHANGED nextId
      PROVE  Shared'
  BY Zenon, <1>1, LockNext DEF Shared, Keeps
<1>2. ASSUME NEW p \in Postmasters, Moves(p) PROVE Shared'
  BY Zenon, <1>2, LockNext, SegmentsMove DEF Shared
<1>3. ASSUME NEW p \in Postmasters, NEW b \in Backends, Fork(p, b) PROVE Shared'
  <2>1. CASE own[p] \in DOMAIN segs
    BY Zenon, <1>1, <1>3, <2>1, AttachKeeps DEF Fork, Processes, Shared
  <2>2. CASE own[p] \notin DOMAIN segs
    <3>1. segs' = segs /\ UNCHANGED nextId
      BY Zenon, <1>3, <2>2 DEF Fork, Attach, Shared, Segments
    <3> QED
      BY Zenon, <1>1, <3>1 DEF Keeps, Shared
  <2> QED
    BY Zenon, <2>1, <2>2
<1>4. ASSUME NEW b \in Backends, BackendExit(b) PROVE Shared'
  BY Zenon, <1>1, <1>4, DetachAllKeeps DEF BackendExit, Shared
<1>5. CASE ForeignExit
  <2>1. PICK i : segs' = Detach(Rmid(segs, i), i, "foreign") /\ UNCHANGED nextId
    BY Zenon, <1>5 DEF ForeignExit
  <2>2. Keeps(segs, Rmid(segs, i), {"foreign"}) /\ Segments(Rmid(segs, i))
    BY RmidKeeps DEF Shared, Keeps
  <2>3. Keeps(segs, segs', {"foreign"})
    BY Zenon, <2>1, <2>2, DetachKeeps, KeepsTwice
  <2> QED
    BY Zenon, <1>1, <2>1, <2>3
<1>6. CASE Reboot
  BY Zenon, <1>6, LockNext DEF Reboot, Dies, Shared, Segments
<1>7. CASE RemoveByHand \/ UNCHANGED vars
  BY Zenon, <1>7, LockNext DEF RemoveByHand, vars, Shared
<1> QED
  BY Zenon, <1>2, <1>3, <1>4, <1>5, <1>6, <1>7 DEF Next, Moves

\* shm_nattch counts finitely many processes.
LEMMA AttachedFinite ==
  ASSUME Shared, NEW i \in DOMAIN segs PROVE IsFiniteSet(segs[i].attached)
<1>1. IsFiniteSet(Processes \cup {"foreign"})
  BY Zenon, PgInterlockAssumption, FS_Union, FS_AddElement DEF Processes
<1>2. segs[i].attached \subseteq Processes \cup {"foreign"}
  BY Zenon DEF Shared, Segments, Segment
<1> QED
  BY Zenon, <1>1, <1>2, FS_Subset

-----------------------------------------------------------------------------
(***************************************************************************)
(* The interlock.                                                          *)
(***************************************************************************)

\* Nothing of postmaster r changes.
Same(r) ==
  /\ pc'[r] = pc[r] /\ seen'[r] = seen[r] /\ id'[r] = id[r] /\ nattch'[r] = nattch[r]
  /\ state'[r] = state[r] /\ own'[r] = own[r] /\ owns'[r] = owns[r]

\* A step of p changes nothing of another postmaster, and no backend.
LEMMA OthersSame ==
  ASSUME Locals, NEW p \in Postmasters, Moves(p), NEW r \in Postmasters, r # p
  PROVE  Same(r) /\ UNCHANGED be
<1> USE DEF Locals, Same
<1>1. CASE \/ Start(p) \/ Open(p) \/ IsInUse(p) \/ AttachOwn(p) \/ AddLine(p) \/ Recheck(p)
           \/ ChildrenGone(p) \/ ShmemDetach(p) \/ Reinitialize(p) \/ Shutdown(p) \/ Fatal(p)
  <2>1. UNCHANGED <<probe, own, owns, be>> /\ \E l : Goto(p, l)
    BY Zenon, <1>1 DEF Start, Open, IsInUse, AttachOwn, AddLine, Recheck, ChildrenGone, ShmemDetach,
                Reinitialize, Shutdown, Fatal
  <2> QED
    BY Zenon, <2>1 DEF Goto, probe
<1>2. CASE Unlink(p) \/ MapMemory(p) \/ Header(p)
  <2>1. UNCHANGED <<own, owns, be>> /\ Forget(p) /\ \E l : Goto(p, l)
    BY Zenon, <1>2 DEF Unlink, MapMemory, Header
  <2> QED
    BY Zenon, <2>1 DEF Goto, Forget
<1>3. CASE ReadFile(p) \/ TestOwner(p)
  BY Zenon, <1>3 DEF ReadFile, TestOwner, Goto
<1>4. ASSUME NEW h, NEW t, NEW a, IpcStat(p, h, t, a) \/ Shmat(p, h, a) PROVE Same(r) /\ UNCHANGED be
  BY Zenon, <1>4 DEF IpcStat, Shmat, Goto
<1>5. CASE WriteFile(p) \/ ProcExit(p)
  BY Zenon, <1>5 DEF WriteFile, ProcExit, Goto, Forget, probe
<1>6. CASE Shmget(p) \/ ShmemDelete(p)
  BY Zenon, <1>6 DEF Shmget, ShmemDelete, Goto, probe
<1>7. CASE Probe(p) \/ Recycle(p)
  BY Zenon, <1>7 DEF Probe, Recycle, Goto
<1>8. CASE Kill(p) \/ SigBus(p)
  <2>1. Dies({p}) /\ UNCHANGED be
    BY Zenon, <1>8 DEF Kill, SigBus
  <2>2. owns'[r] = owns[r]
    BY ZenonT(60), <2>1 DEF Dies
  <2> QED
    BY Zenon, <2>1, <2>2 DEF Dies
<1> QED
  BY Zenon, <1>1, <1>2, <1>3, <1>4, <1>5, <1>6, <1>7, <1>8 DEF Moves, Steps

\* A step of a postmaster that is no fork changes no backend.
LEMMA BackendsSame == ASSUME NEW p \in Postmasters, Moves(p) PROVE UNCHANGED be
BY Zenon DEF Moves, Steps, Start, Open, ReadFile, TestOwner, Unlink, WriteFile, IpcStat, Shmat, IsInUse,
       MapMemory, Shmget, Probe, Recycle, AttachOwn, AddLine, Header, SigBus, Recheck,
       ChildrenGone, ShmemDetach, ShmemDelete, ProcExit, Reinitialize, Shutdown, Fatal, Kill

\* History only grows.
LEMMA UpsetGrows == ASSUME NEW p \in Postmasters, Moves(p) PROVE upset \subseteq upset'
<1>1. CASE \/ Start(p) \/ Reinitialize(p) \/ Unlink(p) \/ AddLine(p)
  BY Zenon, <1>1 DEF Start, Reinitialize, Unlink, AddLine
<1>2. CASE ~(Start(p) \/ Reinitialize(p) \/ Unlink(p) \/ AddLine(p))
  <2>1. UNCHANGED upset
    BY Zenon, <1>2 DEF Moves, Steps, Open, ReadFile, TestOwner, WriteFile, IpcStat, Shmat, IsInUse,
       MapMemory, Shmget, Probe, Recycle, AttachOwn, Header, SigBus, Recheck, ChildrenGone,
       ShmemDetach, ShmemDelete, ProcExit, Shutdown, Fatal, Kill, Dies, past
  <2> QED
    BY Zenon, <2>1
<1> QED
  BY Zenon, <1>1, <1>2

\* What is not recorded stays so, and backends do not appear.
LEMMA NoBackendsMove ==
  ASSUME NEW p \in Postmasters, Moves(p)
  PROVE  (Recorded' => Recorded) /\ (NoBackends => NoBackends')
BY Zenon, UpsetGrows, BackendsSame DEF Recorded, NoBackends

\* One starts at a time.
Alone == \A p, q \in Starting : p = q

\* While starts do not overlap, only a start from nothing makes a starting process.
LEMMA AloneMove ==
  ASSUME Locals, Alone, NEW p \in Postmasters, Moves(p), "overlap" \notin upset'
  PROVE  Alone'
<1>1. \A r \in Postmasters \ {p} : pc'[r] = pc[r]
  BY Zenon, OthersSame DEF Same
<1>2. CASE Start(p) \/ Reinitialize(p)
  <2>1. Starting = {}
    BY Zenon, <1>2 DEF Start, Reinitialize
  <2>2. Starting' \subseteq {p}
    BY Zenon, <1>1, <2>1 DEF Starting
  <2> QED
    BY Zenon, <2>2 DEF Alone
<1>3. CASE Steps(p) \/ Shutdown(p) \/ Fatal(p) \/ Kill(p)
  <2>1. pc'[p] \in StartLabels => pc[p] \in StartLabels
    <3> USE DEF Locals, Goto, At, StartLabels, CreatingLockFile, CreatingMemory, Recreating
    <3>1. CASE \/ Open(p) \/ ReadFile(p) \/ TestOwner(p) \/ Unlink(p) \/ WriteFile(p)
               \/ IpcStat(p, "stat1", "attach1", "inuse") \/ Shmat(p, "attach1", "inuse") \/ IsInUse(p)
      BY Zenon, <3>1 DEF Open, ReadFile, TestOwner, Unlink, WriteFile, IpcStat, Shmat, IsInUse
    <3>2. CASE \/ MapMemory(p) \/ Shmget(p) \/ Probe(p) \/ IpcStat(p, "stat2", "attach2", "recycle")
               \/ Shmat(p, "attach2", "recycle") \/ Recycle(p) \/ AttachOwn(p) \/ AddLine(p)
      BY Zenon, <3>2 DEF MapMemory, Shmget, Probe, IpcStat, Shmat, Recycle, AttachOwn, AddLine
    <3>3. CASE \/ Header(p) \/ Recheck(p) \/ ChildrenGone(p) \/ ShmemDetach(p) \/ ShmemDelete(p)
               \/ ProcExit(p) \/ Shutdown(p) \/ Fatal(p)
      BY <3>3 DEF Header, Recheck, ChildrenGone, ShmemDetach, ShmemDelete, ProcExit, Shutdown, Fatal
    <3>4. CASE SigBus(p) \/ Kill(p)
      BY Zenon, <3>4 DEF SigBus, Kill, Dies
    <3> QED
      BY Zenon, <1>3, <3>1, <3>2, <3>3, <3>4 DEF Steps
  <2>2. Starting' \subseteq Starting
    BY Zenon, <1>1, <2>1 DEF Starting, StartLabels
  <2> QED
    BY Zenon, <2>2 DEF Alone
<1> QED
  BY Zenon, <1>2, <1>3 DEF Moves

\* A step of p that leaves the lock file alone, and makes p no owner, disturbs
\* nobody else.
LEMMA QuietMove ==
  ASSUME Locals, Shared, Interlock, NEW p \in Postmasters, Moves(p),
         UNCHANGED lock, fresh' \subseteq fresh \cup {p}, owns'[p] => owns[p], Mine(p)'
  PROVE  Interlock'
<1>1. (Recorded' => Recorded) /\ (NoBackends => NoBackends')
  BY Zenon, NoBackendsMove
<1>2. Undisturbed(p)
  BY Zenon, SegmentsMove
<1>3. \A q \in Postmasters : owns'[q] => owns[q]
  BY Zenon, OthersSame DEF Same
<1>4. ASSUME NEW r \in Postmasters, r # p PROVE Mine(r)'
  <2>1. Same(r) /\ (r \in fresh' => r \in fresh)
    BY Zenon, <1>4, OthersSame
  <2>2. Mine(r)
    BY Zenon DEF Interlock
  <2>3. Owner(r)'
    BY Zenon, <2>1, <2>2 DEF Mine, Owner, Same, At
  <2>4. Parent(r)'
    BY Zenon, <1>1, <1>2, <1>4, <2>1, <2>2 DEF Mine, Parent, Same, Undisturbed
  <2>5. Childless(r)'
    BY Zenon, <1>1, <2>1, <2>2 DEF Mine, Childless, Same
  <2>6. Prober(r)'
    BY Zenon, <1>1, <1>3, <2>1, <2>2 DEF Mine, Prober, Same, At
  <2> QED
    BY Zenon, <2>3, <2>4, <2>5, <2>6 DEF Mine
<1>5. ASSUME NEW b \in Backends PROVE Child(b)'
  <2>1. be' = be
    BY Zenon, BackendsSame
  <2>2. Child(b) /\ b # p
    BY Zenon, PgInterlockAssumption DEF Interlock
  <2> QED
    BY Zenon, <1>1, <1>2, <2>1, <2>2 DEF Child, Undisturbed
<1> QED
  BY Zenon, <1>4, <1>5 DEF Interlock

\* A step of p that changes the lock file while nobody else owns it, is about to
\* write it or lives on without its owner.
LEMMA LockMove ==
  ASSUME Locals, Shared, Interlock, NEW p \in Postmasters, Moves(p), fresh' = {},
         NoBackends, \A r \in Postmasters \ {p} : ~ owns[r] /\ pc[r] # "write", Mine(p)'
  PROVE  Interlock'
<1>1. Undisturbed(p) /\ NoBackends' /\ be' = be
  BY Zenon, SegmentsMove, NoBackendsMove, BackendsSame
<1>2. ASSUME NEW r \in Postmasters, r # p PROVE Mine(r)'
  <2>1. Same(r) /\ Mine(r) /\ ~ owns[r] /\ pc[r] # "write"
    BY ZenonT(60), <1>2, OthersSame DEF Interlock
  <2>2. pc[r] \notin Owning
    BY Zenon, <2>1 DEF Mine, Owner
  <2>3. Owner(r)'
    BY Zenon, <2>1, <2>2 DEF Owner, Same, At
  <2>4. Parent(r)'
    BY Zenon, <2>1, <2>2 DEF Parent, Same, Owning, CreatingMemory
  <2>5. Childless(r)'
    BY Zenon, <1>1 DEF Childless
  <2>6. Prober(r)'
    BY Zenon, <2>1 DEF Mine, Prober, Same
  <2> QED
    BY Zenon, <2>3, <2>4, <2>5, <2>6 DEF Mine
<1>3. ASSUME NEW b \in Backends PROVE Child(b)'
  <2>1. Child(b) /\ b # p
    BY Zenon, PgInterlockAssumption DEF Interlock
  <2>2. be[b] # 0 => Holds(segs', be[b], b) /\ segs'[be[b]].header = "ours"
    BY Zenon, <1>1, <2>1 DEF Child, Undisturbed
  <2>3. Recorded' => be'[b] = 0
    BY Zenon, <1>1 DEF NoBackends
  <2> QED
    BY Zenon, <1>1, <2>2, <2>3 DEF Child
<1> QED
  BY Zenon, <1>2, <1>3 DEF Interlock

\* Where p goes when it has nothing to do with the lock file any more.
LEMMA AwayIsMine ==
  ASSUME NEW p \in Postmasters, pc'[p] \in {"shmdt", "rmid", "exit", "dead", "open", "read"},
         owns'[p] => /\ pc'[p] \in {"shmdt", "rmid", "exit"} /\ lock'.by = p /\ lock'.pid = p
                     /\ NoBackends'
  PROVE  Mine(p)'
BY Zenon DEF Mine, Owner, Parent, Childless, Prober, Owning, CreatingMemory, Recreating, CreatingLockFile,
       Probing, At

\* Where p goes while it sets up its memory, before it has attached its segment.
LEMMA CreatingIsMine ==
  ASSUME NEW p \in Postmasters,
         pc'[p] \in {"anon", "shmget", "probe", "stat2", "attach2", "recycle", "shmat", "re_shmdt",
                     "re_rmid"},
         owns'[p], lock'.by = p, lock'.pid = p, NoBackends'
  PROVE  Mine(p)'
BY Zenon DEF Mine, Owner, Parent, Childless, Prober, Owning, CreatingMemory, Recreating, CreatingLockFile,
       Probing, At

\* Only reading the lock file makes a reader of it.
LEMMA NotRead ==
  ASSUME NEW p \in Postmasters,
         \/ TestOwner(p) \/ IpcStat(p, "stat1", "attach1", "inuse") \/ Shmat(p, "attach1", "inuse")
         \/ IsInUse(p)
  PROVE  fresh' = fresh
BY Zenon DEF TestOwner, IpcStat, Shmat, IsInUse, past

\* CreateLockFile up to the decision on the file that is there.
LEMMA ProbingMoves ==
  ASSUME Locals, Shared, Interlock, NEW p \in Postmasters,
         \/ Start(p) \/ ReadFile(p) \/ TestOwner(p) \/ IpcStat(p, "stat1", "attach1", "inuse")
         \/ Shmat(p, "attach1", "inuse") \/ IsInUse(p)
  PROVE  Interlock'
<1>1. Moves(p) /\ UNCHANGED <<lock, owns, be>> /\ fresh' \subseteq fresh \cup {p}
  BY Zenon DEF Moves, Steps, Start, ReadFile, TestOwner, IpcStat, Shmat, IsInUse, past
<1>2. Owner(p) /\ Prober(p)
  BY Zenon DEF Interlock, Mine
<1>3. ~ owns[p] /\ ~ owns'[p]
  BY Zenon, <1>1, <1>2 DEF Start, ReadFile, TestOwner, IpcStat, Shmat, IsInUse, At, Owner,
     CreatingLockFile
<1>4. SUFFICES Mine(p)'
  BY Zenon, <1>1, QuietMove
<1>5. ASSUME pc'[p] \in Probing, Prober(p)' PROVE Mine(p)'
  BY ZenonT(60), <1>3, <1>5 DEF Mine, Owner, Parent, Childless, Probing, Owning, CreatingMemory,
     Recreating, At
<1>6. ASSUME ~ NoBackends, pc[p] \in Probing, p \in fresh
      PROVE  \E b \in Backends : /\ be[b] # 0 /\ seen[p].shm = be[b] /\ Holds(segs, be[b], b)
                                 /\ segs[be[b]].header = "ours"
  BY Zenon, <1>2, <1>6 DEF NoBackends, Prober, Interlock, Child
<1>13. ~ NoBackends' => ~ NoBackends
  BY Zenon, <1>1, NoBackendsMove
<1>7. CASE Start(p)
  BY Zenon, <1>3, <1>7, AwayIsMine DEF Start, Goto, Locals
<1>8. CASE ReadFile(p)
  <2>1. CASE pc'[p] \in {"open", "shmdt"}
    BY Zenon, <1>3, <2>1, AwayIsMine
  <2>2. CASE pc'[p] \notin {"open", "shmdt"}
    <3>1. pc'[p] = "kill" /\ seen'[p] = lock /\ lock.pid # None
      BY Zenon, <1>8, <2>2 DEF ReadFile, Goto, Locals
    <3>2. lock.pid \in Postmasters
      BY Zenon, <3>1 DEF Shared
    <3>3. Prober(p)'
      BY Zenon, <1>1, <3>1, <3>2 DEF Prober, At
    <3> QED
      BY Zenon, <1>5, <3>1, <3>3 DEF Probing
  <2> QED
    BY Zenon, <2>1, <2>2
<1>9. CASE TestOwner(p)
  <2>1. At(p, "kill") /\ seen' = seen /\ id'[p] = seen[p].shm
    BY Zenon, <1>9 DEF TestOwner, Locals
  <2>2. pc'[p] = IF seen[p].pid # p /\ Alive(seen[p].pid) THEN "shmdt"
                 ELSE IF seen[p].shm # 0 THEN "stat1" ELSE "unlink"
    BY Zenon, <1>9 DEF TestOwner, Goto, Locals
  <2>3. CASE pc'[p] = "shmdt"
    BY Zenon, <1>3, <2>3, AwayIsMine
  <2>4. CASE pc'[p] # "shmdt"
    <3>1. p \in fresh => lock = seen[p] /\ lock.pid \in Postmasters
      BY Zenon, <1>2, <2>1 DEF Prober, At, Probing
    <3>2. ASSUME p \in fresh, NEW q \in Postmasters, owns[q] PROVE FALSE
      <4>1. lock.by = q /\ lock.pid = q /\ pc[q] # "dead" /\ q # p
        BY Zenon, <1>3, <3>2 DEF Interlock, Mine, Owner
      <4> QED
        BY Zenon, <2>2, <2>4, <3>1, <3>2, <4>1 DEF Alive
    <3>3. p \in fresh /\ seen[p].shm = 0 => NoBackends
      BY Zenon, <1>6, <2>1 DEF At, Probing
    <3>4. Prober(p)'
      BY Zenon, <1>1, <1>13, <1>9, <2>1, <2>2, <2>4, <3>1, <3>2, <3>3, NotRead DEF Prober, At
    <3> QED
      BY Zenon, <1>5, <2>2, <2>4, <3>4 DEF Probing
  <2> QED
    BY Zenon, <2>3, <2>4
<1>10. CASE IpcStat(p, "stat1", "attach1", "inuse")
  <2>1. At(p, "stat1") /\ UNCHANGED <<seen, id>> /\ id[p] = seen[p].shm
    BY Zenon, <1>2, <1>10 DEF IpcStat, Prober, At
  <2>2. CASE id[p] \in DOMAIN segs
    <3>1. pc'[p] = "attach1" /\ nattch'[p] = Cardinality(segs[id[p]].attached)
      BY Zenon, <1>10, <2>2 DEF IpcStat, Goto, Locals
    <3>2. IsFiniteSet(segs[id[p]].attached)
      BY Zenon, <2>2, AttachedFinite
    <3>3. p \in fresh /\ ~ NoBackends => segs[id[p]].attached # {}
      BY Zenon, <1>6, <2>1 DEF Holds, At, Probing
    <3>4. p \in fresh /\ ~ NoBackends => nattch'[p] # 0
      BY ZenonT(60), <3>1, <3>2, <3>3, FS_EmptySet
    <3>5. Prober(p)'
      BY Zenon, <1>1, <1>2, <1>13, <1>10, <2>1, <3>1, <3>4, NotRead DEF Prober, At, Probing
    <3> QED
      BY Zenon, <1>5, <3>1, <3>5 DEF Probing
  <2>3. CASE id[p] \notin DOMAIN segs
    <3>1. pc'[p] = "inuse"
      BY Zenon, <1>10, <2>3 DEF IpcStat, Goto, Locals
    <3>2. p \in fresh => NoBackends
      BY Zenon, <1>6, <2>1, <2>3 DEF Holds, At, Probing
    <3>3. Prober(p)'
      BY ZenonT(60), <1>1, <1>2, <1>13, <1>10, <2>1, <3>1, <3>2, NotRead DEF Prober, At, Probing
    <3> QED
      BY Zenon, <1>5, <3>1, <3>3 DEF Probing
  <2> QED
    BY Zenon, <2>2, <2>3
<1>11. CASE Shmat(p, "attach1", "inuse")
  <2>1. At(p, "attach1") /\ UNCHANGED <<seen, id>> /\ id[p] = seen[p].shm
    BY Zenon, <1>2, <1>11 DEF Shmat, Prober, At
  <2>2. pc'[p] = "inuse"
    BY Zenon, <1>11 DEF Shmat, Goto, Locals
  <2>3. ASSUME p \in fresh, ~ NoBackends PROVE state'[p] = "ATTACHED"
    <3>1. nattch[p] # 0
      BY Zenon, <1>2, <2>1, <2>3 DEF Prober
    <3>2. id[p] \in DOMAIN segs /\ segs[id[p]].header = "ours"
      BY ZenonT(60), <1>6, <2>1, <2>3 DEF Holds, At, Probing
    <3> QED
      BY ZenonT(60), <1>11, <3>1, <3>2 DEF Shmat, Classify, Locals
  <2>4. Prober(p)'
    BY Zenon, <1>1, <1>2, <1>13, <1>11, <2>1, <2>2, <2>3, NotRead DEF Prober, At, Probing
  <2> QED
    BY Zenon, <1>5, <2>2, <2>4 DEF Probing
<1>12. CASE IsInUse(p)
  <2>1. At(p, "inuse") /\ UNCHANGED probe
    BY Zenon, <1>12 DEF IsInUse
  <2>2. pc'[p] = IF state[p] = "ATTACHED" THEN "shmdt" ELSE "unlink"
    BY ZenonT(60), <1>12 DEF IsInUse, Goto, Locals
  <2>3. CASE state[p] = "ATTACHED"
    BY Zenon, <1>3, <2>2, <2>3, AwayIsMine
  <2>4. CASE state[p] # "ATTACHED"
    <3>1. Prober(p)'
      BY Zenon, <1>1, <1>2, <1>13, <1>12, <2>1, <2>2, <2>4, NotRead DEF Prober, At, Probing, probe
    <3> QED
      BY ZenonT(60), <1>5, <2>2, <2>4, <3>1 DEF Probing
  <2> QED
    BY Zenon, <2>3, <2>4
<1> QED
  BY Zenon, <1>7, <1>8, <1>9, <1>10, <1>11, <1>12

\* PGSharedMemoryCreate, and what is undone of it.
LEMMA CreatingMoves ==
  ASSUME Locals, Shared, Interlock, NEW p \in Postmasters,
         \/ MapMemory(p) \/ Shmget(p) \/ Probe(p) \/ IpcStat(p, "stat2", "attach2", "recycle")
         \/ Shmat(p, "attach2", "recycle") \/ Recycle(p) \/ AttachOwn(p) \/ Header(p)
         \/ Reinitialize(p) \/ ChildrenGone(p) \/ ShmemDetach(p) \/ ShmemDelete(p) \/ Fatal(p)
  PROVE  Interlock'
<1>1. Moves(p) /\ UNCHANGED <<lock, owns, be, fresh>>
  BY Zenon DEF Moves, Steps, MapMemory, Shmget, Probe, IpcStat, Shmat, Recycle, AttachOwn, Header,
         Reinitialize, ChildrenGone, ShmemDetach, ShmemDelete, Fatal, past
<1>11. (NoBackends => NoBackends') /\ (Recorded' => Recorded)
  BY Zenon, <1>1, NoBackendsMove
<1>2. Owner(p) /\ Parent(p) /\ Childless(p)
  BY Zenon DEF Interlock, Mine
<1>3. SUFFICES Mine(p)'
  BY Zenon, <1>1, QuietMove
<1>4. pc[p] \in Owning => owns[p] /\ lock.by = p /\ lock.pid = p
  BY Zenon, <1>2 DEF Owner
<1>5. pc[p] \in {"run", "stopping"} /\ NoChildren(p) => NoBackends
  BY ZenonT(60), <1>2 DEF Parent, Interlock, Child, NoChildren, NoBackends
<1>6. CASE \/ MapMemory(p) \/ Shmget(p) \/ Probe(p) \/ IpcStat(p, "stat2", "attach2", "recycle")
           \/ Shmat(p, "attach2", "recycle")
  <2>1. /\ pc[p] \in CreatingMemory
        /\ pc'[p] \in {"shmget", "probe", "shmat", "stat2", "attach2", "recycle"}
    BY Zenon, <1>6 DEF MapMemory, Shmget, Probe, IpcStat, Shmat, Goto, At, Locals, CreatingMemory
  <2> QED
    BY ZenonT(60), <1>1, <1>2, <1>4, <2>1, <1>11, CreatingIsMine DEF Owning, Childless
<1>7. CASE Recycle(p) \/ Reinitialize(p) \/ ChildrenGone(p) \/ ShmemDetach(p) \/ ShmemDelete(p)
  <2>1. /\ pc'[p] \in {"shmget", "shmdt", "re_shmdt", "rmid", "re_rmid", "exit", "anon"}
        /\ pc'[p] \in {"shmget", "re_shmdt", "re_rmid", "anon"} => pc[p] \in Owning
    BY Zenon, <1>7 DEF Recycle, Reinitialize, ChildrenGone, ShmemDetach, ShmemDelete, Goto, At, Locals,
                Owning, CreatingMemory, Recreating
  <2>2. owns[p] => NoBackends /\ lock.by = p /\ lock.pid = p
    BY Zenon, <1>2, <1>5, <1>7 DEF Recycle, Reinitialize, ChildrenGone, ShmemDetach, ShmemDelete,
       At, Owner, Childless, CreatingMemory, Recreating
  <2>3. CASE pc'[p] \in {"shmget", "re_shmdt", "re_rmid", "anon"}
    BY ZenonT(60), <1>1, <1>4, <2>1, <2>2, <2>3, <1>11, CreatingIsMine
  <2>4. CASE pc'[p] \in {"shmdt", "rmid", "exit"}
    BY ZenonT(60), <1>1, <2>2, <2>4, <1>11, AwayIsMine
  <2> QED
    BY Zenon, <2>1, <2>3, <2>4
<1>8. CASE Fatal(p)
  <2>1. pc'[p] = "shmdt" /\ pc[p] \in CreatingLockFile \cup CreatingMemory
    BY Zenon, <1>8 DEF Fatal, Goto, Locals
  <2>2. owns[p] => NoBackends /\ lock.by = p /\ lock.pid = p
    BY ZenonT(60), <1>2, <2>1 DEF Owner, Childless
  <2> QED
    BY Zenon, <1>1, <1>11, <2>1, <2>2, AwayIsMine
<1>9. CASE AttachOwn(p)
  <2>1. At(p, "shmat") /\ own' = own /\ owns[p] /\ lock.by = p /\ lock.pid = p /\ NoBackends
    BY ZenonT(60), <1>2, <1>4, <1>9 DEF AttachOwn, At, Owning, CreatingMemory, Childless
  <2>2. CASE own[p] \in DOMAIN segs
    <3>1. pc'[p] = "addline" /\ segs' = Attach(segs, own[p], p)
      BY Zenon, <1>9, <2>2 DEF AttachOwn, Goto, Locals
    <3>2. Holds(segs', own'[p], p)
      BY ZenonT(60), <2>1, <2>2, <3>1, AttachKeeps DEF Shared, Processes
    <3> QED
      BY Zenon, <1>1, <1>11, <2>1, <3>1, <3>2 DEF Mine, Owner, Parent, Childless, Prober, At,
         Probing, CreatingLockFile
  <2>3. CASE own[p] \notin DOMAIN segs
    <3>1. pc'[p] = "shmdt"
      BY Zenon, <1>9, <2>3 DEF AttachOwn, Goto, Locals
    <3> QED
      BY Zenon, <1>1, <1>11, <2>1, <3>1, AwayIsMine
  <2> QED
    BY ZenonT(60), <2>2, <2>3
<1>10. CASE Header(p)
  <2>1. /\ At(p, "header") /\ own' = own /\ owns[p] /\ lock.by = p /\ lock.pid = p
        /\ Holds(segs, own[p], p) /\ (Recorded => lock.shm = own[p])
    BY Zenon, <1>2, <1>4, <1>10 DEF Header, At, Owning, CreatingMemory, Parent
  <2>2. segs' = [segs EXCEPT ![own[p]].header = "ours"] /\ pc'[p] = "run"
    BY Zenon, <1>10 DEF Header, Goto, Locals
  <2>3. segs[own[p]] \in Segment
    BY Zenon, <2>1 DEF Shared, Segments, Holds
  <2>4. Holds(segs', own[p], p) /\ segs'[own[p]].header = "ours"
    BY Zenon, <2>1, <2>2, <2>3 DEF Holds, Segment
  <2> QED
    BY Zenon, <1>1, <1>11, <2>1, <2>2, <2>4 DEF Mine, Owner, Parent, Childless, Prober, At, Probing,
                                  CreatingLockFile, CreatingMemory, Recreating
<1> QED
  BY Zenon, <1>6, <1>7, <1>8, <1>9, <1>10

\* A running server is told to stop, or finds that it has to.
LEMMA StoppingMoves ==
  ASSUME Locals, Shared, Interlock, NEW p \in Postmasters, Shutdown(p) \/ Recheck(p)
  PROVE  Interlock'
<1>1. Moves(p) /\ UNCHANGED <<lock, fresh, segs, own, owns, be>>
  BY Zenon DEF Moves, Steps, Shutdown, Recheck, past
<1>5. Recorded' => Recorded
  BY Zenon, <1>1, NoBackendsMove
<1>2. pc[p] = "run" /\ pc'[p] = "stopping"
  BY Zenon DEF Shutdown, Recheck, At, Goto, Locals
<1>3. Owner(p) /\ Parent(p)
  BY Zenon DEF Interlock, Mine
<1>4. Mine(p)'
  BY Zenon, <1>1, <1>2, <1>3, <1>5 DEF Mine, Owner, Parent, Childless, Prober, At, Probing, Owning,
                          CreatingLockFile, CreatingMemory, Recreating
<1> QED
  BY Zenon, <1>1, <1>4, QuietMove

\* A postmaster is killed.
LEMMA KillMoves ==
  ASSUME Locals, Shared, Interlock, NEW p \in Postmasters, Kill(p) \/ SigBus(p)
  PROVE  Interlock'
<1>1. Moves(p) /\ UNCHANGED lock /\ fresh' \subseteq fresh /\ pc'[p] = "dead" /\ ~ owns'[p]
  BY ZenonT(60) DEF Moves, Steps, Kill, SigBus, Dies
<1>2. Mine(p)'
  BY Zenon, <1>1, AwayIsMine
<1> QED
  BY Zenon, <1>1, <1>2, QuietMove

\* The file of p is the file of nobody else.
LEMMA OneOwner ==
  ASSUME Interlock, NEW p \in Postmasters, lock.by = p
  PROVE  \A r \in Postmasters \ {p} : ~ owns[r] /\ pc[r] # "write"
BY Zenon DEF Interlock, Mine, Owner, At

\* The steps that make a lock file, fill it, or remove one that is stale.
LEMMA LockFileMoves ==
  ASSUME Locals, Shared, Interlock, NEW p \in Postmasters, "removal" \notin upset',
         Open(p) \/ Unlink(p) \/ WriteFile(p) \/ AddLine(p)
  PROVE  Interlock'
<1>1. Moves(p) /\ UNCHANGED be /\ Outdate
  BY Zenon DEF Moves, Steps, Open, Unlink, WriteFile, AddLine
<1>2. Owner(p) /\ Parent(p) /\ Childless(p) /\ Prober(p)
  BY Zenon DEF Interlock, Mine
<1>3. (NoBackends => NoBackends') /\ (Recorded' => Recorded)
  BY Zenon, <1>1, NoBackendsMove
<1>4. (lock' = lock => fresh' = fresh) /\ (lock' # lock => fresh' = {})
  BY Zenon, <1>1 DEF Outdate
<1>5. CASE lock' = lock /\ (Open(p) \/ Unlink(p))
  <2>1. UNCHANGED owns /\ ~ owns[p]
    BY Zenon, <1>2, <1>5 DEF Open, Unlink, Owner, At, CreatingLockFile
  <2>2. pc'[p] \in {"read", "shmdt", "open"}
    <3>1. lock'.by = p => lock' # NoFile
      BY PgInterlockAssumption DEF NoFile
    <3>2. Open(p) /\ lock = NoFile => lock'.by = p
      BY Zenon DEF Open, NoFile
    <3> QED
      BY Zenon, <1>5, <3>1, <3>2 DEF Open, Unlink, Goto, Locals
  <2> QED
    BY Zenon, <1>1, <1>4, <1>5, <2>1, <2>2, AwayIsMine, QuietMove
<1>6. CASE lock' # lock /\ Open(p)
  <2>1. /\ lock = NoFile /\ lock' = [NoFile EXCEPT !.by = p] /\ UNCHANGED owns
        /\ pc'[p] = "write" /\ ~ owns[p]
    BY Zenon, <1>2, <1>6 DEF Open, Goto, Locals, Owner, At, CreatingLockFile
  <2>2. lock.by \notin Postmasters /\ lock'.by = p /\ lock'.pid = None
    BY ZenonT(60), <2>1, PgInterlockAssumption DEF NoFile
  <2>3. NoBackends /\ \A r \in Postmasters \ {p} : ~ owns[r] /\ pc[r] # "write"
    BY Zenon, <2>1, <2>2 DEF Interlock, Child, NoBackends, Mine, Owner, At
  <2>4. Mine(p)'
    BY Zenon, <1>3, <2>1, <2>2, <2>3 DEF Mine, Owner, Parent, Childless, Prober, At,
       Owning, Probing, CreatingLockFile, CreatingMemory, Recreating
  <2> QED
    BY Zenon, <1>1, <1>4, <1>6, <2>3, <2>4, LockMove
<1>7. CASE lock' # lock /\ Unlink(p)
  <2>1. At(p, "unlink") /\ p \in fresh /\ UNCHANGED owns /\ pc'[p] \in {"shmdt", "open"}
    BY Zenon, <1>7 DEF Unlink, Goto, Locals
  <2>2. NoBackends /\ lock.pid \in Postmasters /\ \A r \in Postmasters : ~ owns[r]
    BY Zenon, <1>2, <2>1 DEF Prober, Probing, At
  <2>3. lock.pid # None
    BY Zenon, <2>2, PgInterlockAssumption
  <2>4. \A r \in Postmasters \ {p} : ~ owns[r] /\ pc[r] # "write"
    BY Zenon, <2>2, <2>3 DEF Interlock, Mine, Owner, At
  <2> QED
    BY Zenon, <1>1, <1>4, <1>7, <2>1, <2>2, <2>4, AwayIsMine, LockMove
<1>8. CASE WriteFile(p)
  <2>1. lock.by = p /\ lock.pid = None /\ NoBackends /\ ~ owns[p]
    BY Zenon, <1>2, <1>8 DEF WriteFile, Owner, Childless, At, CreatingLockFile
  <2>2. \A r \in Postmasters \ {p} : ~ owns[r] /\ pc[r] # "write"
    BY Zenon, <2>1, OneOwner
  <2>3. CASE pc'[p] = "anon" /\ owns'[p] /\ lock' = [by |-> p, pid |-> p, shm |-> 0]
    <3>1. lock'.by = p /\ lock'.pid = p /\ p # None
      BY Zenon, <2>3, PgInterlockAssumption
    <3>2. fresh' = {}
      BY Zenon, <1>4, <2>1, <3>1
    <3> QED
      BY Zenon, <1>1, <1>3, <2>1, <2>2, <2>3, <3>1, <3>2, CreatingIsMine, LockMove
  <2>4. CASE pc'[p] = "shmdt" /\ UNCHANGED owns /\ lock' = NoFile
    <3>1. lock # NoFile
      BY <2>1, PgInterlockAssumption DEF NoFile
    <3> QED
      BY ZenonT(60), <1>1, <1>4, <2>1, <2>2, <2>4, <3>1, AwayIsMine, LockMove
  <2> QED
    BY Zenon, <1>8, <2>1, <2>3, <2>4 DEF WriteFile, Goto, Locals
<1>9. CASE AddLine(p)
  <2>1. lock.by = p /\ lock.pid = p /\ NoBackends /\ owns[p] /\ Holds(segs, own[p], p)
    BY Zenon, <1>2, <1>9 DEF AddLine, Owner, Parent, Childless, At, Owning, CreatingMemory
  <2>2. \A r \in Postmasters \ {p} : ~ owns[r] /\ pc[r] # "write"
    BY Zenon, <2>1, OneOwner
  <2>3. lock # NoFile
    BY <2>1, PgInterlockAssumption DEF NoFile
  <2>4. PICK n : /\ lock' = [lock EXCEPT !.shm = n]
                 /\ upset' = IF n = own[p] THEN upset ELSE upset \cup {"unrecorded"}
    BY Zenon, <1>9, <2>3 DEF AddLine
  <2>5. UNCHANGED <<segs, own, owns>> /\ pc'[p] = "header"
    BY Zenon, <1>9 DEF AddLine, Goto, Locals
  <2>6. lock'.by = p /\ lock'.pid = p /\ lock'.shm = n
    BY Zenon, <2>1, <2>4 DEF Shared
  <2>7. Recorded' => lock'.shm = own[p]
    BY Zenon, <2>4, <2>6 DEF Recorded
  <2>8. Mine(p)'
    BY Zenon, <1>3, <2>1, <2>5, <2>6, <2>7 DEF Mine, Owner, Parent, Childless, Prober, At, Owning,
       Probing, CreatingLockFile, CreatingMemory, Recreating
  <2>9. CASE lock' = lock
    BY Zenon, <1>1, <1>4, <2>5, <2>8, <2>9, QuietMove
  <2>10. CASE lock' # lock
    BY Zenon, <1>1, <1>4, <2>1, <2>2, <2>8, <2>10, LockMove
  <2> QED
    BY Zenon, <2>9, <2>10
<1> QED
  BY Zenon, <1>5, <1>6, <1>7, <1>8, <1>9

\* The end of a postmaster.  Others may be starting, but have only seen the file.
LEMMA ExitMoves ==
  ASSUME Locals, Shared, Interlock, NEW p \in Postmasters, ProcExit(p)
  PROVE  Interlock'
<1>1. Moves(p) /\ pc'[p] = "dead" /\ ~ owns'[p]
  BY Zenon DEF Moves, Steps, ProcExit, Goto, Locals
<1>2. Owner(p) /\ Childless(p)
  BY Zenon DEF Interlock, Mine
<1>3. Mine(p)'
  BY Zenon, <1>1, AwayIsMine
<1>4. CASE ~ owns[p]
  <2>1. UNCHANGED lock /\ fresh' \subseteq fresh
    BY Zenon, <1>4 DEF ProcExit
  <2> QED
    BY Zenon, <1>1, <1>3, <2>1, QuietMove
<1>5. CASE owns[p]
  <2>1. lock' = NoFile /\ lock.by = p /\ NoBackends
    BY Zenon, <1>2, <1>5 DEF ProcExit, Owner, Childless, At
  <2>2. lock # NoFile
    BY <2>1, PgInterlockAssumption DEF NoFile
  <2>3. fresh' = {}
    BY Zenon, <2>1, <2>2 DEF ProcExit
  <2> QED
    BY Zenon, <1>1, <1>3, <2>1, <2>3, OneOwner, LockMove
<1> QED
  BY Zenon, <1>4, <1>5

\* A process q other than the postmasters detaches.
LEMMA DetachingMove ==
  ASSUME Interlock, NEW q, q \notin Postmasters, Keeps(segs, segs', {q}),
         UNCHANGED <<lock, pc, probe, own, owns, past>>,
         \A b \in Backends : be'[b] = 0 \/ (be'[b] = be[b] /\ b # q)
  PROVE  Interlock'
<1>1. Recorded' = Recorded /\ fresh' = fresh
  BY Zenon DEF Recorded, past
<1>2. \A i : Holds(segs', i, q) \/ i \in DOMAIN segs' => segs'[i].header = segs[i].header
  BY Zenon DEF Keeps, Holds
<1>3. NoBackends => NoBackends'
  BY Zenon, <1>1 DEF NoBackends
<1>4. ASSUME NEW p \in Postmasters PROVE Mine(p)'
  <2>1. Mine(p)
    BY Zenon, <1>4 DEF Interlock
  <2>2. Owner(p)'
    BY Zenon, <2>1 DEF Mine, Owner, At
  <2>3. Parent(p)'
    BY Zenon, <1>1, <1>2, <2>1 DEF Mine, Parent, Keeps, Holds
  <2>4. Childless(p)'
    BY Zenon, <1>3, <2>1 DEF Mine, Childless
  <2>5. Prober(p)'
    BY Zenon, <1>1, <1>3, <2>1 DEF Mine, Prober, probe, At
  <2> QED
    BY Zenon, <2>2, <2>3, <2>4, <2>5 DEF Mine
<1>5. ASSUME NEW b \in Backends PROVE Child(b)'
  BY ZenonT(60), <1>1, <1>2 DEF Interlock, Child, Keeps, Holds
<1> QED
  BY ZenonT(60), <1>4, <1>5 DEF Interlock

\* A running postmaster has a new backend.
LEMMA ForkMove ==
  ASSUME Locals, Shared, Interlock, NEW p \in Postmasters, NEW b \in Backends, Fork(p, b)
  PROVE  Interlock'
<1>1. /\ pc[p] = "run" /\ UNCHANGED <<lock, pc, probe, own, owns, past>>
      /\ segs' = Attach(segs, own[p], b)
      /\ be'[b] = own[p] /\ \A c \in Backends \ {b} : be'[c] = be[c]
  BY Zenon DEF Fork, At, Locals
<1>2. /\ owns[p] /\ lock.by = p /\ (Recorded => lock.shm = own[p])
      /\ Holds(segs, own[p], p) /\ segs[own[p]].header = "ours"
  BY Zenon, <1>1 DEF Interlock, Mine, Owner, Parent, Owning
<1>3. Keeps(segs, segs', {}) /\ Holds(segs', own[p], b)
  BY Zenon, <1>1, <1>2, AttachKeeps DEF Shared, Holds, Processes
<1>4. \A i \in DOMAIN segs' : segs'[i].header = segs[i].header
  BY Zenon, <1>3 DEF Keeps
<1>5. Recorded' = Recorded /\ fresh' = fresh
  BY Zenon, <1>1 DEF Recorded, past
<1>6. ASSUME NEW r \in Postmasters PROVE Mine(r)'
  <2>1. Mine(r)
    BY Zenon DEF Interlock
  <2>2. Owner(r)'
    BY Zenon, <1>1, <2>1 DEF Mine, Owner, At
  <2>3. Parent(r)'
    BY ZenonT(60), <1>1, <1>3, <1>4, <1>5, <2>1 DEF Mine, Parent, Keeps, Holds
  <2>4. owns[r] \/ pc[r] \in Owning => r = p
    BY ZenonT(60), <1>2, <2>1 DEF Mine, Owner
  <2>5. pc[r] # "write" /\ (r \in fresh => pc[r] \notin Probing \ {"kill"})
    <3>1. pc[p] # "write"
      BY Zenon, <1>1
    <3>2. pc[r] # "write"
      BY ZenonT(60), <1>2, <2>1, <3>1 DEF Mine, Owner, At
    <3> QED
      BY ZenonT(60), <1>2, <2>1, <3>2 DEF Mine, Prober
  <2>6. Childless(r)'
    BY ZenonT(60), <1>1, <2>4, <2>5 DEF Childless, Owning, CreatingMemory, Recreating
  <2>7. Prober(r)'
    BY ZenonT(60), <1>1, <1>5, <2>1, <2>5 DEF Mine, Prober, probe, At, Probing
  <2> QED
    BY Zenon, <2>2, <2>3, <2>6, <2>7 DEF Mine
<1>7. lock # NoFile
  BY <1>2, PgInterlockAssumption DEF NoFile
<1>8. ASSUME NEW c \in Backends PROVE Child(c)'
  <2>1. CASE c = b
    BY Zenon, <1>1, <1>2, <1>3, <1>4, <1>5, <1>7, <2>1 DEF Child, Holds
  <2>2. CASE c # b
    BY ZenonT(60), <1>1, <1>3, <1>4, <1>5, <2>2 DEF Interlock, Child, Keeps, Holds
  <2> QED
    BY Zenon, <2>1, <2>2
<1> QED
  BY Zenon, <1>6, <1>8 DEF Interlock

\* The host is rebooted: only files are left.
LEMMA RebootMove == ASSUME Reboot PROVE Interlock'
<1>1. /\ \A p \in Postmasters : pc'[p] = "dead" /\ ~ owns'[p]
      /\ \A b \in Backends : be'[b] = 0
  BY Zenon DEF Reboot, Dies
<1>2. \A p \in Postmasters : Mine(p)'
  BY Zenon, <1>1, AwayIsMine
<1> QED
  BY ZenonT(60), <1>1, <1>2 DEF Interlock, Child

-----------------------------------------------------------------------------
(***************************************************************************)
(* The invariant, and what follows from it.                                *)
(***************************************************************************)

\* The host after a boot, with a stale lock file or without one.
LEMMA InterlockInit == Init => InterlockSteps
<1> SUFFICES ASSUME Init PROVE InterlockSteps
  BY Zenon
<1>1. Locals
  BY Zenon DEF Init, Locals
<1>2. lock \in [by : Postmasters \cup {None}, pid : Postmasters \cup {None}, shm : Nat]
  BY DEF Init, NoFile
<1> DEFINE d == FALSE
<1>3. d \in BOOLEAN
  BY Zenon
<1>4. segs = [i \in 2 .. Foreign + 1 |-> [key |-> i - 2, header |-> "foreign",
                                         attached |-> {"foreign"}, destroyed |-> d]]
  BY Zenon DEF Init
<1> HIDE DEF d
<1>5. \A i \in 2 .. Foreign + 1 : i - 2 \in Nat /\ i \in Nat /\ i < Foreign + 2
  BY PgInterlockAssumption
<1>6. Segments(segs)
  BY Zenon, <1>3, <1>4, <1>5 DEF Segments, Segment
<1>7. Shared
  BY <1>2, <1>4, <1>5, <1>6, PgInterlockAssumption DEF Shared, Init
<1>8. /\ \A p \in Postmasters : pc[p] = "dead" /\ ~ owns[p]
      /\ \A b \in Backends : be[b] = 0
  BY Zenon DEF Init
<1>9. \A p \in Postmasters : Mine(p)
  BY Zenon, <1>8 DEF Mine, Owner, Parent, Childless, Prober, Owning, CreatingMemory, Recreating,
              CreatingLockFile, Probing, At
<1> QED
  BY Zenon, <1>1, <1>7, <1>8, <1>9 DEF InterlockSteps, Interlock, Child

\* Every step keeps it.
LEMMA InterlockNext == InterlockSteps /\ [Next]_vars => InterlockSteps'
<1> SUFFICES ASSUME InterlockSteps, [Next]_vars PROVE InterlockSteps'
  BY Zenon
<1>1. Locals' /\ Shared'
  BY Zenon, LocalsNext, SharedNext DEF InterlockSteps
<1>2. SUFFICES ASSUME "removal" \notin upset' PROVE Interlock'
  BY Zenon, <1>1 DEF InterlockSteps
<1>3. "removal" \notin upset
  <2>1. ASSUME NEW p \in Postmasters, Moves(p) PROVE upset \subseteq upset'
    BY Zenon, <2>1, UpsetGrows
  <2>2. CASE \/ \E p \in Postmasters, b \in Backends : Fork(p, b)
             \/ \E b \in Backends : BackendExit(b)
             \/ Reboot \/ ForeignExit \/ RemoveByHand \/ UNCHANGED vars
    <3>1. ASSUME RemoveByHand PROVE upset' = upset \cup {"removal"}
      BY Zenon, <3>1 DEF RemoveByHand
    <3>2. ASSUME Reboot PROVE upset' = upset
      BY Zenon, <3>2 DEF Reboot, Dies
    <3>3. CASE \/ \E p \in Postmasters, b \in Backends : Fork(p, b)
               \/ \E b \in Backends : BackendExit(b)
               \/ ForeignExit \/ UNCHANGED vars
      BY Zenon, <1>2, <3>3 DEF Fork, BackendExit, ForeignExit, vars, past
    <3> QED
      BY Zenon, <1>2, <2>2, <3>1, <3>2, <3>3
  <2> QED
    BY Zenon, <1>2, <2>1, <2>2 DEF Next, Moves
<1>4. Locals /\ Shared /\ Interlock
  BY Zenon, <1>3 DEF InterlockSteps
<1>5. ASSUME NEW p \in Postmasters, Moves(p) PROVE Interlock'
  BY Zenon, <1>2, <1>4, <1>5, ProbingMoves, CreatingMoves, StoppingMoves, KillMoves, LockFileMoves,
     ExitMoves DEF Moves, Steps
<1>6. ASSUME NEW p \in Postmasters, NEW b \in Backends, Fork(p, b) PROVE Interlock'
  BY Zenon, <1>4, <1>6, ForkMove
<1>7. ASSUME NEW b \in Backends, BackendExit(b) PROVE Interlock'
  <2>1. Keeps(segs, segs', {b}) /\ UNCHANGED <<lock, pc, probe, own, owns, past>>
    BY Zenon, <1>4, <1>7, DetachAllKeeps DEF BackendExit, Shared
  <2>2. be'[b] = 0 /\ \A c \in Backends \ {b} : be'[c] = be[c]
    BY Zenon, <1>4, <1>7 DEF BackendExit, Locals
  <2> QED
    BY Zenon, <1>4, <1>7, <2>1, <2>2, DetachingMove, PgInterlockAssumption
<1>8. CASE ForeignExit
  <2>1. PICK i \in DOMAIN segs : segs' = Detach(Rmid(segs, i), i, "foreign")
    BY Zenon, <1>8 DEF ForeignExit
  <2>2. Keeps(segs, Rmid(segs, i), {})
    BY Zenon, <1>4, RmidKeeps DEF Shared
  <2>3. Keeps(Rmid(segs, i), segs', {"foreign"})
    BY <2>1, <2>2, DetachKeeps DEF Keeps
  <2>4. Keeps(segs, segs', {"foreign"})
    BY Zenon, <2>2, <2>3 DEF Keeps, Holds
  <2>5. UNCHANGED <<lock, pc, probe, own, owns, past, be>>
    BY Zenon, <1>8 DEF ForeignExit
  <2> QED
    BY ZenonT(60), <1>4, <2>4, <2>5, DetachingMove, PgInterlockAssumption
<1>9. CASE RemoveByHand
  BY Zenon, <1>2, <1>9 DEF RemoveByHand
<1>10. CASE UNCHANGED vars
  BY ZenonT(60), <1>4, <1>10 DEF vars, probe, past, Interlock, Mine, Owner, Parent, Childless, Prober,
     Child, NoBackends, Recorded, Holds, At
<1> QED
  BY Zenon, <1>5, <1>6, <1>7, <1>8, <1>9, <1>10, RebootMove DEF Next, Moves

\* InterlockSteps holds in every state.
LEMMA InterlockAlways == Spec => []InterlockSteps
BY InterlockInit, InterlockNext, PTL DEF Spec

\* CreateLockFile and PGSharedMemoryIsInUse let at most one postmaster, and one
\* server, at the data directory, whoever is killed and when, and however many
\* start at the same time, as long as nobody removes a lock file other than the
\* one found stale: every postmaster is the one the file names and, if its id was
\* recorded, every process of a server is at the segment the file leads to.
THEOREM OneServerCorrect == Spec => []OneServer
<1>1. InterlockSteps => OneServer
  <2> SUFFICES ASSUME InterlockSteps, "removal" \notin upset
               PROVE  /\ \A p, q \in Postmasters : {pc[p], pc[q]} \subseteq {"run", "stopping"} => p = q
                      /\ Recorded => Cardinality(Servers) <= 1
    BY Zenon DEF OneServer, Recorded
  <2>1. ASSUME NEW p \in Postmasters, pc[p] \in {"run", "stopping"} PROVE lock.by = p
    BY Zenon, <2>1 DEF InterlockSteps, Interlock, Mine, Owner, Owning
  <2>2. ASSUME Recorded PROVE Cardinality(Servers) <= 1
    <3>1. Servers \subseteq {lock.shm}
      BY Zenon, <2>2 DEF InterlockSteps, Interlock, Mine, Parent, Child, Servers
    <3>2. Cardinality({lock.shm}) = 1 /\ IsFiniteSet({lock.shm})
      BY Zenon, FS_Singleton
    <3>3. Cardinality(Servers) <= Cardinality({lock.shm})
      BY ZenonT(60), <3>1, <3>2, FS_Subset
    <3> QED
      BY Zenon, <3>2, <3>3
  <2> QED
    BY Zenon, <2>1, <2>2
<1> QED
  BY <1>1, InterlockAlways, PTL

\* The lock file of a running server has its PID, and the id of its segment unless
\* that could not be recorded, also after it has made another segment.
THEOREM LockFileCorrect == Spec => []LockFileNamesServer
<1>1. InterlockSteps => LockFileNamesServer
  BY Zenon DEF InterlockSteps, Interlock, Mine, Owner, Parent, Owning, Recorded, LockFileNamesServer, At
<1> QED
  BY <1>1, InterlockAlways, PTL

-----------------------------------------------------------------------------
(***************************************************************************)
(* Recycling.  Who runs is attached, whatever has happened to the lock     *)
(* file; so a count of zero tells that nobody runs, and while starts do    *)
(* not overlap nobody begins to before the segment is removed.             *)
(***************************************************************************)

Attached == {"addline", "header", "run", "stopping"}
HeldByPostmaster(q) == pc[q] \in Attached => Holds(segs, own[q], q)
HeldByBackend(b) == be[b] # 0 => Holds(segs, be[b], b)
Held == (\A q \in Postmasters : HeldByPostmaster(q)) /\ (\A b \in Backends : HeldByBackend(b))

FoundUnused(p) ==
  (At(p, "attach2") /\ nattch[p] = 0) \/ (At(p, "recycle") /\ state[p] = "UNATTACHED")
Unused == \A p \in Postmasters : FoundUnused(p) => id[p] \notin Servers

RecycleSteps == Locals /\ Shared /\ Held /\ ("overlap" \notin upset => Alone /\ Unused)

\* How a postmaster gets to where it is attached, and to where it decides.
LEMMA Arrives ==
  ASSUME Locals, NEW p \in Postmasters, Moves(p)
  PROVE  /\ pc'[p] \in Attached =>
              AttachOwn(p) \/ AddLine(p) \/ Header(p) \/ Shutdown(p) \/ Recheck(p)
         /\ pc'[p] \in {"attach2", "recycle"} =>
              IpcStat(p, "stat2", "attach2", "recycle") \/ Shmat(p, "attach2", "recycle")
<1> DEFINE Elsewhere == pc'[p] \notin Attached \cup {"attach2", "recycle"}
<1> USE DEF Locals, Goto, At, Attached
<1>1. CASE Start(p) \/ Open(p) \/ ReadFile(p) \/ TestOwner(p) \/ Unlink(p) \/ WriteFile(p)
  <2>1. Elsewhere
    BY Zenon, <1>1 DEF Start, Open, ReadFile, TestOwner, Unlink, WriteFile
  <2> QED
    BY Zenon, <2>1
<1>2. CASE \/ IpcStat(p, "stat1", "attach1", "inuse") \/ Shmat(p, "attach1", "inuse")
           \/ IsInUse(p) \/ MapMemory(p)
  <2>1. Elsewhere
    BY Zenon, <1>2 DEF IpcStat, Shmat, IsInUse, MapMemory
  <2> QED
    BY Zenon, <2>1
<1>3. CASE Shmget(p) \/ Probe(p) \/ Recycle(p)
  <2>1. Elsewhere
    BY Zenon, <1>3 DEF Shmget, Probe, Recycle
  <2> QED
    BY Zenon, <2>1
<1>4. CASE ChildrenGone(p) \/ ShmemDetach(p) \/ ShmemDelete(p) \/ ProcExit(p)
  <2>1. Elsewhere
    BY Zenon, <1>4 DEF ChildrenGone, ShmemDetach, ShmemDelete, ProcExit
  <2> QED
    BY Zenon, <2>1
<1>5. CASE Reinitialize(p) \/ Fatal(p) \/ SigBus(p) \/ Kill(p)
  <2>1. Elsewhere
    BY Zenon, <1>5 DEF Reinitialize, Fatal, SigBus, Kill, Dies
  <2> QED
    BY Zenon, <2>1
<1>6. CASE AttachOwn(p) \/ AddLine(p) \/ Header(p) \/ Shutdown(p) \/ Recheck(p)
  <2>1. pc'[p] \notin {"attach2", "recycle"}
    BY Zenon, <1>6 DEF AttachOwn, AddLine, Header, Shutdown, Recheck
  <2> QED
    BY Zenon, <1>6, <2>1
<1>7. CASE IpcStat(p, "stat2", "attach2", "recycle") \/ Shmat(p, "attach2", "recycle")
  <2>1. pc'[p] \notin Attached
    BY Zenon, <1>7 DEF IpcStat, Shmat
  <2> QED
    BY Zenon, <1>7, <2>1
<1> QED
  BY Zenon, <1>1, <1>2, <1>3, <1>4, <1>5, <1>6, <1>7 DEF Moves, Steps

\* A postmaster attaches its segment before it runs, and stays attached.
LEMMA HeldMove == ASSUME Locals, Shared, Held, NEW p \in Postmasters, Moves(p) PROVE Held'
<1>1. Undisturbed(p)
  BY Zenon, SegmentsMove
<1>2. ASSUME NEW r \in Postmasters, r # p PROVE HeldByPostmaster(r)'
  BY Zenon, <1>1, <1>2, OthersSame DEF Same, Held, HeldByPostmaster, Undisturbed
<1>3. ASSUME NEW b \in Backends PROVE HeldByBackend(b)'
  <2>1. be' = be /\ b # p /\ HeldByBackend(b)
    BY Zenon, BackendsSame, PgInterlockAssumption DEF Held
  <2> QED
    BY Zenon, <1>1, <2>1 DEF HeldByBackend, Undisturbed
<1>4. HeldByPostmaster(p)'
  <2> USE DEF Locals, Goto, At, Attached
  <2>1. CASE AttachOwn(p)
    BY <2>1, AttachKeeps DEF AttachOwn, HeldByPostmaster, Shared, Processes
  <2>2. CASE AddLine(p) \/ Shutdown(p) \/ Recheck(p)
    <3>1. pc[p] \in Attached /\ UNCHANGED <<segs, own>>
      BY Zenon, <2>2 DEF AddLine, Shutdown, Recheck
    <3> QED
      BY Zenon, <3>1 DEF Held, HeldByPostmaster
  <2>3. CASE Header(p)
    <3>1. Holds(segs, own[p], p) /\ UNCHANGED own
          /\ segs' = [segs EXCEPT ![own[p]].header = "ours"]
      BY Zenon, <2>3 DEF Header, Held, HeldByPostmaster
    <3>2. segs[own[p]] \in Segment
      BY Zenon, <3>1 DEF Shared, Segments, Holds
    <3>3. own[p] \in DOMAIN segs' /\ segs'[own[p]].attached = segs[own[p]].attached
      BY Zenon, <3>1, <3>2 DEF Holds, Segment
    <3> QED
      BY Zenon, <3>1, <3>3 DEF HeldByPostmaster, Holds
  <2> QED
    BY Zenon, <2>1, <2>2, <2>3, Arrives DEF HeldByPostmaster
<1> QED
  BY Zenon, <1>2, <1>3, <1>4 DEF Held

\* Only the end of PGSharedMemoryCreate makes a server.
LEMMA ServersMove ==
  ASSUME Locals, NEW p \in Postmasters, Moves(p), ~ Header(p) PROVE Servers' \subseteq Servers
<1>1. be' = be /\ \A r \in Postmasters \ {p} : pc'[r] = pc[r] /\ own'[r] = own[r]
  BY Zenon, BackendsSame, OthersSame DEF Same
<1>2. pc'[p] \in {"run", "stopping"} => pc[p] \in {"run", "stopping"} /\ own'[p] = own[p]
  <2> SUFFICES ASSUME pc'[p] \in {"run", "stopping"}
               PROVE  pc[p] \in {"run", "stopping"} /\ own'[p] = own[p]
    BY Zenon
  <2>1. AttachOwn(p) \/ AddLine(p) \/ Shutdown(p) \/ Recheck(p)
    BY Zenon, Arrives DEF Attached
  <2> QED
    BY Zenon, <2>1 DEF AttachOwn, AddLine, Shutdown, Recheck, Locals, Goto, At
<1> QED
  BY Zenon, <1>1, <1>2 DEF Servers

\* What a process of a server is attached to has a count.
LEMMA ServersAttached ==
  ASSUME Shared, Held, NEW i \in Servers PROVE i \in DOMAIN segs /\ segs[i].attached # {}
BY Zenon DEF Held, HeldByPostmaster, HeldByBackend, Holds, Servers, Attached

\* A segment found without processes gets none while its finder decides.
LEMMA UnusedMove ==
  ASSUME Locals, Shared, Held, Alone, Unused, NEW p \in Postmasters, Moves(p)
  PROVE  Unused'
<1>1. ASSUME NEW r \in Postmasters, r # p, FoundUnused(r)' PROVE (id[r] \notin Servers)'
  <2>1. Same(r)
    BY Zenon, <1>1, OthersSame
  <2>2. FoundUnused(r) /\ r \in Starting
    BY Zenon, <1>1, <2>1 DEF FoundUnused, Same, At, Starting, CreatingMemory
  <2>3. ~ Header(p)
    BY Zenon, <1>1, <2>2 DEF Alone, Header, At, Starting, CreatingMemory
  <2> QED
    BY Zenon, <2>1, <2>2, <2>3, ServersMove DEF Unused, Same
<1>2. ASSUME FoundUnused(p)' PROVE (id[p] \notin Servers)'
  <2>1. CASE IpcStat(p, "stat2", "attach2", "recycle")
    <3>1. id[p] \in DOMAIN segs /\ nattch'[p] = Cardinality(segs[id[p]].attached)
          /\ nattch'[p] = 0 /\ UNCHANGED id
      BY Zenon, <1>2, <2>1 DEF IpcStat, FoundUnused, At, Goto, Locals
    <3>2. segs[id[p]].attached = {}
      BY ZenonT(60), <3>1, AttachedFinite, FS_EmptySet
    <3>3. id[p] \notin Servers
      BY Zenon, <3>2, ServersAttached
    <3>4. ~ Header(p)
      BY Zenon, <2>1 DEF IpcStat, Header, At
    <3> QED
      BY Zenon, <3>1, <3>3, <3>4, ServersMove
  <2>2. CASE Shmat(p, "attach2", "recycle")
    <3>1. nattch[p] = 0 /\ At(p, "attach2") /\ UNCHANGED id
      BY Zenon, <1>2, <2>2 DEF Shmat, Classify, FoundUnused, At, Goto, Locals
    <3>2. ~ Header(p)
      BY Zenon, <3>1 DEF Header, At
    <3> QED
      BY Zenon, <3>1, <3>2, ServersMove DEF Unused, FoundUnused
  <2> QED
    BY Zenon, <1>2, <2>1, <2>2, Arrives DEF FoundUnused, At
<1> QED
  BY Zenon, <1>1, <1>2 DEF Unused

\* Whatever happens, RecycleSteps stays.
LEMMA RecycleNext == RecycleSteps /\ [Next]_vars => RecycleSteps'
<1> SUFFICES ASSUME RecycleSteps, [Next]_vars PROVE RecycleSteps'
  BY Zenon
<1>1. Locals' /\ Shared'
  BY Zenon, LocalsNext, SharedNext DEF RecycleSteps
<1>2. ASSUME NEW p \in Postmasters, Moves(p) PROVE RecycleSteps'
  <2>1. "overlap" \notin upset' => "overlap" \notin upset
    BY Zenon, <1>2 DEF Moves, Steps, Start, Open, ReadFile, TestOwner, Unlink, WriteFile, IpcStat, Shmat,
       IsInUse, MapMemory, Shmget, Probe, Recycle, AttachOwn, AddLine, Header, SigBus, Recheck,
       ChildrenGone, ShmemDetach, ShmemDelete, ProcExit, Reinitialize, Shutdown, Fatal, Kill,
       Dies, past
  <2>2. Held'
    BY Zenon, <1>2, HeldMove DEF RecycleSteps
  <2>3. "overlap" \notin upset' => Alone' /\ Unused'
    BY Zenon, <1>2, <2>1, AloneMove, UnusedMove DEF RecycleSteps
  <2> QED
    BY Zenon, <1>1, <2>2, <2>3 DEF RecycleSteps
<1>3. ASSUME UNCHANGED <<pc, id, nattch, state, own>>, Servers' \subseteq Servers, Held',
             "overlap" \notin upset' => "overlap" \notin upset
      PROVE  RecycleSteps'
  <2>1. Alone => Alone'
    BY Zenon, <1>3 DEF Alone, Starting
  <2>2. Unused => Unused'
    BY Zenon, <1>3 DEF Unused, FoundUnused, At
  <2> QED
    BY Zenon, <1>1, <1>3, <2>1, <2>2 DEF RecycleSteps
<1>4. ASSUME NEW p \in Postmasters, NEW b \in Backends, Fork(p, b) PROVE RecycleSteps'
  <2>1. /\ At(p, "run") /\ be' = [be EXCEPT ![b] = own[p]] /\ segs' = Attach(segs, own[p], b)
        /\ UNCHANGED <<pc, id, nattch, state, own, upset>>
    BY Zenon, <1>4 DEF Fork, probe, past
  <2>2. Holds(segs, own[p], p)
    BY Zenon, <2>1 DEF RecycleSteps, Held, HeldByPostmaster, At, Attached
  <2>3. Keeps(segs, segs', {}) /\ Holds(segs', own[p], b)
    BY Zenon, <2>1, <2>2, AttachKeeps DEF RecycleSteps, Shared, Holds, Processes
  <2>4. Held'
    BY Zenon, <2>1, <2>3 DEF RecycleSteps, Locals, Held, HeldByPostmaster, HeldByBackend, Keeps
  <2>5. Servers' \subseteq Servers
    BY Zenon, <2>1 DEF Servers, RecycleSteps, Locals, At
  <2> QED
    BY Zenon, <1>3, <2>1, <2>4, <2>5
<1>5. ASSUME NEW b \in Backends, BackendExit(b) PROVE RecycleSteps'
  <2>1. /\ be' = [be EXCEPT ![b] = 0] /\ segs' = DetachAll(segs, {b})
        /\ UNCHANGED <<pc, id, nattch, state, own, upset>>
    BY Zenon, <1>5 DEF BackendExit, probe, past
  <2>2. Keeps(segs, segs', {b})
    BY Zenon, <2>1, DetachAllKeeps DEF RecycleSteps, Shared
  <2>3. Held'
    BY Zenon, <2>1, <2>2, PgInterlockAssumption
       DEF RecycleSteps, Locals, Held, HeldByPostmaster, HeldByBackend, Keeps
  <2>4. Servers' \subseteq Servers
    BY Zenon, <2>1 DEF Servers, RecycleSteps, Locals
  <2> QED
    BY Zenon, <1>3, <2>1, <2>3, <2>4
<1>6. CASE ForeignExit
  <2>1. PICK i : segs' = Detach(Rmid(segs, i), i, "foreign")
    BY Zenon, <1>6 DEF ForeignExit
  <2>2. UNCHANGED <<pc, id, nattch, state, own, upset, be>>
    BY Zenon, <1>6 DEF ForeignExit, probe, past
  <2>3. Keeps(segs, Rmid(segs, i), {"foreign"}) /\ Segments(Rmid(segs, i))
    BY RmidKeeps DEF RecycleSteps, Shared, Keeps
  <2>4. Keeps(segs, segs', {"foreign"})
    BY Zenon, <2>1, <2>3, DetachKeeps, KeepsTwice
  <2>5. Held'
    BY Zenon, <2>2, <2>4, PgInterlockAssumption DEF RecycleSteps, Held, HeldByPostmaster, HeldByBackend, Keeps
  <2>6. Servers' \subseteq Servers
    BY Zenon, <2>2 DEF Servers
  <2> QED
    BY Zenon, <1>3, <2>2, <2>5, <2>6
<1>7. CASE Reboot
  <2>1. /\ \A p \in Postmasters : pc'[p] = "dead"
        /\ \A b \in Backends : be'[b] = 0
    BY Zenon, <1>7 DEF Reboot, Dies
  <2>2. Held' /\ Unused'
    BY Zenon, <2>1 DEF Held, HeldByPostmaster, HeldByBackend, Attached, Unused, FoundUnused, At
  <2>3. Alone'
    BY Zenon, <2>1 DEF Alone, Starting, CreatingLockFile, CreatingMemory, Recreating
  <2> QED
    BY Zenon, <1>1, <2>2, <2>3 DEF RecycleSteps
<1>8. CASE RemoveByHand \/ UNCHANGED vars
  <2>1. /\ UNCHANGED <<pc, id, nattch, state, own, segs, be>>
        /\ "overlap" \notin upset' => "overlap" \notin upset
    BY Zenon, <1>8 DEF RemoveByHand, vars, probe, past
  <2>2. Held' /\ Servers' \subseteq Servers
    BY Zenon, <2>1 DEF RecycleSteps, Held, HeldByPostmaster, HeldByBackend, Servers
  <2> QED
    BY Zenon, <1>3, <2>1, <2>2
<1> QED
  BY Zenon, <1>2, <1>4, <1>5, <1>6, <1>7, <1>8 DEF Next, Moves

\* PGSharedMemoryCreate never removes a segment, and the dynamic shared memory its
\* header leads to, under a process of a server, although it decides by a count
\* from before its own attach: also when the lock file was removed by hand and a
\* second server starts beside the first.
THEOREM RecycleCorrect == Spec => []RecyclesOnlyDead
<1>1. Init => RecycleSteps
  <2>1. Init => Locals /\ Shared
    BY Zenon, InterlockInit DEF InterlockSteps
  <2>2. Init => Held /\ Alone /\ Unused
    <3>1. Init => (\A p \in Postmasters : pc[p] = "dead") /\ (\A b \in Backends : be[b] = 0)
      <4>1. Init => pc = [p \in Postmasters |-> "dead"] /\ be = [b \in Backends |-> 0]
        BY DEF Init
      <4> QED
        BY Zenon, <4>1
    <3>2. (\A p \in Postmasters : pc[p] = "dead") /\ (\A b \in Backends : be[b] = 0) => Held
      BY Zenon DEF Held, HeldByPostmaster, HeldByBackend, Attached
    <3>3. (\A p \in Postmasters : pc[p] = "dead") => Alone /\ Unused
      BY Zenon DEF Alone, Starting, CreatingLockFile, CreatingMemory, Recreating, Unused, FoundUnused, At
    <3> QED
      BY Zenon, <3>1, <3>2, <3>3
  <2> QED
    BY Zenon, <2>1, <2>2 DEF RecycleSteps
<1>2. RecycleSteps => RecyclesOnlyDead
  BY Zenon DEF RecycleSteps, Unused, FoundUnused, RecyclesOnlyDead
<1> QED
  BY <1>1, <1>2, RecycleNext, PTL DEF Spec
=============================================================================
