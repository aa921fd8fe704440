---------------------------- MODULE LWLockProofs ----------------------------
(***************************************************************************)
(* For any finite set of processes and whatever they call, the lightweight *)
(* lock is a reader-writer lock, its lists match what the processes say of *)
(* themselves, no wakeup is lost or left over, and nobody sleeps with no   *)
(* one left to wake them.                                                  *)
(***************************************************************************)
EXTENDS LWLock, FiniteSetTheorems, WellFoundedInduction, TLAPS

\* Where a process is that has not got the lock yet in its call.
Trying == {"try1", "queue_lock", "queue_flag", "queue", "try2", "sleep", "retry",
           "state1", "state2", "value1", "value2", "var_ok"}

\* The state word counts the entries of held_lwlocks, and nobody tries to get
\* the lock who has it.
HoldSteps ==
  /\ held \in [Procs -> Mode \cup {"none"}] /\ mode \in [Procs -> Mode]
  /\ pc = [p \in Procs |-> pc[p]] /\ exclusive \in BOOLEAN
  /\ \A p \in Procs : pc[p] \in Trying => held[p] = "none"
  /\ exclusive <=> Holders("LW_EXCLUSIVE") # {}
  /\ \A p, q \in Holders("LW_EXCLUSIVE") : p = q
  /\ shared = Cardinality(Holders("LW_SHARED"))
  /\ exclusive => Holders("LW_SHARED") = {}

\* What most steps do: they change neither the lock nor who has it, and go to a
\* place where one may have it.
Keeps(p) ==
  /\ UNCHANGED <<exclusive, shared, held, mode>>
  /\ \E l : pc' = [pc EXCEPT ![p] = l] /\ (l \in Trying => held[p] = "none")

\* Such a step keeps the count.
LEMMA KeepsSteps == ASSUME HoldSteps, NEW p \in Procs, Keeps(p) PROVE HoldSteps'
<1>1. UNCHANGED <<Holders("LW_SHARED"), Holders("LW_EXCLUSIVE")>>
  BY Zenon DEF Keeps, Holders
<1>2. PICK l : pc' = [pc EXCEPT ![p] = l] /\ (l \in Trying => held[p] = "none")
  BY Zenon DEF Keeps
<1>3. /\ pc' = [q \in Procs |-> pc'[q]]
      /\ \A q \in Procs : pc'[q] \in Trying => held'[q] = "none"
  BY Zenon, <1>2 DEF HoldSteps, Keeps
<1> QED
  BY Zenon, <1>1, <1>3 DEF HoldSteps, Keeps

\* The processes with a mode are finitely many.
LEMMA HoldersFinite ==
  ASSUME NEW m
  PROVE  /\ IsFiniteSet(Holders(m)) /\ Cardinality(Holders(m)) \in Nat
         /\ Cardinality(Holders(m)) = 0 <=> Holders(m) = {}
<1>1. Holders(m) \subseteq Procs
  BY Zenon DEF Holders
<1>2. IsFiniteSet(Holders(m))
  BY Zenon, <1>1, LWLockAssumption, FS_Subset
<1> QED
  BY Zenon, <1>2, FS_CardinalityType, FS_EmptySet

\* A successful attempt is an acquisition; any other changes nothing.
LEMMA AttemptSteps ==
  ASSUME HoldSteps, NEW p \in Procs, pc[p] \in Trying,
         NEW got, got \notin Trying, NEW failed, AttemptLock(p, got, failed)
  PROVE  HoldSteps' /\ (RW!Next \/ UNCHANGED held)
<1>0. held[p] = "none" /\ mode[p] \in Mode
  BY Zenon DEF HoldSteps
<1>1. CASE ~LockFree(mode[p])
  <2>1. Keeps(p)
    BY Zenon, <1>0, <1>1 DEF AttemptLock, Goto, call, Keeps
  <2> QED
    BY Zenon, <1>1, <2>1, KeepsSteps DEF AttemptLock
<1>2. CASE LockFree(mode[p]) /\ mode[p] = "LW_SHARED"
  <2>1. /\ ~exclusive /\ exclusive' = FALSE /\ shared' = shared + 1
        /\ held' = [held EXCEPT ![p] = "LW_SHARED"] /\ pc' = [pc EXCEPT ![p] = got]
        /\ mode' = mode
    BY Zenon, <1>2 DEF AttemptLock, LockFree, Goto, call, HoldSteps
  <2>2. /\ Holders("LW_SHARED")' = Holders("LW_SHARED") \cup {p}
        /\ Holders("LW_EXCLUSIVE")' = Holders("LW_EXCLUSIVE")
        /\ p \notin Holders("LW_SHARED")
    BY Zenon, <1>0, <2>1 DEF Holders, HoldSteps
  <2>3. Cardinality(Holders("LW_SHARED") \cup {p}) = Cardinality(Holders("LW_SHARED")) + 1
    BY Zenon, <2>2, HoldersFinite, FS_AddElement
  <2>4. Holders("LW_EXCLUSIVE") = {}
    BY Zenon, <2>1 DEF HoldSteps
  <2>5. /\ held' \in [Procs -> Mode \cup {"none"}] /\ pc' = [q \in Procs |-> pc'[q]]
        /\ \A q \in Procs : pc'[q] \in Trying => held'[q] = "none"
    BY Zenon, <2>1 DEF HoldSteps, Mode
  <2>6. HoldSteps'
    BY ZenonT(60), <2>1, <2>2, <2>3, <2>4, <2>5 DEF HoldSteps
  <2>7. RW!AcquireShared(p)
    BY Zenon, <2>2, <2>4 DEF RW!AcquireShared
  <2> QED
    BY Zenon, <2>6, <2>7 DEF RW!Next
<1>3. CASE LockFree(mode[p]) /\ mode[p] = "LW_EXCLUSIVE"
  <2>1. /\ ~exclusive /\ exclusive' = TRUE /\ shared = 0 /\ shared' = shared + 0
        /\ held' = [held EXCEPT ![p] = "LW_EXCLUSIVE"] /\ pc' = [pc EXCEPT ![p] = got]
        /\ mode' = mode
    BY Zenon, <1>3 DEF AttemptLock, LockFree, Goto, call
  <2>2. Holders("LW_EXCLUSIVE") = {} /\ Holders("LW_SHARED") = {}
    BY Zenon, <2>1, HoldersFinite DEF HoldSteps
  <2>3. Holders("LW_SHARED")' = {} /\ Holders("LW_EXCLUSIVE")' = {p}
    BY Zenon, <1>0, <2>1, <2>2 DEF Holders, HoldSteps
  <2>4. /\ held' \in [Procs -> Mode \cup {"none"}] /\ pc' = [q \in Procs |-> pc'[q]]
        /\ \A q \in Procs : pc'[q] \in Trying => held'[q] = "none"
    BY Zenon, <2>1 DEF HoldSteps, Mode
  <2>5. shared' = Cardinality(Holders("LW_SHARED")')
    BY <2>1, <2>3, FS_EmptySet
  <2>6. HoldSteps'
    BY Zenon, <2>1, <2>3, <2>4, <2>5 DEF HoldSteps
  <2>7. RW!AcquireExclusive(p)
    BY Zenon, <2>2, <2>3 DEF RW!AcquireExclusive
  <2> QED
    BY Zenon, <2>6, <2>7 DEF RW!Next
<1> QED
  BY Zenon, <1>0, <1>1, <1>2, <1>3 DEF Mode

\* A release is a release.
LEMMA ReleaseSteps ==
  ASSUME HoldSteps, NEW p \in Procs, Release(p)
  PROVE  HoldSteps' /\ RW!Next
<1>1. PICK l : pc' = [pc EXCEPT ![p] = l] /\ l \in {"wakeup_lock", "idle"}
  BY Zenon DEF Release, Goto
<1>2. /\ held' = [held EXCEPT ![p] = "none"] /\ mode' = mode /\ held[p] \in Mode
      /\ exclusive' = (exclusive /\ held[p] # "LW_EXCLUSIVE")
      /\ shared' = shared - (IF held[p] = "LW_SHARED" THEN 1 ELSE 0)
  BY Zenon DEF Release, call, HoldSteps
<1>3. ASSUME NEW m \in Mode PROVE Holders(m)' = Holders(m) \ {p}
  BY Zenon, <1>2 DEF Holders, HoldSteps, Mode
<1>4. /\ held' \in [Procs -> Mode \cup {"none"}] /\ pc' = [q \in Procs |-> pc'[q]]
      /\ \A q \in Procs : pc'[q] \in Trying => held'[q] = "none"
  BY Zenon, <1>1, <1>2 DEF HoldSteps, Trying
<1>5. /\ Holders("LW_SHARED")' = Holders("LW_SHARED") \ {p}
      /\ Holders("LW_EXCLUSIVE")' = Holders("LW_EXCLUSIVE") \ {p}
  BY Zenon, <1>3 DEF Mode
<1>6. CASE held[p] = "LW_SHARED"
  <2>1. p \in Holders("LW_SHARED") /\ p \notin Holders("LW_EXCLUSIVE")
    BY Zenon, <1>6 DEF Holders
  <2>2. Cardinality(Holders("LW_SHARED") \ {p}) = Cardinality(Holders("LW_SHARED")) - 1
    BY Zenon, <2>1, HoldersFinite, FS_RemoveElement
  <2>3. exclusive' = exclusive /\ shared' = shared - 1
    BY Zenon, <1>2, <1>6 DEF HoldSteps
  <2>4. Holders("LW_EXCLUSIVE")' = Holders("LW_EXCLUSIVE")
    BY Zenon, <1>5, <2>1
  <2>5. HoldSteps'
    <3>1. shared' = Cardinality(Holders("LW_SHARED")')
      BY Zenon, <1>5, <2>2, <2>3 DEF HoldSteps
    <3>2. exclusive' => Holders("LW_SHARED")' = {}
      BY Zenon, <1>5, <2>1, <2>3 DEF HoldSteps
    <3> QED
      BY <1>2, <1>4, <2>3, <2>4, <3>1, <3>2 DEF HoldSteps
  <2>6. RW!Release(p)
    BY Zenon, <1>5, <2>1 DEF RW!Release
  <2> QED
    BY Zenon, <2>5, <2>6 DEF RW!Next
<1>7. CASE held[p] = "LW_EXCLUSIVE"
  <2>1. p \in Holders("LW_EXCLUSIVE") /\ p \notin Holders("LW_SHARED")
    BY Zenon, <1>7 DEF Holders
  <2>2. exclusive' = FALSE
    BY Zenon, <1>2, <1>7
  <2>3. shared' = shared
    <3>1. shared \in Nat
      BY Zenon, HoldersFinite DEF HoldSteps
    <3> QED
      BY <1>2, <1>7, <3>1
  <2>4. Holders("LW_EXCLUSIVE")' = {} /\ Holders("LW_SHARED")' = Holders("LW_SHARED")
    BY Zenon, <1>5, <2>1 DEF HoldSteps
  <2>5. HoldSteps'
    BY Zenon, <1>2, <1>4, <2>2, <2>3, <2>4 DEF HoldSteps
  <2>6. RW!Release(p)
    BY Zenon, <1>5, <2>1 DEF RW!Release
  <2> QED
    BY Zenon, <2>5, <2>6 DEF RW!Next
<1> QED
  BY Zenon, <1>2, <1>6, <1>7 DEF Mode

\* The steps of a process that change neither the lock nor who has it.
LEMMA OtherSteps ==
  ASSUME HoldSteps, NEW p \in Procs,
         \/ Begin(p) \/ WaitListLock(p) \/ QueueFlag(p) \/ QueueSelf(p) \/ Sleep(p) \/ Retry(p)
         \/ Dequeue(p) \/ DequeueUnlock(p) \/ DequeueOk(p) \/ Absorb(p) \/ Return(p)
         \/ ReadState(p) \/ ReadValue(p) \/ VarReleaseOk(p) \/ ReleaseClearVar(p)
         \/ Collect(p) \/ WakeupUnlock(p) \/ CollectFree(p) \/ Wake(p) \/ Post(p) \/ Stray(p)
         \/ \E v \in Values : UpdateVar(p, v)
  PROVE  HoldSteps' /\ UNCHANGED held
<1>0. pc[p] \in Trying => held[p] = "none"
  BY Zenon DEF HoldSteps
<1>1. pc = [pc EXCEPT ![p] = pc[p]]
  BY Zenon DEF HoldSteps
<1>2. CASE Begin(p)
  <2>1. PICK c \in Calls[p] : Call(p, c[1], c[2], c[3])
    BY Zenon, <1>2 DEF Begin
  <2>2. c[2] \in Mode
    BY Zenon, LWLockAssumption DEF Mode
  <2>3. /\ UNCHANGED <<exclusive, shared, held>> /\ mode' = [mode EXCEPT ![p] = c[2]]
        /\ held[p] = "none"
    BY Zenon, <2>1 DEF Call, state
  <2>4. PICK l : pc' = [pc EXCEPT ![p] = l]
    BY Zenon, <2>1 DEF Call, Goto
  <2>5. /\ mode' \in [Procs -> Mode] /\ pc' = [q \in Procs |-> pc'[q]]
        /\ \A q \in Procs : pc'[q] \in Trying => held'[q] = "none"
    BY ZenonT(60), <2>2, <2>3, <2>4 DEF HoldSteps
  <2>6. UNCHANGED <<Holders("LW_SHARED"), Holders("LW_EXCLUSIVE")>>
    BY Zenon, <2>3 DEF Holders
  <2> QED
    BY ZenonT(60), <2>3, <2>5, <2>6 DEF HoldSteps
<1>3. CASE WaitListLock(p) \/ QueueFlag(p) \/ QueueSelf(p) \/ Sleep(p) \/ Retry(p)
  <2>1. CASE WaitListLock(p)
    <3>1. PICK l : /\ pc' = [pc EXCEPT ![p] = l]
                   /\ pc[p] # "queue_lock" => l \in {"dequeue", "collect", "collect_free"}
      BY Zenon, <2>1 DEF WaitListLock, At, Goto
    <3>2. UNCHANGED <<exclusive, shared, held, mode>>
      BY Zenon, <2>1 DEF WaitListLock, call
    <3>3. Keeps(p)
      BY ZenonT(60), <1>0, <3>1, <3>2 DEF Keeps, Trying
    <3> QED
      BY Zenon, <3>3, KeepsSteps DEF Keeps
  <2>2. CASE QueueFlag(p) \/ QueueSelf(p) \/ Retry(p)
    <3>1. Keeps(p)
      BY ZenonT(60), <1>0, <2>2 DEF QueueFlag, QueueSelf, Retry, At, Goto, call, state, Keeps,
         Trying
    <3> QED
      BY Zenon, <3>1, KeepsSteps DEF Keeps
  <2>3. CASE Sleep(p)
    <3>1. Keeps(p)
      BY ZenonT(60), <1>0, <1>1, <2>3 DEF Sleep, AfterWait, At, Goto, call, state, Keeps, Trying
    <3> QED
      BY Zenon, <3>1, KeepsSteps DEF Keeps
  <2> QED
    BY ZenonT(60), <1>3, <2>1, <2>2, <2>3
<1>4. CASE Dequeue(p) \/ DequeueUnlock(p) \/ DequeueOk(p) \/ Absorb(p) \/ Return(p)
  <2>1. Keeps(p)
    BY ZenonT(60), <1>0, <1>1, <1>4 DEF Dequeue, DequeueUnlock, DequeueOk, Absorb, Return, At,
       Goto, call, state, Keeps, Trying
  <2> QED
    BY Zenon, <2>1, KeepsSteps DEF Keeps
<1>5. CASE ReadState(p) \/ ReadValue(p) \/ VarReleaseOk(p)
  <2>1. Keeps(p)
    BY ZenonT(60), <1>0, <1>5 DEF ReadState, ReadValue, VarReleaseOk, At, Goto, call, state, Keeps,
       Trying
  <2> QED
    BY Zenon, <2>1, KeepsSteps DEF Keeps
<1>6. CASE \/ ReleaseClearVar(p) \/ Collect(p) \/ WakeupUnlock(p) \/ CollectFree(p) \/ Wake(p)
           \/ Post(p) \/ \E v \in Values : UpdateVar(p, v)
  <2>1. UNCHANGED <<exclusive, shared, held, mode>>
    BY Zenon, <1>6 DEF ReleaseClearVar, Collect, WakeupUnlock, CollectFree, Wake, Post, UpdateVar,
                call, state
  <2>2. \E l \in {"clear", "wakeup_unlock", "wake", "idle", "post", "update_lock"} :
          pc' = [pc EXCEPT ![p] = l]
    BY Zenon, <1>6 DEF ReleaseClearVar, Collect, WakeupUnlock, CollectFree, Wake, Post, UpdateVar,
       Goto
  <2>3. Keeps(p)
    BY ZenonT(60), <2>1, <2>2 DEF Keeps, Trying
  <2> QED
    BY Zenon, <2>3, KeepsSteps DEF Keeps
<1>7. CASE Stray(p)
  <2>1. Keeps(p)
    BY Zenon, <1>0, <1>1, <1>7 DEF Stray, call, state, Keeps
  <2> QED
    BY Zenon, <2>1, KeepsSteps DEF Keeps
<1> QED
  BY Zenon, <1>2, <1>3, <1>4, <1>5, <1>6, <1>7

\* Every step keeps the count, and is one of a reader-writer lock or changes
\* nothing of it.
LEMMA HoldNext ==
  HoldSteps /\ [Next]_vars =>
    HoldSteps' /\ [RW!Next]_<<Holders("LW_SHARED"), Holders("LW_EXCLUSIVE")>>
<1> SUFFICES ASSUME HoldSteps, [Next]_vars
             PROVE  /\ HoldSteps'
                    /\ [RW!Next]_<<Holders("LW_SHARED"), Holders("LW_EXCLUSIVE")>>
  BY Zenon
<1>1. UNCHANGED held => UNCHANGED <<Holders("LW_SHARED"), Holders("LW_EXCLUSIVE")>>
  BY Zenon DEF Holders
<1>2. CASE UNCHANGED vars
  <2>1. UNCHANGED <<exclusive, shared, held, mode, pc>>
    BY Zenon, <1>2 DEF vars, state, call
  <2> QED
    BY Zenon, <1>1, <2>1 DEF HoldSteps
<1>3. CASE Next
  <2>1. PICK p \in Procs : \/ Begin(p) \/ Steps(p) \/ ReleaseClearVar(p) \/ Stray(p)
                           \/ \E v \in Values : UpdateVar(p, v)
    BY Zenon, <1>3 DEF Next
  <2>2. CASE Try1(p)
    <3>1. pc[p] \in Trying /\ "return" \notin Trying
      BY Zenon, <2>2 DEF Try1, MustWait, At, Trying
    <3> QED
      BY ZenonT(60), <1>1, <2>2, <3>1, AttemptSteps DEF Try1, MustWait
  <2>3. CASE Try2(p)
    <3>1. pc[p] \in Trying /\ "dequeue_lock" \notin Trying
      BY Zenon, <2>3 DEF Try2, At, Trying
    <3> QED
      BY ZenonT(60), <1>1, <2>3, <3>1, AttemptSteps DEF Try2
  <2>4. CASE Release(p)
    BY Zenon, <2>4, ReleaseSteps
  <2>5. CASE ~(Try1(p) \/ Try2(p) \/ Release(p))
    BY ZenonT(60), <1>1, <2>1, <2>5, OtherSteps DEF Steps
  <2> QED
    BY ZenonT(60), <2>2, <2>3, <2>4, <2>5
<1> QED
  BY Zenon, <1>2, <1>3

\* Nobody has the lock at first.
LEMMA HoldInit == Init => HoldSteps /\ RW!Init
<1> SUFFICES ASSUME Init PROVE HoldSteps /\ RW!Init
  BY Zenon
<1>1. \A m \in Mode : Holders(m) = {}
  BY Zenon DEF Init, Holders, Mode
<1>2. Holders("LW_SHARED") = {} /\ Holders("LW_EXCLUSIVE") = {}
  BY Zenon, <1>1 DEF Mode
<1>3. /\ held \in [Procs -> Mode \cup {"none"}] /\ mode \in [Procs -> Mode]
      /\ pc = [p \in Procs |-> pc[p]]
  BY Zenon DEF Init, Mode
<1> QED
  BY ZenonT(60), <1>2, <1>3, FS_EmptySet DEF Init, HoldSteps, RW!Init

\* However many processes use it, whatever they call and however the steps of
\* their calls interleave, the lock implements a reader-writer lock: a writer is
\* alone, and readers only share with readers.
THEOREM LWLockIsRWLock == Spec => ImplementsRWLock
BY HoldInit, HoldNext, PTL DEF Spec, ImplementsRWLock, RW!Spec

-----------------------------------------------------------------------------
(***************************************************************************)
(* What is left of a list.                                                 *)
(***************************************************************************)

\* A set of numbers has a least one ...
LEMMA Least ==
  ASSUME NEW T \in SUBSET Nat, T # {}
  PROVE  \E m \in T : \A x \in T : m <= x
<1> DEFINE Less == {r \in Nat \X Nat : r[1] < r[2]}
<1>1. IsWellFoundedOn(Less, Nat)
  BY Zenon, NatLessThanWellFounded DEF OpToRel
<1>2. PICK m \in T : \A y \in T : ~(<<y, m>> \in Less)
  BY Zenon, <1>1, WFMin
<1>3. ASSUME NEW y \in T PROVE m <= y
  <2>1. <<y, m>> \in Less <=> y < m
    BY Zenon
  <2>2. ~(y < m)
    BY Zenon, <1>2, <2>1
  <2>3. y \in Nat /\ m \in Nat
    BY Zenon
  <2> QED
    BY <2>2, <2>3
<1> QED
  BY Zenon, <1>3

\* ... so what holds of 0 and goes from each number to the next holds of all.
LEMMA Induction ==
  ASSUME NEW T, 0 \in T, \A n \in Nat : n \in T => n + 1 \in T
  PROVE  \A n \in Nat : n \in T
<1> SUFFICES ASSUME Nat \ T # {} PROVE FALSE
  BY Zenon
<1>1. PICK m \in Nat \ T : \A x \in Nat \ T : m <= x
  BY Zenon, Least
<1>2. m # 0 /\ m - 1 \in Nat
  BY <1>1
<1>3. m - 1 \in T
  BY <1>1, <1>2
<1> QED
  BY <1>1, <1>2, <1>3

\* What Pick has of the first m entries of a list.
Kept(f, w, K, m) ==
  /\ DOMAIN f = 0 .. m
  /\ \A n \in 0 .. m : f[n] = IF n = 0 THEN <<>> ELSE IF n \in K THEN Append(f[n - 1], w[n]) ELSE f[n - 1]

\* The recursion of Pick has a solution ...
LEMMA KeptIs ==
  ASSUME NEW S, NEW w \in Seq(S), NEW K
  PROVE  \E f : Kept(f, w, K, Len(w)) /\ Pick(w, K) = f[Len(w)]
<1>0. Len(w) \in Nat
  OBVIOUS
<1> DEFINE T == {m \in Nat : \E f : Kept(f, w, K, m)}
<1>1. 0 \in T
  <2>1. Kept([n \in 0 .. 0 |-> <<>>], w, K, 0)
    BY DEF Kept
  <2> QED
    BY Zenon, <2>1
<1>2. ASSUME NEW m \in Nat, m \in T PROVE m + 1 \in T
  <2>1. PICK f : Kept(f, w, K, m)
    BY Zenon, <1>2
  <2> DEFINE Added == IF m + 1 \in K THEN Append(f[m], w[m + 1]) ELSE f[m]
  <2> HIDE DEF Added
  <2> DEFINE g == [n \in 0 .. m + 1 |-> IF n = m + 1 THEN Added ELSE f[n]]
  <2>2. DOMAIN g = 0 .. m + 1
    BY Zenon
  <2>3. ASSUME NEW n \in 0 .. m + 1
        PROVE  g[n] = IF n = 0 THEN <<>> ELSE IF n \in K THEN Append(g[n - 1], w[n]) ELSE g[n - 1]
    <3>1. CASE n = m + 1
      <4>1. g[n] = Added /\ n # 0 /\ n - 1 = m /\ g[n - 1] = f[m]
        BY <3>1
      <4> QED
        BY Zenon, <3>1, <4>1 DEF Added
    <3>2. CASE n # m + 1
      <4>1. n \in 0 .. m /\ g[n] = f[n]
        BY <3>2
      <4>2. n # 0 => g[n - 1] = f[n - 1]
        BY <3>2
      <4>3. f[n] = IF n = 0 THEN <<>> ELSE IF n \in K THEN Append(f[n - 1], w[n]) ELSE f[n - 1]
        BY Zenon, <2>1, <4>1 DEF Kept
      <4> QED
        BY Zenon, <4>1, <4>2, <4>3
    <3> QED
      BY Zenon, <3>1, <3>2
  <2> HIDE DEF g
  <2>4. Kept(g, w, K, m + 1)
    BY Zenon, <2>2, <2>3 DEF Kept
  <2> QED
    BY <2>4
<1> HIDE DEF T
<1>3. Len(w) \in T
  BY Zenon, <1>0, <1>1, <1>2, Induction
<1>4. PICK f : Kept(f, w, K, Len(w))
  BY Zenon, <1>3 DEF T
<1> DEFINE Is(s) ==
             s = [n \in 0 .. Len(w) |->
                    IF n = 0 THEN <<>> ELSE IF n \in K THEN Append(s[n - 1], w[n]) ELSE s[n - 1]]
<1>5. \E s : Is(s)
  <2> DEFINE g == [n \in 0 .. Len(w) |-> f[n]]
  <2>1. ASSUME NEW n \in 0 .. Len(w)
        PROVE  g[n] = IF n = 0 THEN <<>> ELSE IF n \in K THEN Append(g[n - 1], w[n]) ELSE g[n - 1]
    <3>1. f[n] = IF n = 0 THEN <<>> ELSE IF n \in K THEN Append(f[n - 1], w[n]) ELSE f[n - 1]
      BY Zenon, <1>4 DEF Kept
    <3>2. g[n] = f[n] /\ (n # 0 => g[n - 1] = f[n - 1])
      BY <1>0
    <3> QED
      BY Zenon, <3>1, <3>2
  <2>2. g = [n \in 0 .. Len(w) |-> g[n]]
    BY Zenon
  <2> HIDE DEF g
  <2>3. Is(g)
    BY Zenon, <2>1, <2>2
  <2> QED
    BY Zenon, <2>3
<1> DEFINE c == CHOOSE s : Is(s)
<1>6. Is(c)
  BY Zenon, <1>5
<1>7. Pick(w, K) = c[Len(w)]
  BY Zenon DEF Pick
<1> HIDE DEF c
<1>8. Kept(c, w, K, Len(w))
  BY Zenon, <1>6 DEF Kept
<1> QED
  BY Zenon, <1>7, <1>8

\* No process is twice in a list.
Distinct(s) == \A k, m \in DOMAIN s : s[k] = s[m] => k = m

\* ... and it leaves the entries K of the list, each once if they are distinct.
LEMMA PickIs ==
  ASSUME NEW S, NEW w \in Seq(S), NEW K
  PROVE  /\ Pick(w, K) \in Seq(S)
         /\ \A q : InList(q, Pick(w, K)) <=> \E k \in DOMAIN w : k \in K /\ w[k] = q
         /\ Distinct(w) => Distinct(Pick(w, K))
<1>0. Len(w) \in Nat /\ DOMAIN w = 1 .. Len(w) /\ \A k \in 1 .. Len(w) : w[k] \in S
  OBVIOUS
<1>1. PICK f : Kept(f, w, K, Len(w)) /\ Pick(w, K) = f[Len(w)]
  BY Zenon, KeptIs
<1> DEFINE Good(m) ==
             /\ f[m] \in Seq(S)
             /\ \A q : InList(q, f[m]) <=> \E k \in 1 .. m : k \in K /\ w[k] = q
             /\ Distinct(w) => Distinct(f[m])
           T == {m \in Nat : m \in 0 .. Len(w) => Good(m)}
<1>2. 0 \in T
  <2>1. f[0] = <<>> /\ DOMAIN <<>> = {}
    BY <1>0, <1>1 DEF Kept
  <2>2. <<>> \in Seq(S) /\ 1 .. 0 = {} /\ 0 \in Nat
    OBVIOUS
  <2>3. Good(0)
    BY Zenon, <2>1, <2>2 DEF InList, Distinct
  <2> QED
    BY Zenon, <2>2, <2>3
<1>3. ASSUME NEW m \in Nat, m \in T PROVE m + 1 \in T
  <2> SUFFICES ASSUME m + 1 \in 0 .. Len(w) PROVE Good(m + 1)
    OBVIOUS
  <2>1. w[m + 1] \in S /\ f[m + 1] = IF m + 1 \in K THEN Append(f[m], w[m + 1]) ELSE f[m]
    <3>0. PICK n \in 0 .. Len(w) : n = m + 1
      BY Zenon
    <3>1. f[n] = IF n = 0 THEN <<>> ELSE IF n \in K THEN Append(f[n - 1], w[n]) ELSE f[n - 1]
      BY Zenon, <1>1 DEF Kept
    <3>2. n # 0 /\ n - 1 = m /\ w[n] \in S
      BY <1>0, <3>0
    <3>3. f[n] = IF n \in K THEN Append(f[m], w[n]) ELSE f[m]
      BY Zenon, <3>1, <3>2
    <3> QED
      BY Zenon, <3>0, <3>2, <3>3
  <2>2. Good(m)
    BY <1>0, <1>3
  <2>3. CASE m + 1 \notin K
    <3>1. \A q : (\E k \in 1 .. m + 1 : k \in K /\ w[k] = q) <=> (\E k \in 1 .. m : k \in K /\ w[k] = q)
      BY <2>3
    <3> QED
      BY Zenon, <2>1, <2>2, <2>3, <3>1
  <2>4. CASE m + 1 \in K
    <3> DEFINE g == f[m]
               h == f[m + 1]
    <3>1. h = Append(g, w[m + 1])
      BY Zenon, <2>1, <2>4
    <3>2. g \in Seq(S)
      BY Zenon, <2>2
    <3> HIDE DEF g, h
    <3>3. /\ h \in Seq(S) /\ DOMAIN h = 1 .. Len(g) + 1 /\ DOMAIN g = 1 .. Len(g) /\ Len(g) \in Nat
          /\ h[Len(g) + 1] = w[m + 1] /\ \A k \in 1 .. Len(g) : h[k] = g[k]
      BY <2>1, <3>1, <3>2
    <3>4. \A q : InList(q, h) <=> InList(q, g) \/ q = w[m + 1]
      BY <3>3 DEF InList
    <3>5. \A q : InList(q, h) <=> \E k \in 1 .. m + 1 : k \in K /\ w[k] = q
      <4>1. \A q : (\E k \in 1 .. m + 1 : k \in K /\ w[k] = q)
                     <=> (\E k \in 1 .. m : k \in K /\ w[k] = q) \/ w[m + 1] = q
        BY <2>4
      <4> QED
        BY Zenon, <2>2, <3>4, <4>1 DEF g
    <3>6. ASSUME Distinct(w) PROVE Distinct(h)
      <4>1. ~InList(w[m + 1], g)
        <5>1. \A k \in 1 .. m : w[k] # w[m + 1]
          BY <1>0, <3>6 DEF Distinct
        <5> QED
          BY Zenon, <2>2, <5>1 DEF g
      <4>2. Distinct(g)
        BY Zenon, <2>2, <3>6 DEF g
      <4> QED
        BY <3>3, <4>1, <4>2 DEF Distinct, InList
    <3> QED
      BY Zenon, <3>3, <3>5, <3>6 DEF h
  <2> QED
    BY Zenon, <2>3, <2>4
<1> HIDE DEF T
<1>4. Len(w) \in T
  BY Zenon, <1>0, <1>2, <1>3, Induction
<1>5. Good(Len(w))
  BY <1>0, <1>4 DEF T
<1> QED
  BY Zenon, <1>0, <1>1, <1>5

-----------------------------------------------------------------------------
(***************************************************************************)
(* The lists.                                                              *)
(***************************************************************************)

\* Where a process is from queueing itself to the end of its sleep or to being off
\* the list again; where it waits for a wakeup that it does not want any more; where
\* a process wakes others; where it is in a call that may queue it; where it is in
\* none of the calls that count wakeups.
Queued == {"try2", "var_ok", "state2", "value2", "sleep", "dequeue_lock", "dequeue", "dequeue_unlock"}
Owing == {"dequeue_ok", "absorb"}
Waking == {"wakeup_unlock", "wake", "post"}
Asking == {"state1", "value1", "queue_lock", "queue_flag", "queue", "try2", "var_ok", "state2", "value2", "sleep"}
Outside == {"idle", "clear", "update_lock", "collect_free", "wakeup_lock", "collect"} \cup Waking

\* Those whose lwWaiting a waker is still to reset.
Rest(p) == IF pc[p] = "post" THEN Tail(wakeup[p]) ELSE wakeup[p]

ListTypes ==
  /\ pc = [p \in Procs |-> pc[p]] /\ op \in [Procs -> Op]
  /\ lwWaiting \in [Procs -> {"NOT", "WAITING", "PENDING"}]
  /\ waiters \in Seq(Procs) /\ wakeup \in [Procs -> Seq(Procs)]
  /\ Distinct(waiters) /\ \A p \in Procs : Distinct(wakeup[p])

\* What a process's place says of it and of its own list.
Placed(p) ==
  /\ pc[p] \in Asking => op[p] # "Conditional"
  /\ pc[p] \notin Waking => wakeup[p] = <<>>
  /\ pc[p] = "post" => wakeup[p] # <<>>
  /\ lwWaiting[p] = "WAITING" => pc[p] \in Queued
  /\ lwWaiting[p] = "PENDING" => pc[p] \in Queued \cup Owing
  /\ InList(p, waiters) <=> lwWaiting[p] = "WAITING" /\ pc[p] # "dequeue_unlock"

\* Each pending wakeup is in one waker's list.
Pending ==
  /\ \A p, q \in Procs : InList(q, Rest(p)) => lwWaiting[q] = "PENDING"
  /\ \A q \in Procs : lwWaiting[q] = "PENDING" => \E p \in Procs : InList(q, Rest(p))
  /\ \A p, r, q \in Procs : InList(q, Rest(p)) /\ InList(q, Rest(r)) => p = r

Lists == ListTypes /\ Pending /\ \A p \in Procs : Placed(p)

\* Nothing happens to the pending wakeups.
LEMMA PendingFrame ==
  ASSUME Pending, \A q \in Procs : Rest(q)' = Rest(q),
         \A q \in Procs : lwWaiting'[q] = "PENDING" <=> lwWaiting[q] = "PENDING"
  PROVE  Pending'
<1>1. ASSUME NEW p \in Procs, NEW q \in Procs PROVE InList(q, Rest(p))' <=> InList(q, Rest(p))
  BY Zenon DEF InList
<1>2. /\ \A p, q \in Procs : InList(q, Rest(p))' => lwWaiting'[q] = "PENDING"
      /\ \A q \in Procs : lwWaiting'[q] = "PENDING" => \E p \in Procs : InList(q, Rest(p))'
      /\ \A p, r, q \in Procs : InList(q, Rest(p))' /\ InList(q, Rest(r))' => p = r
  BY Zenon, <1>1 DEF Pending
<1> QED
  BY Zenon, <1>2 DEF Pending

\* A step of a process that leaves the lists alone, to a place where it may be.
LEMMA ListFrame ==
  ASSUME Lists, UNCHANGED <<lwWaiting, waiters, wakeup>>, NEW p \in Procs, NEW l, pc' = [pc EXCEPT ![p] = l],
         op' \in [Procs -> Op], \A q \in Procs : q # p => op'[q] = op[q],
         l \in Asking => op'[p] # "Conditional",
         lwWaiting[p] = "WAITING" => l \in Queued /\ (l = "dequeue_unlock" <=> pc[p] = "dequeue_unlock"),
         lwWaiting[p] = "PENDING" => l \in Queued \cup Owing,
         l \in Waking \/ wakeup[p] = <<>>,
         l = "post" <=> pc[p] = "post"
  PROVE  Lists'
<1>1. /\ pc' = [q \in Procs |-> pc'[q]] /\ pc'[p] = l /\ \A q \in Procs : q # p => pc'[q] = pc[q]
  BY Zenon DEF Lists, ListTypes
<1>2. \A q \in Procs : Rest(q)' = Rest(q)
  BY Zenon, <1>1 DEF Rest
<1>3. Pending'
  BY Zenon, <1>2, PendingFrame DEF Lists
<1>4. ListTypes'
  BY Zenon, <1>1 DEF ListTypes, Lists
<1>5. ASSUME NEW q \in Procs PROVE Placed(q)'
  <2>1. CASE q = p
    BY Zenon, <1>1, <2>1 DEF Placed, Lists, Queued, Owing
  <2>2. CASE q # p
    BY Zenon, <1>1, <2>2 DEF Placed, Lists
  <2> QED
    BY Zenon, <2>1, <2>2
<1> QED
  BY Zenon, <1>3, <1>4, <1>5 DEF Lists

\* An empty list has nobody.
LEMMA NobodyIn == ASSUME NEW q PROVE ~InList(q, <<>>)
BY DEF InList

\* LWLockQueueSelf adds a process to the list that is in none.
LEMMA ListQueue == ASSUME Lists, NEW p \in Procs, QueueSelf(p) PROVE Lists'
<1> DEFINE l == IF op[p] = "WaitForVar" THEN "var_ok" ELSE "try2"
<1>1. /\ pc[p] = "queue" /\ pc' = [pc EXCEPT ![p] = l] /\ UNCHANGED <<op, wakeup>>
      /\ lwWaiting' = [lwWaiting EXCEPT ![p] = "WAITING"]
      /\ waiters' = IF op[p] = "Acquire" THEN Append(waiters, p) ELSE <<p>> \o waiters
  BY Zenon DEF QueueSelf, At, Goto, call
<1>2. l \in Queued /\ l \in Asking /\ l \notin Waking /\ l # "dequeue_unlock" /\ l # "post"
  BY Zenon DEF Queued, Asking, Waking
<1> HIDE DEF l
<1>3. /\ pc' = [q \in Procs |-> pc'[q]] /\ pc'[p] = l /\ \A q \in Procs : q # p => pc'[q] = pc[q]
      /\ lwWaiting'[p] = "WAITING" /\ \A q \in Procs : q # p => lwWaiting'[q] = lwWaiting[q]
  BY Zenon, <1>1 DEF Lists, ListTypes
<1>4. lwWaiting[p] = "NOT" /\ op[p] # "Conditional" /\ wakeup[p] = <<>> /\ ~InList(p, waiters)
  <2>1. Placed(p) /\ lwWaiting[p] \in {"NOT", "WAITING", "PENDING"}
    BY Zenon DEF Lists, ListTypes
  <2> QED
    BY Zenon, <1>1, <2>1 DEF Placed, Queued, Owing, Asking, Waking
<1>5. waiters \in Seq(Procs) /\ Distinct(waiters)
  BY Zenon DEF Lists, ListTypes
<1>6. /\ waiters' \in Seq(Procs) /\ Distinct(waiters')
      /\ \A q \in Procs : InList(q, waiters') <=> InList(q, waiters) \/ q = p
  <2>1. CASE op[p] = "Acquire"
    <3>1. /\ waiters' \in Seq(Procs) /\ DOMAIN waiters' = 1 .. Len(waiters) + 1
          /\ DOMAIN waiters = 1 .. Len(waiters) /\ Len(waiters) \in Nat
          /\ waiters'[Len(waiters) + 1] = p /\ \A k \in 1 .. Len(waiters) : waiters'[k] = waiters[k]
      BY <1>1, <1>5, <2>1
    <3> QED
      BY <1>4, <1>5, <3>1 DEF Distinct, InList
  <2>2. CASE op[p] # "Acquire"
    <3>1. /\ waiters' \in Seq(Procs) /\ DOMAIN waiters' = 1 .. Len(waiters) + 1
          /\ DOMAIN waiters = 1 .. Len(waiters) /\ Len(waiters) \in Nat
          /\ waiters'[1] = p /\ \A k \in 1 .. Len(waiters) : waiters'[k + 1] = waiters[k]
      BY <1>1, <1>5, <2>2
    <3>2. ASSUME NEW k \in DOMAIN waiters', k # 1
          PROVE  waiters'[k] = waiters[k - 1] /\ k - 1 \in DOMAIN waiters
      <4>1. k - 1 \in 1 .. Len(waiters)
        BY <3>1, <3>2
      <4>2. waiters'[(k - 1) + 1] = waiters[k - 1]
        BY Zenon, <3>1, <4>1
      <4>3. (k - 1) + 1 = k
        BY <3>1
      <4> QED
        BY Zenon, <3>1, <4>1, <4>2, <4>3
    <3>3. Distinct(waiters')
      <4> SUFFICES ASSUME NEW k \in DOMAIN waiters', NEW m \in DOMAIN waiters', waiters'[k] = waiters'[m]
                   PROVE  k = m
        BY Zenon DEF Distinct
      <4>1. k # 1 => waiters'[k] # p
        BY Zenon, <1>4, <3>2 DEF InList
      <4>2. m # 1 => waiters'[m] # p
        BY Zenon, <1>4, <3>2 DEF InList
      <4>3. CASE k # 1 /\ m # 1
        <5>1. k - 1 = m - 1
          BY Zenon, <1>5, <3>2, <4>3 DEF Distinct
        <5> QED
          BY <3>1, <5>1
      <4> QED
        BY Zenon, <3>1, <4>1, <4>2, <4>3
    <3>4. \A q \in Procs : InList(q, waiters') => InList(q, waiters) \/ q = p
      <4> SUFFICES ASSUME NEW k \in DOMAIN waiters', waiters'[k] # p PROVE InList(waiters'[k], waiters)
        BY Zenon DEF InList
      <4>1. k # 1
        BY Zenon, <3>1
      <4> QED
        BY Zenon, <3>2, <4>1 DEF InList
    <3>5. \A q \in Procs : InList(q, waiters) \/ q = p => InList(q, waiters')
      BY <3>1 DEF InList
    <3> QED
      BY Zenon, <3>1, <3>3, <3>4, <3>5
  <2> QED
    BY Zenon, <2>1, <2>2
<1>7. ListTypes'
  BY Zenon, <1>1, <1>3, <1>6 DEF ListTypes, Lists
<1>8. \A q \in Procs : Rest(q)' = Rest(q)
  BY Zenon, <1>1, <1>2, <1>3 DEF Rest
<1>9. Pending'
  <2>1. \A q \in Procs : lwWaiting'[q] = "PENDING" <=> lwWaiting[q] = "PENDING"
    BY Zenon, <1>3, <1>4
  <2> QED
    BY Zenon, <1>8, <2>1, PendingFrame DEF Lists
<1>10. ASSUME NEW q \in Procs PROVE Placed(q)'
  <2>1. CASE q = p
    BY Zenon, <1>1, <1>2, <1>3, <1>4, <1>6, <2>1 DEF Placed
  <2>2. CASE q # p
    BY Zenon, <1>1, <1>3, <1>6, <2>2 DEF Placed, Lists
  <2> QED
    BY Zenon, <2>1, <2>2
<1> QED
  BY Zenon, <1>7, <1>9, <1>10 DEF Lists

\* LWLockDequeueSelf takes the process off the list ...
LEMMA ListDequeue == ASSUME Lists, NEW p \in Procs, Dequeue(p) PROVE Lists'
<1> DEFINE K == {k \in DOMAIN waiters : waiters[k] # p}
<1>1. /\ pc[p] = "dequeue" /\ pc' = [pc EXCEPT ![p] = "dequeue_unlock"]
      /\ waiters' = Pick(waiters, K) /\ UNCHANGED <<op, wakeup, lwWaiting>>
  BY Zenon DEF Dequeue, At, Goto, call, procs
<1>2. waiters \in Seq(Procs) /\ Distinct(waiters)
  BY Zenon DEF Lists, ListTypes
<1>3. /\ waiters' \in Seq(Procs) /\ Distinct(waiters')
      /\ \A q : InList(q, waiters') <=> \E k \in DOMAIN waiters : k \in K /\ waiters[k] = q
  BY <1>1, <1>2, PickIs
<1>4. \A q : InList(q, waiters') <=> InList(q, waiters) /\ q # p
  BY Zenon, <1>3 DEF InList
<1>5. /\ pc' = [q \in Procs |-> pc'[q]] /\ pc'[p] = "dequeue_unlock" /\ \A q \in Procs : q # p => pc'[q] = pc[q]
  BY Zenon, <1>1 DEF Lists, ListTypes
<1>6. ListTypes'
  BY Zenon, <1>1, <1>3, <1>5 DEF ListTypes, Lists
<1>7. \A q \in Procs : Rest(q)' = Rest(q)
  BY Zenon, <1>1, <1>5 DEF Rest
<1>8. Pending'
  BY Zenon, <1>1, <1>7, PendingFrame DEF Lists
<1>9. ASSUME NEW q \in Procs PROVE Placed(q)'
  <2>1. CASE q = p
    BY Zenon, <1>1, <1>4, <1>5, <2>1 DEF Placed, Lists, Queued, Asking, Waking
  <2>2. CASE q # p
    BY Zenon, <1>1, <1>4, <1>5, <2>2 DEF Placed, Lists
  <2> QED
    BY Zenon, <2>1, <2>2
<1> QED
  BY Zenon, <1>6, <1>8, <1>9 DEF Lists

\* ... and then finds out whether it was there.
LEMMA ListUnlock == ASSUME Lists, NEW p \in Procs, DequeueUnlock(p) PROVE Lists'
<1>1. pc[p] = "dequeue_unlock" /\ UNCHANGED <<op, wakeup, waiters>>
  BY Zenon DEF DequeueUnlock, At, call
<1>2. wakeup[p] = <<>> /\ op' \in [Procs -> Op]
  BY Zenon, <1>1 DEF Lists, ListTypes, Placed, Waking
<1>3. CASE lwWaiting[p] # "WAITING"
  <2>1. lwWaiting' = lwWaiting /\ pc' = [pc EXCEPT ![p] = "dequeue_ok"]
    BY Zenon, <1>3 DEF DequeueUnlock, Goto
  <2> QED
    BY Zenon, <1>1, <1>2, <1>3, <2>1, ListFrame DEF Asking, Owing
<1>4. CASE lwWaiting[p] = "WAITING"
  <2>1. lwWaiting' = [lwWaiting EXCEPT ![p] = "NOT"] /\ pc' = [pc EXCEPT ![p] = "return"]
    BY Zenon, <1>4 DEF DequeueUnlock, Goto
  <2>2. /\ pc' = [q \in Procs |-> pc'[q]] /\ pc'[p] = "return" /\ \A q \in Procs : q # p => pc'[q] = pc[q]
        /\ lwWaiting'[p] = "NOT" /\ \A q \in Procs : q # p => lwWaiting'[q] = lwWaiting[q]
    BY Zenon, <2>1 DEF Lists, ListTypes
  <2>3. ListTypes'
    BY Zenon, <1>1, <2>1, <2>2 DEF ListTypes, Lists
  <2>4. \A q \in Procs : Rest(q)' = Rest(q)
    BY Zenon, <1>1, <2>2 DEF Rest
  <2>5. Pending'
    <3>1. \A q \in Procs : lwWaiting'[q] = "PENDING" <=> lwWaiting[q] = "PENDING"
      BY Zenon, <1>4, <2>2
    <3> QED
      BY Zenon, <2>4, <3>1, PendingFrame DEF Lists
  <2>6. ASSUME NEW q \in Procs PROVE Placed(q)'
    <3>1. CASE q = p
      BY Zenon, <1>1, <1>2, <2>2, <3>1 DEF Placed, Lists, Asking
    <3>2. CASE q # p
      BY Zenon, <1>1, <2>2, <3>2 DEF Placed, Lists
    <3> QED
      BY Zenon, <3>1, <3>2
  <2> QED
    BY Zenon, <2>3, <2>5, <2>6 DEF Lists
<1> QED
  BY Zenon, <1>3, <1>4

\* A waker takes some of the waiters over.
LEMMA ListTake ==
  ASSUME Lists, NEW p \in Procs, NEW K, K \subseteq DOMAIN waiters, TakeOff(p, K),
         pc[p] \in {"collect", "collect_free"}, NEW l, l \in {"wakeup_unlock", "wake"}, pc' = [pc EXCEPT ![p] = l], op' = op
  PROVE  Lists'
<1> DEFINE G == {q \in Procs : \E k \in K : waiters[k] = q}
           W == Pick(waiters, K)
<1>0. waiters \in Seq(Procs) /\ Distinct(waiters) /\ wakeup[p] = <<>>
  BY Zenon DEF Lists, ListTypes, Placed, Waking
<1>1. /\ W \in Seq(Procs) /\ Distinct(W)
      /\ \A q : InList(q, W) <=> \E k \in DOMAIN waiters : k \in K /\ waiters[k] = q
  BY <1>0, PickIs
<1>2. /\ waiters' \in Seq(Procs) /\ Distinct(waiters')
      /\ \A q : InList(q, waiters') <=> \E k \in DOMAIN waiters : k \in DOMAIN waiters \ K /\ waiters[k] = q
  BY <1>0, PickIs DEF TakeOff
<1>3. \A q \in Procs : InList(q, W) <=> q \in G
  BY Zenon, <1>1
<1>4. \A q \in Procs : InList(q, waiters') <=> InList(q, waiters) /\ q \notin G
  <2>1. \A k, m \in DOMAIN waiters : waiters[k] = waiters[m] => k = m
    BY Zenon, <1>0 DEF Distinct
  <2> QED
    BY Zenon, <1>2, <2>1 DEF InList
<1>5. wakeup' = [wakeup EXCEPT ![p] = W]
  BY Zenon DEF TakeOff
<1>6. \A q \in Procs : lwWaiting'[q] = IF q \in G THEN "PENDING" ELSE lwWaiting[q]
  BY Zenon DEF TakeOff
<1>7. lwWaiting' = [q \in Procs |-> lwWaiting'[q]]
  BY Zenon DEF TakeOff
<1> HIDE DEF W
<1>8. ASSUME NEW q \in G
      PROVE  q \in Procs /\ q # p /\ lwWaiting[q] = "WAITING" /\ pc[q] \in Queued /\ pc[q] # "dequeue_unlock"
  <2>1. q \in Procs /\ InList(q, waiters)
    BY Zenon, <1>8 DEF InList
  <2>2. Placed(q) /\ Placed(p)
    BY Zenon, <2>1 DEF Lists
  <2>3. lwWaiting[q] = "WAITING" /\ pc[q] \in Queued /\ pc[q] # "dequeue_unlock"
    BY Zenon, <2>1, <2>2 DEF Placed
  <2>4. pc[p] \notin Queued
    BY Zenon DEF Queued
  <2> QED
    BY Zenon, <2>1, <2>3, <2>4
<1> HIDE DEF G
<1>9. /\ pc' = [q \in Procs |-> pc'[q]] /\ pc'[p] = l /\ \A q \in Procs : q # p => pc'[q] = pc[q]
      /\ wakeup'[p] = W /\ \A q \in Procs : q # p => wakeup'[q] = wakeup[q]
      /\ wakeup' \in [Procs -> Seq(Procs)]
  BY Zenon, <1>1, <1>5 DEF Lists, ListTypes
<1>10. lwWaiting' \in [Procs -> {"NOT", "WAITING", "PENDING"}]
  BY Zenon, <1>6, <1>7 DEF Lists, ListTypes
<1>11. \A q \in Procs : Distinct(wakeup'[q])
  BY Zenon, <1>1, <1>9 DEF Lists, ListTypes
<1>12. ListTypes'
  BY Zenon, <1>2, <1>9, <1>10, <1>11 DEF ListTypes, Lists
<1>13. Rest(p)' = W /\ Rest(p) = <<>> /\ \A q \in Procs : q # p => Rest(q)' = Rest(q)
  BY Zenon, <1>0, <1>9 DEF Rest
<1>14. Pending'
  <2>1. /\ \A q \in Procs : InList(q, Rest(p))' <=> q \in G
        /\ \A q, r \in Procs : r # p => (InList(q, Rest(r))' <=> InList(q, Rest(r)))
        /\ \A q \in Procs : ~InList(q, Rest(p))
    <3>1. ASSUME NEW q \in Procs PROVE (InList(q, Rest(p))' <=> q \in G) /\ ~InList(q, Rest(p))
      <4>1. InList(q, Rest(p))' <=> InList(q, W)
        BY Zenon, <1>13 DEF InList
      <4> QED
        BY Zenon, <1>3, <1>13, <4>1, NobodyIn
    <3>2. ASSUME NEW q \in Procs, NEW r \in Procs, r # p PROVE InList(q, Rest(r))' <=> InList(q, Rest(r))
      BY Zenon, <1>13, <3>2 DEF InList
    <3> QED
      BY Zenon, <3>1, <3>2
  <2>2. \A q \in Procs : lwWaiting'[q] = "PENDING" <=> q \in G \/ lwWaiting[q] = "PENDING"
    BY Zenon, <1>6
  <2>3. /\ \A r, q \in Procs : InList(q, Rest(r)) => lwWaiting[q] = "PENDING"
        /\ \A q \in Procs : lwWaiting[q] = "PENDING" => \E r \in Procs : InList(q, Rest(r))
        /\ \A x, r, q \in Procs : InList(q, Rest(x)) /\ InList(q, Rest(r)) => x = r
    BY Zenon DEF Pending, Lists
  <2>4. \A q \in G : lwWaiting[q] # "PENDING"
    BY Zenon, <1>8
  <2>5. \A r, q \in Procs : InList(q, Rest(r))' => lwWaiting'[q] = "PENDING"
    BY Zenon, <2>1, <2>2, <2>3
  <2>6. \A q \in Procs : lwWaiting'[q] = "PENDING" => \E r \in Procs : InList(q, Rest(r))'
    BY Zenon, <2>1, <2>2, <2>3
  <2>7. \A x, r, q \in Procs : InList(q, Rest(x))' /\ InList(q, Rest(r))' => x = r
    <3>1. ASSUME NEW r \in Procs, NEW q \in Procs, InList(q, Rest(r))' PROVE r = p <=> q \in G
      BY Zenon, <2>1, <2>3, <2>4, <3>1
    <3>2. ASSUME NEW r \in Procs, NEW q \in Procs, InList(q, Rest(r))', r # p PROVE InList(q, Rest(r))
      BY Zenon, <2>1, <3>2
    <3> QED
      BY Zenon, <2>3, <3>1, <3>2
  <2> QED
    BY Zenon, <2>5, <2>6, <2>7 DEF Pending
<1>15. ASSUME NEW q \in Procs PROVE Placed(q)'
  <2>0. Placed(q)
    BY Zenon DEF Lists
  <2>1. CASE q = p
    BY Zenon, <1>4, <1>6, <1>8, <1>9, <2>0, <2>1 DEF Placed, Queued, Owing, Asking, Waking
  <2>2. CASE q \in G
    BY Zenon, <1>4, <1>6, <1>8, <1>9, <2>0, <2>2 DEF Placed
  <2>3. CASE q # p /\ q \notin G
    BY Zenon, <1>4, <1>6, <1>9, <2>0, <2>3 DEF Placed
  <2> QED
    BY Zenon, <2>1, <2>2, <2>3
<1> QED
  BY Zenon, <1>12, <1>14, <1>15 DEF Lists

\* The first of a list, and the others.
LEMMA HeadTail ==
  ASSUME NEW S, NEW s \in Seq(S), s # <<>>, Distinct(s)
  PROVE  /\ Head(s) \in S /\ Tail(s) \in Seq(S) /\ Distinct(Tail(s))
         /\ \A q : InList(q, Tail(s)) <=> InList(q, s) /\ q # Head(s)
         /\ InList(Head(s), s)
<1>1. /\ Len(s) \in Nat \ {0} /\ DOMAIN s = 1 .. Len(s) /\ Head(s) = s[1] /\ Head(s) \in S
      /\ Tail(s) \in Seq(S) /\ Len(Tail(s)) = Len(s) - 1 /\ DOMAIN Tail(s) = 1 .. Len(s) - 1
      /\ \A k \in 1 .. Len(s) - 1 : Tail(s)[k] = s[k + 1]
  OBVIOUS
<1> DEFINE t == Tail(s)
<1> HIDE DEF t
<1>2. Distinct(t)
  BY <1>1 DEF Distinct, t
<1>3. ASSUME NEW q, InList(q, t) PROVE InList(q, s) /\ q # Head(s)
  <2>1. PICK k \in 1 .. Len(s) - 1 : s[k + 1] = q
    BY Zenon, <1>1, <1>3 DEF InList, t
  <2>2. k + 1 \in DOMAIN s /\ k + 1 # 1 /\ 1 \in DOMAIN s
    BY <1>1
  <2> QED
    BY Zenon, <1>1, <2>1, <2>2 DEF InList, Distinct
<1>4. ASSUME NEW q, InList(q, s), q # Head(s) PROVE InList(q, t)
  <2>1. PICK k \in DOMAIN s : s[k] = q
    BY Zenon, <1>4 DEF InList
  <2>2. k - 1 \in 1 .. Len(s) - 1 /\ (k - 1) + 1 = k
    BY <1>1, <1>4, <2>1
  <2>3. t[k - 1] = q /\ k - 1 \in DOMAIN t
    BY Zenon, <1>1, <2>1, <2>2 DEF t
  <2> QED
    BY Zenon, <2>3 DEF InList
<1>5. InList(Head(s), s)
  BY <1>1 DEF InList
<1> QED
  BY Zenon, <1>1, <1>2, <1>3, <1>4, <1>5 DEF t

\* A waker resets the next lwWaiting ...
LEMMA ListWake == ASSUME Lists, NEW p \in Procs, Wake(p), wakeup[p] # <<>> PROVE Lists'
<1> DEFINE h == Head(wakeup[p])
<1>1. /\ pc[p] = "wake" /\ pc' = [pc EXCEPT ![p] = "post"] /\ UNCHANGED <<op, wakeup, waiters>>
      /\ lwWaiting' = [lwWaiting EXCEPT ![h] = "NOT"]
  BY Zenon DEF Wake, At, Goto, call
<1>2. wakeup[p] \in Seq(Procs) /\ Distinct(wakeup[p])
  BY Zenon DEF Lists, ListTypes
<1>3. /\ h \in Procs /\ InList(h, wakeup[p])
      /\ \A q : InList(q, Tail(wakeup[p])) <=> InList(q, wakeup[p]) /\ q # h
  BY Zenon, <1>2, HeadTail
<1> HIDE DEF h
<1>4. /\ pc' = [q \in Procs |-> pc'[q]] /\ pc'[p] = "post" /\ \A q \in Procs : q # p => pc'[q] = pc[q]
      /\ lwWaiting'[h] = "NOT" /\ \A q \in Procs : q # h => lwWaiting'[q] = lwWaiting[q]
      /\ lwWaiting' \in [Procs -> {"NOT", "WAITING", "PENDING"}]
  BY Zenon, <1>1, <1>3 DEF Lists, ListTypes
<1>5. ListTypes'
  BY Zenon, <1>1, <1>4 DEF ListTypes, Lists
<1>6. /\ Rest(p) = wakeup[p] /\ Rest(p)' = Tail(wakeup[p]) /\ \A q \in Procs : q # p => Rest(q)' = Rest(q)
  BY Zenon, <1>1, <1>4 DEF Rest
<1>7. /\ \A r, q \in Procs : InList(q, Rest(r)) => lwWaiting[q] = "PENDING"
      /\ \A q \in Procs : lwWaiting[q] = "PENDING" => \E r \in Procs : InList(q, Rest(r))
      /\ \A x, r, q \in Procs : InList(q, Rest(x)) /\ InList(q, Rest(r)) => x = r
  BY Zenon DEF Pending, Lists
<1>8. lwWaiting[h] = "PENDING"
  BY <1>3, <1>6, <1>7
<1>9. Pending'
  <2>1. \A r, q \in Procs : InList(q, Rest(r))' <=> InList(q, Rest(r)) /\ q # h
    <3>1. ASSUME NEW q \in Procs PROVE InList(q, Rest(p))' <=> InList(q, Rest(p)) /\ q # h
      BY Zenon, <1>3, <1>6 DEF InList
    <3>2. ASSUME NEW q \in Procs, NEW r \in Procs, r # p PROVE InList(q, Rest(r))' <=> InList(q, Rest(r))
      BY Zenon, <1>6, <3>2 DEF InList
    <3>3. \A r \in Procs : r # p => ~InList(h, Rest(r))
      BY Zenon, <1>3, <1>6, <1>7
    <3> QED
      BY Zenon, <3>1, <3>2, <3>3
  <2>2. \A r, q \in Procs : InList(q, Rest(r))' => lwWaiting'[q] = "PENDING"
    BY Zenon, <1>4, <1>7, <2>1
  <2>3. \A q \in Procs : lwWaiting'[q] = "PENDING" => q # h /\ lwWaiting[q] = "PENDING"
    BY Zenon, <1>4
  <2>4. \A q \in Procs : lwWaiting'[q] = "PENDING" => \E r \in Procs : InList(q, Rest(r))'
    BY Zenon, <1>7, <2>1, <2>3
  <2>5. \A x, r, q \in Procs : InList(q, Rest(x))' /\ InList(q, Rest(r))' => x = r
    BY Zenon, <1>7, <2>1
  <2> QED
    BY Zenon, <2>2, <2>4, <2>5 DEF Pending
<1>10. ASSUME NEW q \in Procs PROVE Placed(q)'
  <2>0. Placed(q) /\ Placed(p) /\ Placed(h)
    BY Zenon, <1>3 DEF Lists
  <2>1. h # p
    BY Zenon, <1>1, <1>8, <2>0 DEF Placed, Queued, Owing
  <2>2. CASE q = p
    BY Zenon, <1>1, <1>4, <2>0, <2>1, <2>2 DEF Placed, Queued, Owing, Asking, Waking
  <2>3. CASE q = h
    BY Zenon, <1>1, <1>4, <1>8, <2>0, <2>1, <2>3 DEF Placed
  <2>4. CASE q # p /\ q # h
    BY Zenon, <1>1, <1>4, <2>0, <2>4 DEF Placed
  <2> QED
    BY Zenon, <2>2, <2>3, <2>4
<1> QED
  BY Zenon, <1>5, <1>9, <1>10 DEF Lists

\* ... and posts its semaphore.
LEMMA ListPost == ASSUME Lists, NEW p \in Procs, Post(p) PROVE Lists'
<1>1. /\ pc[p] = "post" /\ pc' = [pc EXCEPT ![p] = "wake"] /\ UNCHANGED <<op, lwWaiting, waiters>>
      /\ wakeup' = [wakeup EXCEPT ![p] = Tail(wakeup[p])]
  BY Zenon DEF Post, At, Goto, call
<1>2. wakeup[p] \in Seq(Procs) /\ Distinct(wakeup[p]) /\ wakeup[p] # <<>>
  BY Zenon, <1>1 DEF Lists, ListTypes, Placed
<1>3. Tail(wakeup[p]) \in Seq(Procs) /\ Distinct(Tail(wakeup[p]))
  BY Zenon, <1>2, HeadTail
<1>4. /\ pc' = [q \in Procs |-> pc'[q]] /\ pc'[p] = "wake" /\ \A q \in Procs : q # p => pc'[q] = pc[q]
      /\ wakeup'[p] = Tail(wakeup[p]) /\ \A q \in Procs : q # p => wakeup'[q] = wakeup[q]
      /\ wakeup' \in [Procs -> Seq(Procs)]
  BY Zenon, <1>1, <1>3 DEF Lists, ListTypes
<1>5. ListTypes'
  BY Zenon, <1>1, <1>3, <1>4 DEF ListTypes, Lists
<1>6. \A q \in Procs : Rest(q)' = Rest(q)
  BY Zenon, <1>1, <1>4 DEF Rest
<1>7. Pending'
  BY Zenon, <1>1, <1>6, PendingFrame DEF Lists
<1>8. ASSUME NEW q \in Procs PROVE Placed(q)'
  <2>0. Placed(q)
    BY Zenon DEF Lists
  <2>1. CASE q = p
    BY Zenon, <1>1, <1>4, <2>0, <2>1 DEF Placed, Queued, Owing, Asking, Waking
  <2>2. CASE q # p
    BY Zenon, <1>1, <1>4, <2>0, <2>2 DEF Placed
  <2> QED
    BY Zenon, <2>1, <2>2
<1> QED
  BY Zenon, <1>5, <1>7, <1>8 DEF Lists

\* A step of a process that is in no list and has none.
LEMMA ListFree ==
  ASSUME Lists, UNCHANGED <<lwWaiting, waiters, wakeup>>, NEW p \in Procs,
         pc[p] \notin Queued \cup Owing \cup Waking, op' \in [Procs -> Op],
         \A q \in Procs : q # p => op'[q] = op[q],
         \E l : /\ pc' = [pc EXCEPT ![p] = l] /\ l # "post"
                /\ l \in Asking => op'[p] # "Conditional"
  PROVE  Lists'
<1>1. PICK l : /\ pc' = [pc EXCEPT ![p] = l] /\ l # "post"
               /\ l \in Asking => op'[p] # "Conditional"
  BY Zenon
<1>2. wakeup[p] = <<>> /\ lwWaiting[p] # "WAITING" /\ lwWaiting[p] # "PENDING" /\ pc[p] # "post"
  BY Zenon DEF Lists, Placed, Waking
<1> QED
  BY Zenon, <1>1, <1>2, ListFrame

\* The steps from such a place.
LEMMA ListAsk ==
  ASSUME Lists, NEW p \in Procs,
         \/ Begin(p) \/ Try1(p) \/ QueueFlag(p) \/ Retry(p) \/ Return(p) \/ Release(p) \/ ReleaseClearVar(p)
         \/ \E v \in Values : UpdateVar(p, v)
         \/ WaitListLock(p) /\ pc[p] # "dequeue_lock"
         \/ ReadState(p) /\ pc[p] = "state1"
         \/ ReadValue(p) /\ pc[p] = "value1"
  PROVE  Lists'
<1>0. op \in [Procs -> Op] /\ (pc[p] \in Asking => op[p] # "Conditional")
  BY Zenon DEF Lists, ListTypes, Placed
<1> DEFINE To(L) == \E l \in L : pc' = [pc EXCEPT ![p] = l]
<1>1. CASE Begin(p)
  <2>1. PICK c \in Calls[p] : Call(p, c[1], c[2], c[3])
    BY Zenon, <1>1 DEF Begin
  <2>2. c[1] \in Op
    BY Zenon, LWLockAssumption DEF Op
  <2>3. /\ UNCHANGED <<lwWaiting, waiters, wakeup>> /\ op' = [op EXCEPT ![p] = c[1]] /\ pc[p] = "idle"
        /\ pc' = [pc EXCEPT ![p] = IF c[1] = "WaitForVar" THEN "state1" ELSE "try1"]
    BY Zenon, <2>1 DEF Call, procs, At, Goto
  <2>4. op' \in [Procs -> Op] /\ op'[p] = c[1] /\ \A q \in Procs : q # p => op'[q] = op[q]
    <3>1. op \in [Procs -> Op] /\ c[1] \in Op
      BY Zenon, <1>0, <2>2
    <3>2. op' = [op EXCEPT ![p] = c[1]]
      BY Zenon, <2>3
    <3> QED
      BY Zenon, <3>1, <3>2
  <2>5. \E l : /\ pc' = [pc EXCEPT ![p] = l] /\ l # "post"
               /\ l \in Asking => op'[p] # "Conditional"
    <3>1. CASE c[1] = "WaitForVar"
      <4>1. pc' = [pc EXCEPT ![p] = "state1"] /\ op'[p] # "Conditional"
        BY Zenon, <2>3, <2>4, <3>1
      <4> QED
        BY ZenonT(30), <4>1
    <3>2. CASE c[1] # "WaitForVar"
      <4>1. pc' = [pc EXCEPT ![p] = "try1"] /\ "try1" \notin Asking
        BY Zenon, <2>3, <3>2 DEF Asking
      <4> QED
        BY Zenon, <4>1
    <3> QED
      BY Zenon, <3>1, <3>2
  <2>6. pc[p] \notin Queued \cup Owing \cup Waking
    BY Zenon, <2>3 DEF Queued, Owing, Waking
  <2> QED
    BY Zenon, <2>3, <2>4, <2>5, <2>6, ListFree
<1>2. CASE ~Begin(p)
  <2>1. UNCHANGED <<lwWaiting, waiters, wakeup, op>>
    BY Zenon, <1>2 DEF Try1, MustWait, AttemptLock, QueueFlag, Retry, Return, Release, ReleaseClearVar, UpdateVar, WaitListLock,
       ReadState, ReadValue, procs, call
  <2>2. CASE Try1(p)
    <3>1. pc[p] = "try1" /\ \E l \in {"return", "queue_lock"} :
              pc' = [pc EXCEPT ![p] = l] /\ (l = "queue_lock" => op[p] # "Conditional")
      BY Zenon, <2>2 DEF Try1, MustWait, AttemptLock, At, Goto
    <3> QED
      BY Zenon, <1>0, <2>1, <3>1, ListFree DEF Queued, Owing, Waking, Asking
  <2>3. CASE QueueFlag(p) \/ Retry(p) \/ Return(p) \/ Release(p) \/ ReleaseClearVar(p) \/ \E v \in Values : UpdateVar(p, v)
    <3>1. /\ pc[p] \in {"queue_flag", "retry", "return", "idle", "clear"}
          /\ \E l \in {"queue", "try1", "idle", "wakeup_lock", "clear", "update_lock"} :
               pc' = [pc EXCEPT ![p] = l] /\ (l = "queue" => pc[p] = "queue_flag")
      BY Zenon, <2>3 DEF QueueFlag, Retry, Return, Release, ReleaseClearVar, UpdateVar, At, Goto
    <3> QED
      BY Zenon, <1>0, <2>1, <3>1, ListFree DEF Queued, Owing, Waking, Asking
  <2>4. CASE WaitListLock(p) /\ pc[p] # "dequeue_lock"
    <3>1. /\ pc[p] \in {"queue_lock", "wakeup_lock", "update_lock"}
          /\ \E l \in {"queue_flag", "collect", "collect_free"} :
               pc' = [pc EXCEPT ![p] = l] /\ (l = "queue_flag" => pc[p] = "queue_lock")
      BY Zenon, <2>4 DEF WaitListLock, At, Goto
    <3> QED
      BY Zenon, <1>0, <2>1, <3>1, ListFree DEF Queued, Owing, Waking, Asking
  <2>5. CASE (ReadState(p) /\ pc[p] = "state1") \/ (ReadValue(p) /\ pc[p] = "value1")
    <3>1. /\ pc[p] \in {"state1", "value1"}
          /\ \E l \in {"value1", "queue_lock", "return"} : pc' = [pc EXCEPT ![p] = l]
      BY Zenon, <2>5 DEF ReadState, ReadValue, At, Goto
    <3> QED
      BY Zenon, <1>0, <2>1, <3>1, ListFree DEF Queued, Owing, Waking, Asking
  <2> QED
    BY Zenon, <1>2, <2>2, <2>3, <2>4, <2>5
<1> QED
  BY Zenon, <1>1, <1>2

\* The steps while it is queued or waits for its wakeup.
LEMMA ListWait ==
  ASSUME Lists, NEW p \in Procs,
         \/ Try2(p) \/ VarReleaseOk(p) \/ Sleep(p) \/ DequeueOk(p) \/ Absorb(p)
         \/ WaitListLock(p) /\ pc[p] = "dequeue_lock"
         \/ ReadState(p) /\ pc[p] = "state2"
         \/ ReadValue(p) /\ pc[p] = "value2"
  PROVE  Lists'
<1>0. /\ op \in [Procs -> Op] /\ (pc[p] \in Asking => op[p] # "Conditional") /\ pc = [pc EXCEPT ![p] = pc[p]]
      /\ pc[p] \notin Waking => wakeup[p] = <<>>
      /\ pc[p] \in Owing => lwWaiting[p] # "WAITING"
  BY Zenon DEF Lists, ListTypes, Placed, Queued, Owing
<1>1. UNCHANGED <<lwWaiting, waiters, wakeup, op>>
  BY Zenon DEF Try2, AttemptLock, VarReleaseOk, Sleep, AfterWait, DequeueOk, Absorb, WaitListLock, ReadState, ReadValue, procs, call
<1>2. CASE Try2(p) \/ VarReleaseOk(p) \/ (WaitListLock(p) /\ pc[p] = "dequeue_lock")
  <2>1. /\ pc[p] \in {"try2", "var_ok", "dequeue_lock"}
        /\ \E l \in {"dequeue_lock", "sleep", "state2", "dequeue"} :
             pc' = [pc EXCEPT ![p] = l] /\ (pc[p] = "dequeue_lock" => l = "dequeue")
    BY Zenon, <1>2 DEF Try2, AttemptLock, VarReleaseOk, WaitListLock, At, Goto
  <2> QED
    BY Zenon, <1>0, <1>1, <2>1, ListFrame DEF Queued, Waking, Asking
<1>3. CASE (ReadState(p) /\ pc[p] = "state2") \/ (ReadValue(p) /\ pc[p] = "value2")
  <2>1. /\ pc[p] \in {"state2", "value2"}
        /\ \E l \in {"dequeue_lock", "sleep", "value2"} : pc' = [pc EXCEPT ![p] = l]
    BY Zenon, <1>3 DEF ReadState, ReadValue, At, Goto
  <2> QED
    BY Zenon, <1>0, <1>1, <2>1, ListFrame DEF Queued, Waking, Asking
<1>4. CASE DequeueOk(p)
  <2>1. pc[p] = "dequeue_ok" /\ pc' = [pc EXCEPT ![p] = "absorb"]
    BY Zenon, <1>4 DEF DequeueOk, At, Goto
  <2> QED
    BY Zenon, <1>0, <1>1, <2>1, ListFrame DEF Queued, Waking, Asking, Owing
<1>5. CASE Sleep(p)
  <2>1. CASE lwWaiting[p] = "NOT"
    <3>1. pc[p] = "sleep" /\ op[p] \in {"Acquire", "AcquireOrWait", "WaitForVar"}
      BY Zenon, <1>0, <1>5 DEF Sleep, AfterWait, At, Asking, Op
    <3>2. \E l \in {"retry", "return", "state1"} : pc' = [pc EXCEPT ![p] = l]
      BY Zenon, <1>5, <2>1, <3>1 DEF Sleep, AfterWait, Goto
    <3> QED
      BY Zenon, <1>0, <1>1, <2>1, <3>1, <3>2, ListFrame DEF Queued, Waking, Asking
  <2>2. CASE lwWaiting[p] # "NOT"
    <3>1. pc[p] = "sleep" /\ pc' = [pc EXCEPT ![p] = "sleep"]
      BY Zenon, <1>0, <1>5, <2>2 DEF Sleep, AfterWait, At
    <3> QED
      BY Zenon, <1>0, <1>1, <2>2, <3>1, ListFrame DEF Queued, Waking, Asking
  <2> QED
    BY Zenon, <2>1, <2>2
<1>6. CASE Absorb(p)
  <2>1. CASE lwWaiting[p] = "NOT"
    <3>1. pc[p] = "absorb" /\ pc' = [pc EXCEPT ![p] = "return"]
      BY Zenon, <1>6, <2>1 DEF Absorb, At, Goto
    <3> QED
      BY Zenon, <1>0, <1>1, <2>1, <3>1, ListFrame DEF Queued, Waking, Asking
  <2>2. CASE lwWaiting[p] # "NOT"
    <3>1. pc[p] = "absorb" /\ pc' = [pc EXCEPT ![p] = "absorb"]
      BY Zenon, <1>0, <1>6, <2>2 DEF Absorb, At
    <3> QED
      BY Zenon, <1>0, <1>1, <2>2, <3>1, ListFrame DEF Queued, Waking, Asking, Owing
  <2> QED
    BY Zenon, <2>1, <2>2
<1> QED
  BY Zenon, <1>2, <1>3, <1>4, <1>5, <1>6

\* Every step keeps the lists as they are described.
LEMMA ListsNext == Lists /\ [Next]_vars => Lists'
<1> SUFFICES ASSUME Lists, [Next]_vars PROVE Lists'
  BY Zenon
<1>1. CASE UNCHANGED vars
  <2>1. UNCHANGED <<pc, op, lwWaiting, waiters, wakeup>>
    BY Zenon, <1>1 DEF vars, procs, call
  <2>2. ListTypes'
    BY Zenon, <2>1 DEF Lists, ListTypes
  <2>3. \A p \in Procs : Rest(p)' = Rest(p)
    BY Zenon, <2>1 DEF Rest
  <2>4. Pending'
    BY Zenon, <2>1, <2>3, PendingFrame DEF Lists
  <2>5. \A p \in Procs : Placed(p)'
    BY Zenon, <2>1 DEF Lists, Placed
  <2> QED
    BY Zenon, <2>2, <2>4, <2>5 DEF Lists
<1>2. CASE Next
  <2>1. PICK p \in Procs : \/ Begin(p) \/ Steps(p) \/ ReleaseClearVar(p) \/ Stray(p)
                           \/ \E v \in Values : UpdateVar(p, v)
    BY Zenon, <1>2 DEF Next
  <2>2. /\ op \in [Procs -> Op] /\ pc = [pc EXCEPT ![p] = pc[p]]
        /\ pc[p] \in Waking => lwWaiting[p] # "WAITING" /\ lwWaiting[p] # "PENDING"
    BY Zenon DEF Lists, ListTypes, Placed, Queued, Owing, Waking
  <2>3. CASE QueueSelf(p) \/ Dequeue(p) \/ DequeueUnlock(p) \/ Post(p)
    BY Zenon, <2>3, ListQueue, ListDequeue, ListUnlock, ListPost
  <2>4. CASE Collect(p)
    <3>1. /\ TakeOff(p, ToWake(waiters)) /\ pc[p] = "collect" /\ op' = op
          /\ pc' = [pc EXCEPT ![p] = "wakeup_unlock"]
      BY Zenon, <2>4 DEF Collect, At, Goto, call
    <3>2. ToWake(waiters) \subseteq DOMAIN waiters
      BY Zenon DEF ToWake
    <3> QED
      BY Zenon, <3>1, <3>2, ListTake
  <2>5. CASE CollectFree(p)
    <3> DEFINE K == {k \in DOMAIN waiters : \A m \in 1 .. k : WaitUntilFree(waiters[m])}
    <3>1. TakeOff(p, K) /\ pc[p] = "collect_free" /\ op' = op /\ pc' = [pc EXCEPT ![p] = "wake"]
      BY Zenon, <2>5 DEF CollectFree, At, Goto, call
    <3>2. K \subseteq DOMAIN waiters
      BY Zenon
    <3> HIDE DEF K
    <3> QED
      BY Zenon, <3>1, <3>2, ListTake
  <2>6. CASE Wake(p)
    <3>1. CASE wakeup[p] = <<>>
      <4>1. /\ UNCHANGED <<lwWaiting, waiters, wakeup, op>> /\ pc[p] = "wake" /\ pc' = [pc EXCEPT ![p] = "idle"]
        BY Zenon, <2>6, <3>1 DEF Wake, At, Goto, call
      <4> QED
        BY Zenon, <2>2, <3>1, <4>1, ListFrame DEF Waking, Asking
    <3> QED
      BY Zenon, <2>6, <3>1, ListWake
  <2>7. CASE WakeupUnlock(p)
    <3>1. /\ UNCHANGED <<lwWaiting, waiters, wakeup, op>> /\ pc[p] = "wakeup_unlock" /\ pc' = [pc EXCEPT ![p] = "wake"]
      BY Zenon, <2>7 DEF WakeupUnlock, At, Goto, call, procs
    <3> QED
      BY Zenon, <2>2, <3>1, ListFrame DEF Waking, Asking
  <2>8. CASE Stray(p)
    <3>1. UNCHANGED <<lwWaiting, waiters, wakeup, op, pc>>
      BY Zenon, <2>8 DEF Stray, call
    <3>2. Placed(p)
      BY Zenon DEF Lists
    <3> QED
      BY Zenon, <2>2, <3>1, <3>2, ListFrame DEF Placed
  <2>9. CASE WaitListLock(p) \/ ReadState(p) \/ ReadValue(p)
    <3>1. \/ WaitListLock(p) /\ (pc[p] = "dequeue_lock" \/ pc[p] # "dequeue_lock")
          \/ ReadState(p) /\ (pc[p] = "state1" \/ pc[p] = "state2")
          \/ ReadValue(p) /\ (pc[p] = "value1" \/ pc[p] = "value2")
      BY Zenon, <2>9 DEF ReadState, ReadValue
    <3> QED
      BY Zenon, <3>1, ListAsk, ListWait
  <2> QED
    BY Zenon, <2>1, <2>3, <2>4, <2>5, <2>6, <2>7, <2>8, <2>9, ListAsk, ListWait DEF Steps
<1> QED
  BY Zenon, <1>1, <1>2

\* The lists are empty at first.
LEMMA ListsInit == Init => Lists
<1> SUFFICES ASSUME Init PROVE Lists
  BY Zenon
<1>1. ListTypes
  BY DEF Init, ListTypes, Distinct, Op
<1>2. \A p \in Procs : Rest(p) = <<>> /\ lwWaiting[p] = "NOT"
  BY Zenon DEF Init, Rest
<1>3. Pending
  BY Zenon, <1>2, NobodyIn DEF Pending
<1>4. \A p \in Procs : Placed(p)
  BY Zenon, NobodyIn DEF Init, Placed, Asking
<1> QED
  BY Zenon, <1>1, <1>3, <1>4 DEF Lists

\* A process is in at most one list, and its lwWaiting says which, for any number of
\* processes: LWLockQueueSelf, LWLockDequeueSelf, LWLockWakeup and LWLockUpdateVar
\* move it from one to the other, and a semaphore posted by others does not change
\* that ("otherwise our ->lwWaiting would get reset at some inconvenient point
\* later").  The PANIC of LWLockQueueSelf, "queueing for lock while waiting on
\* another one", does not happen.
THEOREM ListsCorrect == Spec => []ListsMatch
<1>1. Lists => ListsMatch
  <2> SUFFICES ASSUME Lists, NEW q \in Procs
               PROVE  LET wakers == {p \in Procs : InList(q, IF At(p, "post") THEN Tail(wakeup[p]) ELSE wakeup[p])}
                      IN /\ Cardinality({k \in DOMAIN waiters : waiters[k] = q}) <= 1
                         /\ Cardinality(wakers) <= 1
                         /\ InList(q, waiters) => lwWaiting[q] = "WAITING"
                         /\ (lwWaiting[q] = "WAITING" /\ ~ At(q, "dequeue_unlock")) => InList(q, waiters)
                         /\ lwWaiting[q] = "PENDING" <=> wakers # {}
                         /\ At(q, "queue_lock") => lwWaiting[q] = "NOT"
    BY Zenon DEF ListsMatch
  <2> DEFINE wakers == {p \in Procs : InList(q, Rest(p))}
             places == {k \in DOMAIN waiters : waiters[k] = q}
  <2>1. wakers = {p \in Procs : InList(q, IF At(p, "post") THEN Tail(wakeup[p]) ELSE wakeup[p])}
    BY Zenon DEF Rest, At
  <2>2. ASSUME NEW S, \A x, y \in S : x = y PROVE Cardinality(S) <= 1
    <3>1. CASE S = {}
      BY <3>1, FS_EmptySet
    <3>2. CASE S # {}
      <4>1. PICK x : S = {x}
        BY <2>2, <3>2
      <4>2. Cardinality({x}) = 1
        BY Zenon, FS_Singleton
      <4> QED
        BY <4>1, <4>2
    <3> QED
      BY Zenon, <3>1, <3>2
  <2>3. \A x, y \in places : x = y
    BY Zenon DEF Lists, ListTypes, Distinct
  <2>4. \A x, y \in wakers : x = y
    BY Zenon DEF Lists, Pending
  <2>5. Cardinality(places) <= 1 /\ Cardinality(wakers) <= 1
    BY Zenon, <2>2, <2>3, <2>4
  <2>6. lwWaiting[q] = "PENDING" <=> wakers # {}
    BY Zenon DEF Lists, Pending
  <2>7. InList(q, waiters) <=> lwWaiting[q] = "WAITING" /\ pc[q] # "dequeue_unlock"
    BY Zenon DEF Lists, Placed
  <2>8. pc[q] = "queue_lock" => lwWaiting[q] = "NOT"
    <3>1. Placed(q) /\ lwWaiting[q] \in {"NOT", "WAITING", "PENDING"}
      BY Zenon DEF Lists, ListTypes
    <3> QED
      BY Zenon, <3>1 DEF Placed, Queued, Owing
  <2> HIDE DEF wakers, places
  <2> QED
    BY Zenon, <2>1, <2>5, <2>6, <2>7, <2>8 DEF At, places
<1> QED
  BY <1>1, ListsInit, ListsNext, PTL DEF Spec

-----------------------------------------------------------------------------
(***************************************************************************)
(* The semaphores.                                                         *)
(***************************************************************************)

Bit(b) == IF b THEN 1 ELSE 0

\* The wakers that have reset q's lwWaiting and not yet posted its semaphore.
Posters(q) == {p \in Procs : pc[p] = "post" /\ Head(wakeup[p]) = q}

\* A wakeup of the lock is due to q: it was taken off the wait list by another.
Owed(q) == pc[q] \in Owing \/ (pc[q] \in Queued /\ lwWaiting[q] # "WAITING")

\* What q has got, has put aside and is to get is what is due to it and what comes
\* from others.
Balanced(q) ==
  sem[q] + extraWaits[q] + Cardinality(Posters(q)) + Bit(lwWaiting[q] = "PENDING") = Bit(q \in stray) + Bit(Owed(q))

Balance ==
  /\ sem \in [Procs -> Nat] /\ extraWaits \in [Procs -> Nat]
  /\ \A q \in Procs : (pc[q] \in Outside => extraWaits[q] = 0) /\ Balanced(q)

\* The numbers in Balanced are numbers.
LEMMA BalanceTypes ==
  ASSUME Balance, NEW q \in Procs
  PROVE  /\ IsFiniteSet(Posters(q)) /\ Cardinality(Posters(q)) \in Nat
         /\ sem[q] \in Nat /\ extraWaits[q] \in Nat /\ \A b \in BOOLEAN : Bit(b) \in {0, 1}
<1>1. Posters(q) \subseteq Procs
  BY Zenon DEF Posters
<1>2. IsFiniteSet(Posters(q)) /\ Cardinality(Posters(q)) \in Nat
  BY Zenon, <1>1, LWLockAssumption, FS_Subset, FS_CardinalityType
<1> QED
  BY Zenon, <1>2 DEF Balance, Bit

\* A process to which nothing happens stays balanced.
LEMMA BalanceKept ==
  ASSUME NEW q \in Procs, Balanced(q), sem'[q] = sem[q], extraWaits'[q] = extraWaits[q], Posters(q)' = Posters(q),
         lwWaiting'[q] = "PENDING" <=> lwWaiting[q] = "PENDING", q \in stray' <=> q \in stray, Owed(q)' <=> Owed(q)
  PROVE  Balanced(q)'
<1>1. /\ Bit(lwWaiting'[q] = "PENDING") = Bit(lwWaiting[q] = "PENDING") /\ Bit(q \in stray') = Bit(q \in stray)
      /\ Bit(Owed(q)') = Bit(Owed(q))
  BY Zenon DEF Bit
<1>2. sem'[q] + extraWaits'[q] + Cardinality(Posters(q)') + Bit(lwWaiting'[q] = "PENDING") = Bit(q \in stray') + Bit(Owed(q)')
  BY Zenon, <1>1 DEF Balanced
<1> QED
  BY Zenon, <1>2 DEF Balanced

\* Nobody posts a semaphore before or after the step.
LEMMA PostersKept ==
  ASSUME Lists, NEW p \in Procs, NEW l, pc' = [pc EXCEPT ![p] = l], pc[p] # "post", l # "post",
         \A r \in Procs : r # p => wakeup'[r] = wakeup[r], NEW q
  PROVE  Posters(q)' = Posters(q)
<1>1. pc'[p] = l /\ \A r \in Procs : r # p => pc'[r] = pc[r]
  BY Zenon DEF Lists, ListTypes
<1> QED
  BY Zenon, <1>1 DEF Posters

\* A step of a process that leaves lwWaiting and the semaphores alone.
LEMMA BalanceMove ==
  ASSUME Lists, Balance, UNCHANGED <<sem, extraWaits, stray, lwWaiting>>, NEW p \in Procs, NEW l,
         pc' = [pc EXCEPT ![p] = l], pc[p] # "post", l # "post",
         \A r \in Procs : r # p => wakeup'[r] = wakeup[r],
         Owed(p) <=> l \in Owing \/ (l \in Queued /\ lwWaiting[p] # "WAITING"),
         l \in Outside => extraWaits[p] = 0
  PROVE  Balance'
<1>1. pc'[p] = l /\ \A q \in Procs : q # p => pc'[q] = pc[q]
  BY Zenon DEF Lists, ListTypes
<1>2. \A q \in Procs : Owed(q)' <=> Owed(q)
  BY Zenon, <1>1 DEF Owed
<1>3. \A q \in Procs : pc'[q] \in Outside => extraWaits'[q] = 0
  BY Zenon, <1>1 DEF Balance
<1>4. ASSUME NEW q \in Procs PROVE Balanced(q)'
  <2>1. Posters(q)' = Posters(q)
    BY ZenonT(30), PostersKept
  <2>2. Balanced(q)
    BY Zenon DEF Balance
  <2> QED
    BY Zenon, <1>2, <2>1, <2>2, BalanceKept
<1> QED
  BY Zenon, <1>3, <1>4 DEF Balance

\* The steps of that kind.
LEMMA BalanceQuiet ==
  ASSUME Lists, Balance, NEW p \in Procs,
         \/ Begin(p) \/ Try1(p) \/ WaitListLock(p) \/ QueueFlag(p) \/ Try2(p) \/ Retry(p) \/ Dequeue(p)
         \/ DequeueUnlock(p) /\ lwWaiting[p] # "WAITING"
         \/ DequeueOk(p) \/ ReadState(p) \/ ReadValue(p) \/ VarReleaseOk(p) \/ Release(p) \/ ReleaseClearVar(p)
         \/ WakeupUnlock(p) \/ (Wake(p) /\ wakeup[p] = <<>>)
         \/ \E v \in Values : UpdateVar(p, v)
  PROVE  Balance'
<1>0. pc[p] \in Outside => extraWaits[p] = 0
  BY Zenon DEF Balance
<1>1. UNCHANGED <<sem, extraWaits, stray, lwWaiting, wakeup>>
  BY Zenon DEF Begin, Call, Try1, MustWait, AttemptLock, WaitListLock, QueueFlag, Try2, Retry, Dequeue, DequeueUnlock, DequeueOk,
     ReadState, ReadValue, VarReleaseOk, Release, ReleaseClearVar, WakeupUnlock, Wake, UpdateVar, procs
<1> DEFINE Inside == {"try1", "state1", "value1", "queue_lock", "queue_flag", "queue", "retry", "return"}
<1>2. ASSUME NEW l, pc' = [pc EXCEPT ![p] = l], pc[p] # "post", l # "post",
             \/ pc[p] \in Outside /\ l \in Outside \cup Inside
             \/ pc[p] \in Inside /\ l \in Inside
             \/ pc[p] \in Queued /\ l \in Queued
             \/ pc[p] \in Queued /\ l \in Owing /\ lwWaiting[p] # "WAITING"
             \/ pc[p] \in Owing /\ l \in Owing
      PROVE  Balance'
  <2>0. Outside \cap Inside = {} /\ Outside \cap Queued = {} /\ Outside \cap Owing = {}
    BY Zenon DEF Queued, Owing, Outside, Waking
  <2>1. Owed(p) <=> l \in Owing \/ (l \in Queued /\ lwWaiting[p] # "WAITING")
    BY ZenonT(30), <1>2 DEF Owed, Queued, Owing, Outside, Waking
  <2>2. l \in Outside => extraWaits[p] = 0
    BY Zenon, <1>0, <1>2, <2>0
  <2> QED
    BY ZenonT(30), <1>1, <1>2, <2>1, <2>2, BalanceMove
<1>3. CASE Begin(p) \/ Release(p) \/ ReleaseClearVar(p) \/ \E v \in Values : UpdateVar(p, v)
  <2>1. /\ pc[p] \in {"idle", "clear"}
        /\ \E l \in {"try1", "state1", "idle", "wakeup_lock", "clear", "update_lock"} : pc' = [pc EXCEPT ![p] = l]
    BY Zenon, <1>3 DEF Begin, Call, Release, ReleaseClearVar, UpdateVar, At, Goto
  <2> QED
    BY Zenon, <1>2, <2>1 DEF Outside
<1>4. CASE Try1(p) \/ QueueFlag(p) \/ Retry(p)
  <2>1. /\ pc[p] \in {"try1", "queue_flag", "retry"}
        /\ \E l \in {"return", "queue_lock", "queue", "try1"} : pc' = [pc EXCEPT ![p] = l]
    BY Zenon, <1>4 DEF Try1, MustWait, AttemptLock, QueueFlag, Retry, At, Goto
  <2> QED
    BY Zenon, <1>2, <2>1
<1>5. CASE WaitListLock(p)
  <2>1. \/ pc[p] = "queue_lock" /\ pc' = [pc EXCEPT ![p] = "queue_flag"]
        \/ pc[p] = "dequeue_lock" /\ pc' = [pc EXCEPT ![p] = "dequeue"]
        \/ pc[p] = "wakeup_lock" /\ pc' = [pc EXCEPT ![p] = "collect"]
        \/ pc[p] = "update_lock" /\ pc' = [pc EXCEPT ![p] = "collect_free"]
    BY Zenon, <1>5 DEF WaitListLock, At, Goto
  <2> QED
    BY Zenon, <1>2, <2>1 DEF Outside, Queued
<1>6. CASE Try2(p) \/ VarReleaseOk(p) \/ Dequeue(p)
  <2>1. /\ pc[p] \in {"try2", "var_ok", "dequeue"}
        /\ \E l \in {"dequeue_lock", "sleep", "state2", "dequeue_unlock"} : pc' = [pc EXCEPT ![p] = l]
    BY Zenon, <1>6 DEF Try2, AttemptLock, VarReleaseOk, Dequeue, At, Goto
  <2> QED
    BY Zenon, <1>2, <2>1 DEF Queued
<1>7. CASE (DequeueUnlock(p) /\ lwWaiting[p] # "WAITING") \/ DequeueOk(p)
  <2>1. \/ pc[p] = "dequeue_unlock" /\ pc' = [pc EXCEPT ![p] = "dequeue_ok"] /\ lwWaiting[p] # "WAITING"
        \/ pc[p] = "dequeue_ok" /\ pc' = [pc EXCEPT ![p] = "absorb"]
    BY Zenon, <1>7 DEF DequeueUnlock, DequeueOk, At, Goto
  <2> QED
    BY Zenon, <1>2, <2>1 DEF Queued, Owing
<1>8. CASE ReadState(p) \/ ReadValue(p)
  <2>1. \/ /\ pc[p] \in {"state1", "value1"}
           /\ \E l \in {"value1", "queue_lock", "return"} : pc' = [pc EXCEPT ![p] = l]
        \/ /\ pc[p] \in {"state2", "value2"}
           /\ \E l \in {"dequeue_lock", "sleep", "value2"} : pc' = [pc EXCEPT ![p] = l]
    <3>1. CASE ReadState(p)
      BY Zenon, <3>1 DEF ReadState, At, Goto
    <3>2. CASE ReadValue(p)
      BY Zenon, <3>2 DEF ReadValue, At, Goto
    <3> QED
      BY Zenon, <1>8, <3>1, <3>2
  <2> QED
    BY ZenonT(30), <1>2, <2>1 DEF Queued
<1>9. CASE WakeupUnlock(p) \/ (Wake(p) /\ wakeup[p] = <<>>)
  <2>1. pc[p] \in {"wakeup_unlock", "wake"} /\ \E l \in {"wake", "idle"} : pc' = [pc EXCEPT ![p] = l]
    BY Zenon, <1>9 DEF WakeupUnlock, Wake, At, Goto
  <2> QED
    BY Zenon, <1>2, <2>1 DEF Outside, Waking
<1> QED
  BY Zenon, <1>3, <1>4, <1>5, <1>6, <1>7, <1>8, <1>9

\* One that queues, or finds that nobody has taken it off the list, is owed nothing.
LEMMA BalanceQueue ==
  ASSUME Lists, Balance, NEW p \in Procs, QueueSelf(p) \/ (DequeueUnlock(p) /\ lwWaiting[p] = "WAITING")
  PROVE  Balance'
<1> DEFINE l == IF op[p] = "WaitForVar" THEN "var_ok" ELSE "try2"
<1>1. /\ UNCHANGED <<sem, extraWaits, stray, wakeup>>
      /\ \/ /\ pc[p] = "queue" /\ pc' = [pc EXCEPT ![p] = l]
            /\ lwWaiting' = [lwWaiting EXCEPT ![p] = "WAITING"]
         \/ /\ pc[p] = "dequeue_unlock" /\ pc' = [pc EXCEPT ![p] = "return"] /\ lwWaiting[p] = "WAITING"
            /\ lwWaiting' = [lwWaiting EXCEPT ![p] = "NOT"]
  BY Zenon DEF QueueSelf, DequeueUnlock, At, Goto
<1>2. l \in Queued /\ l \notin Owing /\ l \notin Outside /\ l # "post"
  BY Zenon DEF Queued, Owing, Outside, Waking
<1> HIDE DEF l
<1>3. Placed(p) /\ lwWaiting \in [Procs -> {"NOT", "WAITING", "PENDING"}] /\ pc = [q \in Procs |-> pc[q]]
  BY Zenon DEF Lists, ListTypes
<1>4. PICK m : pc' = [pc EXCEPT ![p] = m] /\ m # "post" /\ m \notin Outside /\ pc[p] # "post"
  BY Zenon, <1>1, <1>2 DEF Outside, Waking
<1>5. pc'[p] = m /\ \A q \in Procs : q # p => pc'[q] = pc[q] /\ lwWaiting'[q] = lwWaiting[q]
  BY Zenon, <1>1, <1>3, <1>4
<1>6. /\ lwWaiting[p] # "PENDING" /\ lwWaiting'[p] # "PENDING" /\ ~Owed(p) /\ ~Owed(p)'
  <2>1. CASE pc[p] = "queue"
    <3>1. lwWaiting'[p] = "WAITING" /\ pc'[p] = l
      BY Zenon, <1>1, <1>3, <2>1
    <3> QED
      BY Zenon, <1>2, <1>3, <2>1, <3>1 DEF Owed, Placed, Queued, Owing
  <2>2. CASE pc[p] = "dequeue_unlock"
    <3>1. lwWaiting'[p] = "NOT" /\ pc'[p] = "return" /\ lwWaiting[p] = "WAITING"
      BY Zenon, <1>1, <1>3, <2>2
    <3> QED
      BY Zenon, <2>2, <3>1 DEF Owed, Queued, Owing
  <2> QED
    BY Zenon, <1>1, <2>1, <2>2
<1>7. \A q \in Procs : pc'[q] \in Outside => extraWaits'[q] = 0
  BY Zenon, <1>1, <1>4, <1>5 DEF Balance
<1>8. ASSUME NEW q \in Procs PROVE Balanced(q)'
  <2>1. Posters(q)' = Posters(q)
    BY Zenon, <1>1, <1>4, PostersKept
  <2>2. Balanced(q)
    BY Zenon DEF Balance
  <2>3. (Owed(q)' <=> Owed(q)) /\ (lwWaiting'[q] = "PENDING" <=> lwWaiting[q] = "PENDING")
    BY Zenon, <1>5, <1>6 DEF Owed
  <2> QED
    BY Zenon, <1>1, <2>1, <2>2, <2>3, BalanceKept
<1> QED
  BY Zenon, <1>1, <1>7, <1>8 DEF Balance

\* Those that are taken off are owed the wakeup that is pending.
LEMMA BalanceTake ==
  ASSUME Lists, Balance, NEW p \in Procs, NEW K, K \subseteq DOMAIN waiters, TakeOff(p, K),
         pc[p] \in {"collect", "collect_free"}, NEW l, l \in {"wakeup_unlock", "wake"}, pc' = [pc EXCEPT ![p] = l],
         UNCHANGED <<sem, extraWaits, stray>>
  PROVE  Balance'
<1>1. pc'[p] = l /\ \A q \in Procs : q # p => pc'[q] = pc[q]
  BY Zenon DEF Lists, ListTypes
<1>2. \A q \in Procs : pc'[q] \in Outside => extraWaits'[q] = 0
  BY Zenon, <1>1 DEF Balance, Outside
<1>3. \A r \in Procs : r # p => wakeup'[r] = wakeup[r]
  BY Zenon DEF TakeOff, Lists, ListTypes
<1>4. ASSUME NEW q \in Procs PROVE Balanced(q)'
  <2>1. Posters(q)' = Posters(q)
    BY Zenon, <1>3, PostersKept
  <2>2. Balanced(q)
    BY Zenon DEF Balance
  <2>3. CASE \E k \in K : waiters[k] = q
    <3>1. lwWaiting'[q] = "PENDING" /\ InList(q, waiters)
      BY Zenon, <2>3 DEF TakeOff, InList
    <3>2. lwWaiting[q] = "WAITING" /\ pc[q] \in Queued
      BY Zenon, <3>1 DEF Lists, Placed
    <3>3. q # p /\ pc[q] \notin Owing
      BY Zenon, <3>2 DEF Queued, Owing
    <3>4. Owed(q)' /\ ~Owed(q)
      BY Zenon, <1>1, <3>1, <3>2, <3>3 DEF Owed
    <3>5. Bit(Owed(q)') = 1 /\ Bit(Owed(q)) = 0 /\ Bit(lwWaiting'[q] = "PENDING") = 1 /\ Bit(lwWaiting[q] = "PENDING") = 0
      BY Zenon, <3>1, <3>2, <3>4 DEF Bit
    <3>6. sem[q] + extraWaits[q] + Cardinality(Posters(q)) + 0 = Bit(q \in stray) + 0
      BY Zenon, <2>2, <3>5 DEF Balanced
    <3>7. sem[q] + extraWaits[q] + Cardinality(Posters(q)) + 1 = Bit(q \in stray) + 1
      <4>1. /\ sem[q] \in Nat /\ extraWaits[q] \in Nat /\ Cardinality(Posters(q)) \in Nat /\ Bit(q \in stray) \in Nat
        BY Zenon, BalanceTypes DEF Bit
      <4> QED
        BY <3>6, <4>1
    <3>8. sem'[q] + extraWaits'[q] + Cardinality(Posters(q)') + Bit(lwWaiting'[q] = "PENDING")
            = Bit(q \in stray') + Bit(Owed(q)')
      BY Zenon, <2>1, <3>5, <3>7
    <3> QED
      BY Zenon, <3>8 DEF Balanced
  <2>4. CASE ~\E k \in K : waiters[k] = q
    <3>1. lwWaiting'[q] = lwWaiting[q]
      BY Zenon, <2>4 DEF TakeOff
    <3>2. Owed(q)' <=> Owed(q)
      BY Zenon, <1>1, <3>1 DEF Owed, Queued, Owing
    <3> QED
      BY Zenon, <2>1, <2>2, <3>1, <3>2, BalanceKept
  <2> QED
    BY Zenon, <2>3, <2>4
<1> QED
  BY Zenon, <1>2, <1>4 DEF Balance

\* A wakeup is taken: the one that was due, or one that is put aside.
LEMMA BalanceSleep == ASSUME Lists, Balance, NEW p \in Procs, Sleep(p) \/ Absorb(p) PROVE Balance'
<1>0. /\ sem[p] \in Nat /\ extraWaits[p] \in Nat /\ Cardinality(Posters(p)) \in Nat
      /\ Bit(p \in stray) \in Nat /\ Bit(lwWaiting[p] = "PENDING") \in Nat
  BY Zenon, BalanceTypes DEF Bit
<1>1. /\ UNCHANGED <<lwWaiting, wakeup, stray>> /\ pc[p] \in {"sleep", "absorb"} /\ sem[p] > 0
      /\ sem' = [sem EXCEPT ![p] = sem[p] - 1]
  BY Zenon DEF Sleep, AfterWait, Absorb, At
<1>2. PICK l : /\ pc' = [pc EXCEPT ![p] = l]
               /\ \/ /\ lwWaiting[p] = "NOT" /\ extraWaits' = extraWaits
                     /\ l \in {"retry", "return", "state1"}
                  \/ /\ lwWaiting[p] # "NOT" /\ extraWaits' = [extraWaits EXCEPT ![p] = extraWaits[p] + 1]
                     /\ l = pc[p]
  <2>1. pc = [pc EXCEPT ![p] = pc[p]] /\ (pc[p] = "sleep" => op[p] \in {"Acquire", "AcquireOrWait", "WaitForVar"})
    BY Zenon DEF Lists, ListTypes, Placed, Asking, Op
  <2>2. CASE Sleep(p)
    BY Zenon, <2>1, <2>2 DEF Sleep, AfterWait, At, Goto
  <2>3. CASE Absorb(p)
    BY Zenon, <2>1, <2>3 DEF Absorb, At, Goto
  <2> QED
    BY Zenon, <2>2, <2>3
<1>3. l # "post" /\ pc[p] # "post" /\ l \notin Outside
  BY Zenon, <1>1, <1>2 DEF Outside, Waking
<1>4. pc'[p] = l /\ \A q \in Procs : q # p => pc'[q] = pc[q]
  BY Zenon, <1>2 DEF Lists, ListTypes
<1>5. /\ sem' \in [Procs -> Nat] /\ extraWaits' \in [Procs -> Nat] /\ sem'[p] = sem[p] - 1
      /\ \A q \in Procs : q # p => sem'[q] = sem[q] /\ extraWaits'[q] = extraWaits[q]
  <2>1. sem \in [Procs -> Nat] /\ extraWaits \in [Procs -> Nat]
    BY Zenon DEF Balance
  <2>2. sem' \in [Procs -> Nat] /\ sem'[p] = sem[p] - 1 /\ \A q \in Procs : q # p => sem'[q] = sem[q]
    BY <1>0, <1>1, <2>1
  <2>3. /\ extraWaits' \in [Procs -> Nat]
        /\ \A q \in Procs : q # p => extraWaits'[q] = extraWaits[q]
    BY <1>0, <1>2, <2>1
  <2> QED
    BY Zenon, <2>2, <2>3
<1>6. ASSUME NEW q \in Procs PROVE Balanced(q)'
  <2>1. Posters(q)' = Posters(q)
    BY ZenonT(30), <1>1, <1>2, <1>3, PostersKept
  <2>2. Balanced(q)
    BY Zenon DEF Balance
  <2>3. CASE q # p
    <3>1. Owed(q)' <=> Owed(q)
      BY Zenon, <1>1, <1>4, <2>3 DEF Owed
    <3> QED
      BY Zenon, <1>1, <1>5, <2>1, <2>2, <2>3, <3>1, BalanceKept
  <2>4. CASE q = p /\ lwWaiting[p] = "NOT"
    <3>1. Owed(p) /\ ~Owed(p)' /\ extraWaits'[p] = extraWaits[p]
      BY Zenon, <1>1, <1>2, <1>4, <2>4 DEF Owed, Queued, Owing
    <3>2. Bit(Owed(p)) = 1 /\ Bit(Owed(p)') = 0
      BY Zenon, <3>1 DEF Bit
    <3>3. sem[p] + extraWaits[p] + Cardinality(Posters(p)) + Bit(lwWaiting[p] = "PENDING") = Bit(p \in stray) + 1
      BY Zenon, <2>2, <2>4, <3>2 DEF Balanced
    <3>4. (sem[p] - 1) + extraWaits[p] + Cardinality(Posters(p)) + Bit(lwWaiting[p] = "PENDING") = Bit(p \in stray) + 0
      BY <1>0, <3>3
    <3>5. sem'[p] + extraWaits'[p] + Cardinality(Posters(p)') + Bit(lwWaiting'[p] = "PENDING")
            = Bit(p \in stray') + Bit(Owed(p)')
      BY Zenon, <1>1, <1>5, <2>1, <2>4, <3>1, <3>2, <3>4
    <3> QED
      BY Zenon, <2>4, <3>5 DEF Balanced
  <2>5. CASE q = p /\ lwWaiting[p] # "NOT"
    <3>0. extraWaits' = [extraWaits EXCEPT ![p] = extraWaits[p] + 1] /\ pc'[p] = pc[p]
      BY Zenon, <1>2, <1>4, <2>5
    <3>1. extraWaits'[p] = extraWaits[p] + 1
      BY Zenon, <3>0 DEF Balance
    <3>2. Bit(Owed(p)') = Bit(Owed(p)) /\ Bit(Owed(p)) \in Nat
      BY Zenon, <1>1, <3>0 DEF Bit, Owed
    <3>3. sem[p] + extraWaits[p] + Cardinality(Posters(p)) + Bit(lwWaiting[p] = "PENDING")
            = Bit(p \in stray) + Bit(Owed(p))
      BY Zenon, <2>2, <2>5 DEF Balanced
    <3>4. (sem[p] - 1) + (extraWaits[p] + 1) + Cardinality(Posters(p)) + Bit(lwWaiting[p] = "PENDING")
            = Bit(p \in stray) + Bit(Owed(p))
      BY <1>0, <3>2, <3>3
    <3>5. sem'[p] + extraWaits'[p] + Cardinality(Posters(p)') + Bit(lwWaiting'[p] = "PENDING")
            = Bit(p \in stray') + Bit(Owed(p)')
      BY Zenon, <1>1, <1>5, <2>1, <2>5, <3>1, <3>2, <3>4
    <3> QED
      BY Zenon, <2>5, <3>5 DEF Balanced
  <2> QED
    BY Zenon, <2>3, <2>4, <2>5
<1>7. \A q \in Procs : pc'[q] \in Outside => extraWaits'[q] = 0
  BY Zenon, <1>3, <1>4, <1>5 DEF Balance
<1> QED
  BY Zenon, <1>5, <1>6, <1>7 DEF Balance

\* What was put aside is given back.
LEMMA BalanceReturn == ASSUME Lists, Balance, NEW p \in Procs, Return(p) PROVE Balance'
<1>0. /\ sem[p] \in Nat /\ extraWaits[p] \in Nat /\ Cardinality(Posters(p)) \in Nat
      /\ Bit(p \in stray) \in Nat /\ Bit(lwWaiting[p] = "PENDING") \in Nat /\ Bit(Owed(p)) \in Nat
  BY Zenon, BalanceTypes DEF Bit
<1>1. /\ UNCHANGED <<lwWaiting, wakeup, stray>> /\ pc[p] = "return" /\ pc' = [pc EXCEPT ![p] = "idle"]
      /\ sem' = [sem EXCEPT ![p] = sem[p] + extraWaits[p]] /\ extraWaits' = [extraWaits EXCEPT ![p] = 0]
  BY Zenon DEF Return, At, Goto
<1>2. pc'[p] = "idle" /\ \A q \in Procs : q # p => pc'[q] = pc[q]
  BY Zenon, <1>1 DEF Lists, ListTypes
<1>3. /\ sem' \in [Procs -> Nat] /\ extraWaits' \in [Procs -> Nat] /\ sem'[p] = sem[p] + extraWaits[p]
      /\ extraWaits'[p] = 0 /\ \A q \in Procs : q # p => sem'[q] = sem[q] /\ extraWaits'[q] = extraWaits[q]
  <2>1. sem \in [Procs -> Nat] /\ extraWaits \in [Procs -> Nat] /\ sem[p] + extraWaits[p] \in Nat
    BY <1>0 DEF Balance
  <2>2. /\ sem' \in [Procs -> Nat] /\ sem'[p] = sem[p] + extraWaits[p]
        /\ \A q \in Procs : q # p => sem'[q] = sem[q]
    BY Zenon, <1>1, <2>1
  <2>3. /\ extraWaits' \in [Procs -> Nat] /\ extraWaits'[p] = 0
        /\ \A q \in Procs : q # p => extraWaits'[q] = extraWaits[q]
    BY Zenon, <1>1, <2>1
  <2> QED
    BY Zenon, <2>2, <2>3
<1>4. \A q \in Procs : Owed(q)' <=> Owed(q)
  BY Zenon, <1>1, <1>2 DEF Owed, Queued, Owing
<1>5. ASSUME NEW q \in Procs PROVE Balanced(q)'
  <2>1. Posters(q)' = Posters(q)
    BY Zenon, <1>1, PostersKept
  <2>2. Balanced(q)
    BY Zenon DEF Balance
  <2>3. CASE q # p
    BY Zenon, <1>1, <1>3, <1>4, <2>1, <2>2, <2>3, BalanceKept
  <2>4. CASE q = p
    <3>1. Bit(Owed(p)') = Bit(Owed(p))
      BY Zenon, <1>4 DEF Bit
    <3>2. sem[p] + extraWaits[p] + Cardinality(Posters(p)) + Bit(lwWaiting[p] = "PENDING")
            = Bit(p \in stray) + Bit(Owed(p))
      BY Zenon, <2>2, <2>4 DEF Balanced
    <3>3. (sem[p] + extraWaits[p]) + 0 + Cardinality(Posters(p)) + Bit(lwWaiting[p] = "PENDING")
            = Bit(p \in stray) + Bit(Owed(p))
      BY <1>0, <3>2
    <3>4. sem'[p] + extraWaits'[p] + Cardinality(Posters(p)') + Bit(lwWaiting'[p] = "PENDING")
            = Bit(p \in stray') + Bit(Owed(p)')
      BY Zenon, <1>1, <1>3, <2>1, <2>4, <3>1, <3>3
    <3> QED
      BY Zenon, <2>4, <3>4 DEF Balanced
  <2> QED
    BY Zenon, <2>3, <2>4
<1>6. \A q \in Procs : pc'[q] \in Outside => extraWaits'[q] = 0
  BY Zenon, <1>2, <1>3 DEF Balance
<1> QED
  BY Zenon, <1>3, <1>5, <1>6 DEF Balance

\* A post from somebody else.
LEMMA BalanceStray == ASSUME Lists, Balance, NEW p \in Procs, Stray(p) PROVE Balance'
<1>0. /\ sem[p] \in Nat /\ extraWaits[p] \in Nat /\ Cardinality(Posters(p)) \in Nat
      /\ Bit(lwWaiting[p] = "PENDING") \in Nat /\ Bit(Owed(p)) \in Nat
  BY Zenon, BalanceTypes DEF Bit
<1>1. /\ UNCHANGED <<lwWaiting, wakeup, pc, extraWaits>> /\ p \notin stray /\ stray' = stray \cup {p}
      /\ sem' = [sem EXCEPT ![p] = sem[p] + 1]
  BY Zenon DEF Stray
<1>2. /\ sem' \in [Procs -> Nat] /\ sem'[p] = sem[p] + 1 /\ \A q \in Procs : q # p => sem'[q] = sem[q]
  BY <1>0, <1>1 DEF Balance
<1>3. \A q \in Procs : (Owed(q)' <=> Owed(q)) /\ Posters(q)' = Posters(q)
  BY Zenon, <1>1 DEF Owed, Posters
<1>4. ASSUME NEW q \in Procs PROVE Balanced(q)'
  <2>1. Balanced(q)
    BY Zenon DEF Balance
  <2>2. CASE q # p
    BY Zenon, <1>1, <1>2, <1>3, <2>1, <2>2, BalanceKept
  <2>3. CASE q = p
    <3>1. Bit(Owed(p)') = Bit(Owed(p)) /\ Bit(p \in stray) = 0 /\ Bit(p \in stray') = 1
      BY Zenon, <1>1, <1>3 DEF Bit
    <3>2. sem[p] + extraWaits[p] + Cardinality(Posters(p)) + Bit(lwWaiting[p] = "PENDING") = 0 + Bit(Owed(p))
      BY Zenon, <2>1, <2>3, <3>1 DEF Balanced
    <3>3. (sem[p] + 1) + extraWaits[p] + Cardinality(Posters(p)) + Bit(lwWaiting[p] = "PENDING") = 1 + Bit(Owed(p))
      <4>1. PICK a, b, c, d, e \in Nat :
               /\ a = sem[p] /\ b = extraWaits[p] /\ c = Cardinality(Posters(p))
               /\ d = Bit(lwWaiting[p] = "PENDING") /\ e = Bit(Owed(p))
        BY Zenon, <1>0
      <4>2. a + b + c + d = 0 + e
        BY Zenon, <3>2, <4>1
      <4>3. (a + 1) + b + c + d = 1 + e
        BY <4>2
      <4> QED
        BY Zenon, <4>1, <4>3
    <3>4. sem'[p] + extraWaits'[p] + Cardinality(Posters(p)') + Bit(lwWaiting'[p] = "PENDING")
            = Bit(p \in stray') + Bit(Owed(p)')
      BY Zenon, <1>1, <1>2, <1>3, <3>1, <3>3
    <3> QED
      BY Zenon, <2>3, <3>4 DEF Balanced
  <2> QED
    BY Zenon, <2>2, <2>3
<1>5. \A q \in Procs : pc'[q] \in Outside => extraWaits'[q] = 0
  BY Zenon, <1>1 DEF Balance
<1> QED
  BY Zenon, <1>1, <1>2, <1>4, <1>5 DEF Balance

\* A pending wakeup becomes one that is to be posted ...
LEMMA BalanceWake == ASSUME Lists, Balance, NEW p \in Procs, Wake(p), wakeup[p] # <<>> PROVE Balance'
<1>h. PICK h : h = Head(wakeup[p])
  BY Zenon
<1>1. /\ pc[p] = "wake" /\ pc' = [pc EXCEPT ![p] = "post"] /\ UNCHANGED <<wakeup, sem, extraWaits, stray>>
      /\ lwWaiting' = [lwWaiting EXCEPT ![h] = "NOT"]
  BY Zenon, <1>h DEF Wake, At, Goto
<1>2. wakeup[p] \in Seq(Procs) /\ Distinct(wakeup[p])
  BY Zenon DEF Lists, ListTypes
<1>3. h \in Procs /\ InList(h, wakeup[p])
  BY Zenon, <1>h, <1>2, HeadTail
<1>4. \A q : p \in Posters(q)' <=> q = h
  BY Zenon, <1>h, <1>1 DEF Posters, Lists, ListTypes
<1>5. Rest(p) = wakeup[p]
  BY Zenon, <1>1 DEF Rest
<1>6. lwWaiting[h] = "PENDING"
  BY Zenon, <1>3, <1>5 DEF Lists, Pending
<1>7. /\ pc'[p] = "post" /\ \A q \in Procs : q # p => pc'[q] = pc[q]
      /\ lwWaiting'[h] = "NOT" /\ \A q \in Procs : q # h => lwWaiting'[q] = lwWaiting[q]
  BY Zenon, <1>1, <1>3 DEF Lists, ListTypes
<1>8. Posters(h)' = Posters(h) \cup {p} /\ \A q : q # h => Posters(q)' = Posters(q)
  <2>1. \A q : p \notin Posters(q)
    BY Zenon, <1>1 DEF Posters
  <2>2. \A q, r : r # p => (r \in Posters(q)' <=> r \in Posters(q))
    BY Zenon, <1>1, <1>7 DEF Posters
  <2>3. Posters(h)' = Posters(h) \cup {p}
    BY Zenon, <1>4, <2>2
  <2>4. ASSUME NEW q, q # h PROVE Posters(q)' = Posters(q)
    BY <1>4, <2>1, <2>2, <2>4
  <2> QED
    BY Zenon, <2>3, <2>4
<1>9. \A q \in Procs : Owed(q)' <=> Owed(q)
  BY Zenon, <1>1, <1>6, <1>7 DEF Owed, Queued, Owing
<1>10. ASSUME NEW q \in Procs PROVE Balanced(q)'
  <2>1. Balanced(q)
    BY Zenon DEF Balance
  <2>2. CASE q # h
    BY Zenon, <1>1, <1>7, <1>8, <1>9, <2>1, <2>2, BalanceKept
  <2>3. CASE q = h
    <3>0. /\ sem[h] \in Nat /\ extraWaits[h] \in Nat /\ Cardinality(Posters(h)) \in Nat /\ IsFiniteSet(Posters(h))
          /\ Bit(h \in stray) \in Nat /\ Bit(Owed(h)) \in Nat
      BY Zenon, <1>3, BalanceTypes DEF Bit
    <3>1. /\ Bit(Owed(h)') = Bit(Owed(h)) /\ Bit(lwWaiting[h] = "PENDING") = 1 /\ Bit(lwWaiting'[h] = "PENDING") = 0
      BY Zenon, <1>3, <1>6, <1>7, <1>9 DEF Bit
    <3>2. p \notin Posters(h)
      BY Zenon, <1>1 DEF Posters
    <3>3. Cardinality(Posters(h) \cup {p}) = Cardinality(Posters(h)) + 1
      BY Zenon, <3>0, <3>2, FS_AddElement
    <3>4. sem[h] + extraWaits[h] + Cardinality(Posters(h)) + 1 = Bit(h \in stray) + Bit(Owed(h))
      BY Zenon, <2>1, <2>3, <3>1 DEF Balanced
    <3>5. sem[h] + extraWaits[h] + (Cardinality(Posters(h)) + 1) + 0 = Bit(h \in stray) + Bit(Owed(h))
      BY <3>0, <3>4
    <3>6. sem'[h] + extraWaits'[h] + Cardinality(Posters(h)') + Bit(lwWaiting'[h] = "PENDING")
            = Bit(h \in stray') + Bit(Owed(h)')
      BY Zenon, <1>1, <1>8, <3>1, <3>3, <3>5
    <3> QED
      BY Zenon, <2>3, <3>6 DEF Balanced
  <2> QED
    BY Zenon, <2>2, <2>3
<1>11. \A q \in Procs : pc'[q] \in Outside => extraWaits'[q] = 0
  BY Zenon, <1>1, <1>7 DEF Balance, Outside, Waking
<1> QED
  BY Zenon, <1>1, <1>10, <1>11 DEF Balance

\* ... and then one that is posted.
LEMMA BalancePost == ASSUME Lists, Balance, NEW p \in Procs, Post(p) PROVE Balance'
<1>h. PICK h : h = Head(wakeup[p])
  BY Zenon
<1>1. /\ pc[p] = "post" /\ pc' = [pc EXCEPT ![p] = "wake"] /\ UNCHANGED <<lwWaiting, extraWaits, stray>>
      /\ sem' = [sem EXCEPT ![h] = sem[h] + 1] /\ wakeup' = [wakeup EXCEPT ![p] = Tail(wakeup[p])]
  BY Zenon, <1>h DEF Post, At, Goto
<1>2. wakeup[p] \in Seq(Procs) /\ Distinct(wakeup[p]) /\ wakeup[p] # <<>>
  BY Zenon, <1>1 DEF Lists, ListTypes, Placed
<1>3. h \in Procs
  BY Zenon, <1>h, <1>2, HeadTail
<1>4. \A q : p \in Posters(q) <=> q = h
  BY Zenon, <1>h, <1>1 DEF Posters
<1>5. /\ pc'[p] = "wake" /\ \A q \in Procs : q # p => pc'[q] = pc[q] /\ wakeup'[q] = wakeup[q]
  BY Zenon, <1>1 DEF Lists, ListTypes
<1>6. /\ sem' \in [Procs -> Nat] /\ sem'[h] = sem[h] + 1 /\ \A q \in Procs : q # h => sem'[q] = sem[q]
  BY <1>1, <1>3 DEF Balance
<1>7. Posters(h)' = Posters(h) \ {p} /\ \A q : q # h => Posters(q)' = Posters(q)
  <2>1. \A q : p \notin Posters(q)'
    BY Zenon, <1>5 DEF Posters
  <2>2. \A q, r : r # p => (r \in Posters(q)' <=> r \in Posters(q))
    BY Zenon, <1>1, <1>5 DEF Posters
  <2>3. Posters(h)' = Posters(h) \ {p}
    BY Zenon, <2>1, <2>2
  <2>4. ASSUME NEW q, q # h PROVE Posters(q)' = Posters(q)
    BY SMTT(30), <1>4, <2>1, <2>2, <2>4
  <2> QED
    BY Zenon, <2>3, <2>4
<1>8. \A q \in Procs : Owed(q)' <=> Owed(q)
  BY Zenon, <1>1, <1>5 DEF Owed, Queued, Owing
<1>9. ASSUME NEW q \in Procs PROVE Balanced(q)'
  <2>1. Balanced(q)
    BY Zenon DEF Balance
  <2>2. CASE q # h
    BY Zenon, <1>1, <1>6, <1>7, <1>8, <2>1, <2>2, BalanceKept
  <2>3. CASE q = h
    <3>0. /\ sem[h] \in Nat /\ extraWaits[h] \in Nat /\ Cardinality(Posters(h)) \in Nat /\ IsFiniteSet(Posters(h))
          /\ Bit(h \in stray) \in Nat /\ Bit(lwWaiting[h] = "PENDING") \in Nat /\ Bit(Owed(h)) \in Nat
      BY Zenon, <1>3, BalanceTypes DEF Bit
    <3>1. Bit(Owed(h)') = Bit(Owed(h))
      BY Zenon, <1>3, <1>8 DEF Bit
    <3>2. Cardinality(Posters(h) \ {p}) = Cardinality(Posters(h)) - 1
      BY Zenon, <1>4, <3>0, FS_RemoveElement
    <3>3. sem[h] + extraWaits[h] + Cardinality(Posters(h)) + Bit(lwWaiting[h] = "PENDING")
            = Bit(h \in stray) + Bit(Owed(h))
      BY Zenon, <2>1, <2>3 DEF Balanced
    <3>4. (sem[h] + 1) + extraWaits[h] + (Cardinality(Posters(h)) - 1) + Bit(lwWaiting[h] = "PENDING")
            = Bit(h \in stray) + Bit(Owed(h))
      BY <3>0, <3>3
    <3>5. sem'[h] + extraWaits'[h] + Cardinality(Posters(h)') + Bit(lwWaiting'[h] = "PENDING")
            = Bit(h \in stray') + Bit(Owed(h)')
      BY Zenon, <1>1, <1>6, <1>7, <3>1, <3>2, <3>4
    <3> QED
      BY Zenon, <2>3, <3>5 DEF Balanced
  <2> QED
    BY Zenon, <2>2, <2>3
<1>10. \A q \in Procs : pc'[q] \in Outside => extraWaits'[q] = 0
  BY Zenon, <1>1, <1>5 DEF Balance, Outside, Waking
<1> QED
  BY Zenon, <1>1, <1>6, <1>9, <1>10 DEF Balance

\* Every step keeps the balance.
LEMMA BalanceNext == Lists /\ Balance /\ [Next]_vars => Balance'
<1> SUFFICES ASSUME Lists, Balance, [Next]_vars PROVE Balance'
  BY Zenon
<1>1. CASE UNCHANGED vars
  <2>1. UNCHANGED <<pc, lwWaiting, wakeup, sem, extraWaits, stray>>
    BY Zenon, <1>1 DEF vars, procs, call
  <2>2. \A q \in Procs : (Owed(q)' <=> Owed(q)) /\ Posters(q)' = Posters(q)
    BY Zenon, <2>1 DEF Owed, Posters
  <2>3. \A q \in Procs : Balanced(q)'
    BY Zenon, <2>1, <2>2, BalanceKept DEF Balance
  <2> QED
    BY Zenon, <2>1, <2>3 DEF Balance
<1>2. CASE Next
  <2>1. PICK p \in Procs : \/ Begin(p) \/ Steps(p) \/ ReleaseClearVar(p) \/ Stray(p)
                           \/ \E v \in Values : UpdateVar(p, v)
    BY Zenon, <1>2 DEF Next
  <2>2. CASE Collect(p)
    <3>1. /\ TakeOff(p, ToWake(waiters)) /\ pc[p] = "collect" /\ pc' = [pc EXCEPT ![p] = "wakeup_unlock"]
          /\ UNCHANGED <<sem, extraWaits, stray>>
      BY Zenon, <2>2 DEF Collect, At, Goto
    <3>2. ToWake(waiters) \subseteq DOMAIN waiters
      BY Zenon DEF ToWake
    <3>3. pc[p] \in {"collect", "collect_free"} /\ "wakeup_unlock" \in {"wakeup_unlock", "wake"}
      BY Zenon, <3>1
    <3> QED
      BY Zenon, <3>1, <3>2, <3>3, BalanceTake
  <2>3. CASE CollectFree(p)
    <3> DEFINE K == {k \in DOMAIN waiters : \A m \in 1 .. k : WaitUntilFree(waiters[m])}
    <3>1. /\ TakeOff(p, K) /\ pc[p] = "collect_free" /\ pc' = [pc EXCEPT ![p] = "wake"]
          /\ UNCHANGED <<sem, extraWaits, stray>>
      BY Zenon, <2>3 DEF CollectFree, At, Goto
    <3>2. K \subseteq DOMAIN waiters
      BY Zenon
    <3>3. pc[p] \in {"collect", "collect_free"} /\ "wake" \in {"wakeup_unlock", "wake"}
      BY Zenon, <3>1
    <3> HIDE DEF K
    <3> QED
      BY Zenon, <3>1, <3>2, <3>3, BalanceTake
  <2>4. CASE DequeueUnlock(p) \/ Wake(p)
    BY Zenon, <2>4, BalanceQuiet, BalanceQueue, BalanceWake
  <2>5. CASE QueueSelf(p) \/ Sleep(p) \/ Absorb(p) \/ Return(p) \/ Stray(p) \/ Post(p)
    BY Zenon, <2>5, BalanceQueue, BalanceSleep, BalanceReturn, BalanceStray, BalancePost
  <2> QED
    BY Zenon, <2>1, <2>2, <2>3, <2>4, <2>5, BalanceQuiet DEF Steps
<1> QED
  BY Zenon, <1>1, <1>2

\* At first nothing is due and nothing has come.
LEMMA BalanceInit == Init => Balance
<1> SUFFICES ASSUME Init PROVE Balance
  BY Zenon
<1>1. /\ sem \in [Procs -> Nat] /\ extraWaits \in [Procs -> Nat]
      /\ \A q \in Procs : sem[q] = 0 /\ extraWaits[q] = 0
  BY Zenon DEF Init
<1>2. ASSUME NEW q \in Procs PROVE Balanced(q)
  <2>1. Posters(q) = {} /\ Cardinality({}) = 0
    BY Zenon, FS_EmptySet DEF Init, Posters
  <2>2. Bit(lwWaiting[q] = "PENDING") = 0 /\ Bit(q \in stray) = 0 /\ Bit(Owed(q)) = 0
    BY Zenon DEF Init, Bit, Owed, Queued, Owing
  <2> QED
    BY <1>1, <2>1, <2>2 DEF Balanced
<1> QED
  BY Zenon, <1>1, <1>2 DEF Balance

\* The extra waits of LWLockAcquire, LWLockAcquireOrWait, LWLockWaitForVar and
\* LWLockDequeueSelf give back what was meant for others, and no wakeup of the lock
\* is left over: when nobody is in a call each semaphore is at what was posted to
\* it for another reason, for any number of processes and any calls.
THEOREM SemaphoresCorrect == Spec => []SemaphoresBalance
<1>1. Lists /\ Balance => SemaphoresBalance
  <2> SUFFICES ASSUME Lists, Balance, \A r \in Procs : pc[r] = "idle", NEW q \in Procs
               PROVE  sem[q] = IF q \in stray THEN 1 ELSE 0
    BY Zenon DEF SemaphoresBalance
  <2>1. Placed(q) /\ Balanced(q) /\ extraWaits[q] = 0 /\ sem[q] \in Nat
    BY Zenon DEF Lists, Balance, Outside
  <2>2. Bit(lwWaiting[q] = "PENDING") = 0 /\ Bit(Owed(q)) = 0
    BY Zenon, <2>1 DEF Placed, Bit, Owed, Queued, Owing
  <2>3. Posters(q) = {} /\ Cardinality({}) = 0
    BY Zenon, FS_EmptySet DEF Posters
  <2>4. sem[q] + 0 + 0 + 0 = Bit(q \in stray) + 0
    BY Zenon, <2>1, <2>2, <2>3 DEF Balanced
  <2> QED
    BY <2>1, <2>4 DEF Bit
<1>2. Init => Lists /\ Balance
  BY Zenon, ListsInit, BalanceInit
<1>3. Lists /\ Balance /\ [Next]_vars => Lists' /\ Balance'
  BY Zenon, ListsNext, BalanceNext
<1> QED
  BY <1>1, <1>2, <1>3, PTL DEF Spec

-----------------------------------------------------------------------------
(***************************************************************************)
(* Nobody is forgotten.                                                    *)
(***************************************************************************)

\* LWLockWakeup takes the first of the list, and leaves somebody only behind one
\* that wants the lock.
LEMMA WakeSome ==
  ASSUME NEW w \in Seq(Procs)
  PROVE  /\ ToWake(w) \subseteq DOMAIN w
         /\ w # <<>> => ToWake(w) # {}
         /\ ToWake(w) # DOMAIN w => \E k \in ToWake(w) : ~WaitUntilFree(w[k])
<1>0. Len(w) \in Nat /\ DOMAIN w = 1 .. Len(w)
  OBVIOUS
<1> DEFINE Wants(k) == ~WaitUntilFree(w[k])
           First(k) == \A j \in 1 .. k - 1 : ~Wants(j)
           Excl(k) == lwWaitMode[w[k]] = "LW_EXCLUSIVE"
           Taken(k) == IF Excl(k) THEN First(k)
                       ELSE \A j \in 1 .. k - 1 : ~(Excl(j) /\ First(j))
<1>1. ToWake(w) = {k \in DOMAIN w : Taken(k)}
  BY Zenon DEF ToWake
<1>2. \A k : Excl(k) => Wants(k)
  BY Zenon DEF WaitUntilFree
<1> HIDE DEF Wants, Excl
<1>3. ASSUME w # <<>> PROVE ToWake(w) # {}
  <2>1. 1 \in DOMAIN w /\ 1 .. 1 - 1 = {}
    BY <1>0, <1>3
  <2> QED
    BY Zenon, <1>1, <2>1
<1>4. ASSUME ToWake(w) # DOMAIN w PROVE \E k \in ToWake(w) : Wants(k)
  <2> DEFINE W == {k \in DOMAIN w : Wants(k)}
  <2>1. PICK k \in DOMAIN w : ~Taken(k)
    BY Zenon, <1>1, <1>4
  <2>2. PICK j \in 1 .. k - 1 : Wants(j)
    BY Zenon, <1>2, <2>1
  <2>3. j \in W /\ W \in SUBSET Nat
    BY <1>0, <2>2
  <2>4. PICK i \in W : \A x \in W : i <= x
    BY Zenon, <2>3, Least
  <2>5. ASSUME NEW x \in 1 .. i - 1 PROVE ~Wants(x)
    BY <1>0, <2>4
  <2>6. i \in DOMAIN w /\ Wants(i) /\ Taken(i)
    BY Zenon, <1>2, <2>4, <2>5
  <2> QED
    BY Zenon, <1>1, <2>6
<1> QED
  BY Zenon, <1>1, <1>3, <1>4 DEF Wants

\* Where LW_FLAG_LOCKED is held; where only LWLockWaitForVar is; where somebody
\* takes itself off the list.
Guarding == {"queue_flag", "queue", "dequeue", "dequeue_unlock", "collect", "wakeup_unlock", "collect_free"}
Reading == {"state1", "value1", "var_ok", "state2", "value2"}
Dequeuing == {"dequeue_lock", "dequeue", "dequeue_unlock", "dequeue_ok", "absorb"}

\* The list has one user at a time.
Guarded ==
  /\ \A p \in Procs : pc[p] \in Guarding => locked
  /\ \A p, q \in Procs : pc[p] \in Guarding /\ pc[q] \in Guarding => p = q

\* What a process's place says of its call and its mode.
Moded(p) ==
  /\ pc[p] \in Queued => lwWaitMode[p] = QueueMode(p)
  /\ pc[p] \in Reading => op[p] = "WaitForVar"
  /\ pc[p] \in Dequeuing => op[p] = "WaitForVar" \/ held[p] # "none"

\* HAS_WAITERS is not cleared while there is somebody on the list.
Flagged ==
  /\ waiters # <<>> => hasWaiters
  /\ \A p \in Procs : pc[p] = "queue" => hasWaiters
  /\ \A p \in Procs : pc[p] = "wakeup_unlock" /\ wakeup[p] = <<>> => waiters = <<>>

\* Those who were taken off have done nothing yet when RELEASE_OK is set.
Fresh == \A p, q \in Procs : pc[p] = "wakeup_unlock" /\ InList(q, wakeup[p]) => pc[q] \in Queued

\* RELEASE_OK is only clear while one that was woken, and that will set it, has not
\* run.
Woken(p) ==
  /\ op[p] = "Acquire"
  /\ (pc[p] \in Queued /\ lwWaiting[p] # "WAITING") \/ pc[p] \in {"retry", "dequeue_ok"}
Suppressed == releaseOk \/ \E p \in Procs : Woken(p)

\* Those who sleep, or have found the lock taken and will, do not do so on a free
\* lock unless somebody is on the way.
Sleeper(q) == pc[q] \in {"sleep", "value2"} /\ lwWaiting[q] = "WAITING"
OnTheWay(p) == AboutToWake(p) \/ AboutToTry(p)
Attended == Free /\ (\E q \in Procs : Sleeper(q)) => \E p \in Procs : OnTheWay(p)

Care ==
  /\ lwWaitMode = [p \in Procs |-> lwWaitMode[p]]
  /\ Guarded /\ (\A p \in Procs : Moded(p)) /\ Flagged /\ Fresh /\ Suppressed /\ Attended

\* What a step of p has to see to.  The others' fields stay, and nobody else begins
\* to wait;
Alone(p, l) ==
  /\ pc' = [pc EXCEPT ![p] = l] /\ lwWaitMode' = [q \in Procs |-> lwWaitMode'[q]]
  /\ \A q \in Procs : q # p =>
       /\ op'[q] = op[q] /\ mode'[q] = mode[q] /\ lwWaitMode'[q] = lwWaitMode[q] /\ held'[q] = held[q]
       /\ lwWaiting'[q] = "WAITING" => lwWaiting[q] = "WAITING"
       /\ pc[q] = "wakeup_unlock" => wakeup'[q] = wakeup[q]

\* the list is used, and HAS_WAITERS cleared, under the lock;
Guards(p, l) ==
  /\ l \in Guarding => locked' /\ (pc[p] \in Guarding \/ ~locked)
  /\ locked => locked' \/ pc[p] \in Guarding
Flags(p, l) ==
  /\ waiters' # <<>> => hasWaiters'
  /\ hasWaiters => hasWaiters' \/ pc[p] \in Guarding
  /\ l = "queue" => hasWaiters'
  /\ waiters' = waiters \/ pc[p] \in Guarding
  /\ l = "wakeup_unlock" => (wakeup'[p] = <<>> => waiters' = <<>>)

\* nobody leaves the queue who is about to be woken, but under the lock;
Stays(p, l) ==
  /\ l = "wakeup_unlock" => \A q \in Procs : InList(q, wakeup'[p]) => pc'[q] \in Queued
  /\ pc[p] \in Queued /\ l \notin Queued => lwWaiting[p] # "PENDING" \/ pc[p] \in Guarding

\* RELEASE_OK is cleared for one that was woken, who sets it again;
Suppresses(p) ==
  \/ releaseOk'
  \/ ~releaseOk /\ (Woken(p) => Woken(p)')
  \/ \E q \in Procs : Woken(q)'

\* and who would be on the way stays so while the lock is free.
Attends(p) ==
  \/ ~Free'
  \/ Free /\ (Sleeper(p)' => Sleeper(p)) /\ (OnTheWay(p) => OnTheWay(p)')
  \/ \E q \in Procs : OnTheWay(q)'
  \/ \A q \in Procs : ~Sleeper(q)'

\* A step that sees to it keeps the invariant.
LEMMA CareStep ==
  ASSUME Lists, Care, NEW p \in Procs, NEW l, Alone(p, l), Guards(p, l), Moded(p)', Flags(p, l),
         Stays(p, l), Suppresses(p), Attends(p)
  PROVE  Care'
<1>1. pc'[p] = l /\ \A q \in Procs : q # p => pc'[q] = pc[q]
  BY Zenon DEF Lists, ListTypes, Alone
<1>g. /\ \A q, r \in Procs : pc[q] \in Guarding /\ pc[r] \in Guarding => q = r
      /\ \A q \in Procs : pc[q] \in Guarding => locked
  BY Zenon DEF Care, Guarded
<1>2. Guarded'
  <2>1. \A q \in Procs : pc'[q] \in Guarding => locked'
    BY Zenon, <1>1, <1>g DEF Guards
  <2>2. ASSUME NEW q \in Procs, NEW r \in Procs, pc'[q] \in Guarding, pc'[r] \in Guarding PROVE q = r
    BY Zenon, <1>1, <1>g, <2>2 DEF Guards
  <2> QED
    BY Zenon, <2>1, <2>2 DEF Guarded
<1>3. ASSUME NEW q \in Procs PROVE Moded(q)'
  <2>1. CASE q # p
    <3>1. Moded(q)
      BY Zenon DEF Care
    <3>2. /\ op'[q] = op[q] /\ mode'[q] = mode[q] /\ lwWaitMode'[q] = lwWaitMode[q] /\ held'[q] = held[q]
          /\ pc'[q] = pc[q]
      BY Zenon, <1>1, <2>1 DEF Alone
    <3>3. QueueMode(q)' = QueueMode(q)
      BY Zenon, <3>2 DEF QueueMode
    <3> QED
      BY Zenon, <3>1, <3>2, <3>3 DEF Moded
  <2> QED
    BY Zenon, <2>1
<1>4. Flagged'
  <2>1. Flagged
    BY Zenon DEF Care
  <2>2. ASSUME NEW q \in Procs, pc'[q] = "queue" PROVE hasWaiters'
    <3>1. "queue" \in Guarding
      BY Zenon DEF Guarding
    <3>2. CASE q # p
      <4>1. pc[q] = "queue" /\ hasWaiters /\ pc[p] \notin Guarding
        BY Zenon, <1>1, <1>g, <2>1, <2>2, <3>1, <3>2 DEF Flagged
      <4> QED
        BY Zenon, <4>1 DEF Flags
    <3> QED
      BY Zenon, <1>1, <2>2, <3>2 DEF Flags
  <2>3. ASSUME NEW q \in Procs, pc'[q] = "wakeup_unlock", wakeup'[q] = <<>> PROVE waiters' = <<>>
    <3>1. "wakeup_unlock" \in Guarding
      BY Zenon DEF Guarding
    <3>2. CASE q # p
      <4>1. pc[q] = "wakeup_unlock" /\ wakeup[q] = <<>> /\ pc[p] \notin Guarding
        <5>1. pc[q] = "wakeup_unlock" /\ pc[p] \notin Guarding
          BY Zenon, <1>1, <1>g, <2>3, <3>1, <3>2
        <5> QED
          BY Zenon, <2>3, <3>2, <5>1 DEF Alone
      <4> QED
        BY Zenon, <2>1, <4>1 DEF Flags, Flagged
    <3> QED
      BY Zenon, <1>1, <2>3, <3>2 DEF Flags
  <2> QED
    BY Zenon, <2>2, <2>3 DEF Flagged, Flags
<1>5. Fresh'
  <2> SUFFICES ASSUME NEW r \in Procs, NEW q \in Procs, pc'[r] = "wakeup_unlock", InList(q, wakeup'[r])
               PROVE  pc'[q] \in Queued
    BY Zenon DEF Fresh, InList
  <2>1. CASE r = p
    BY Zenon, <1>1, <2>1 DEF Stays
  <2>2. CASE r # p
    <3>1. pc[r] = "wakeup_unlock" /\ wakeup'[r] = wakeup[r] /\ InList(q, wakeup[r])
      BY Zenon, <1>1, <2>2 DEF Alone
    <3>2. pc[q] \in Queued
      BY Zenon, <3>1 DEF Care, Fresh
    <3>3. lwWaiting[q] = "PENDING"
      <4>1. Rest(r) = wakeup[r]
        BY Zenon, <3>1 DEF Rest
      <4>2. Pending
        BY Zenon DEF Lists
      <4> QED
        BY <3>1, <4>1, <4>2 DEF Pending
    <3>4. pc[p] \notin Guarding
      <4>1. "wakeup_unlock" \in Guarding
        BY Zenon DEF Guarding
      <4> QED
        BY Zenon, <1>g, <2>2, <3>1, <4>1
    <3> QED
      BY Zenon, <1>1, <3>2, <3>3, <3>4 DEF Stays
  <2> QED
    BY Zenon, <2>1, <2>2
<1>6. Suppressed'
  <2>1. CASE ~releaseOk /\ (Woken(p) => Woken(p)')
    <3>1. PICK q \in Procs : Woken(q)
      BY Zenon, <2>1 DEF Care, Suppressed
    <3>2. q # p => Woken(q)'
      BY Zenon, <1>1, <3>1 DEF Woken, Alone
    <3> QED
      BY Zenon, <2>1, <3>1, <3>2 DEF Suppressed
  <2> QED
    BY Zenon, <2>1 DEF Suppressed, Suppresses
<1>7. Attended'
  <2>1. CASE Free /\ (Sleeper(p)' => Sleeper(p)) /\ (OnTheWay(p) => OnTheWay(p)')
    <3> SUFFICES ASSUME NEW q \in Procs, Sleeper(q)' PROVE \E r \in Procs : OnTheWay(r)'
      BY Zenon DEF Attended
    <3>1. Sleeper(q)
      BY Zenon, <1>1, <2>1 DEF Sleeper, Alone
    <3>2. PICK r \in Procs : OnTheWay(r)
      BY Zenon, <2>1, <3>1 DEF Care, Attended
    <3>3. r # p => OnTheWay(r)'
      BY Zenon, <1>1, <3>2 DEF OnTheWay, AboutToWake, AboutToTry, Alone
    <3> QED
      BY Zenon, <2>1, <3>2, <3>3
  <2> QED
    BY Zenon, <2>1 DEF Attended, Attends
<1> QED
  BY Zenon, <1>2, <1>3, <1>4, <1>5, <1>6, <1>7 DEF Care, Alone

\* Most steps leave the lists, the modes and the state of the lock alone, and go to
\* a place of the same kind.
Quiet(p, l) ==
  /\ pc' = [pc EXCEPT ![p] = l]
  /\ UNCHANGED <<op, mode, lwWaitMode, lwWaiting, wakeup, waiters, held, exclusive, shared>>
  /\ hasWaiters => hasWaiters'
  /\ l = "queue" => hasWaiters'
  /\ releaseOk => releaseOk'
Kindred(p, l) ==
  /\ l # "wakeup_unlock"
  /\ l \in Queued => pc[p] \in Queued
  /\ l \in Reading => op[p] = "WaitForVar"
  /\ l \in Dequeuing => pc[p] \in Dequeuing \/ op[p] = "WaitForVar"
  /\ pc[p] \in Queued /\ l \notin Queued => lwWaiting[p] # "PENDING"
  /\ Woken(p) => releaseOk' \/ l \in Queued \cup {"retry", "dequeue_ok"}
  /\ \/ ~Free
     \/ /\ l \in {"sleep", "value2"} => pc[p] \in {"sleep", "value2"}
        /\ AboutToWake(p) => l \in {"wakeup_lock", "collect"}
        /\ AboutToTry(p) => l \in {"retry", "try1"} \/ (l = "sleep" /\ lwWaiting[p] # "WAITING")

\* Such a step keeps the invariant.
LEMMA CareQuiet ==
  ASSUME Lists, Care, NEW p \in Procs, NEW l, Quiet(p, l), Kindred(p, l), Guards(p, l)
  PROVE  Care'
<1>1. pc'[p] = l
  BY Zenon DEF Lists, ListTypes, Quiet
<1>2. Alone(p, l)
  <2>1. lwWaitMode' = [q \in Procs |-> lwWaitMode'[q]]
    BY Zenon DEF Quiet, Care
  <2> QED
    BY Zenon, <2>1 DEF Quiet, Alone
<1>3. Moded(p)'
  <2>1. Moded(p)
    BY Zenon DEF Care
  <2>2. QueueMode(p)' = QueueMode(p) /\ UNCHANGED <<op, lwWaitMode, held>>
    BY Zenon DEF Quiet, QueueMode
  <2> QED
    BY Zenon, <1>1, <2>1, <2>2 DEF Moded, Kindred
<1>4. Flags(p, l)
  <2>1. waiters # <<>> => hasWaiters
    BY Zenon DEF Care, Flagged
  <2> QED
    BY Zenon, <2>1 DEF Quiet, Kindred, Flags
<1>5. Stays(p, l)
  BY Zenon DEF Kindred, Stays
<1>6. Suppresses(p)
  <2>1. CASE ~releaseOk' /\ Woken(p)
    <3>1. op'[p] = "Acquire" /\ lwWaiting'[p] = lwWaiting[p] /\ ~releaseOk
      BY Zenon, <2>1 DEF Woken, Quiet
    <3>2. l \in Queued \cup {"retry", "dequeue_ok"} /\ (l \in Queued => pc[p] \in Queued)
      BY Zenon, <2>1 DEF Kindred
    <3>3. pc[p] \in Queued => lwWaiting[p] # "WAITING"
      BY Zenon, <2>1 DEF Woken, Queued
    <3>4. Woken(p)'
      BY Zenon, <1>1, <3>1, <3>2, <3>3 DEF Woken
    <3> QED
      BY Zenon, <3>1, <3>4 DEF Suppresses
  <2> QED
    BY Zenon, <2>1 DEF Suppresses, Quiet
<1>7. Attends(p)
  <2>1. Free' = Free
    BY Zenon DEF Free, Quiet
  <2>2. CASE Free
    <3>1. Sleeper(p)' => Sleeper(p)
      BY Zenon, <1>1, <2>2 DEF Sleeper, Kindred, Quiet
    <3>2. AboutToWake(p) => AboutToWake(p)'
      BY Zenon, <1>1, <2>2 DEF AboutToWake, Kindred
    <3>3. AboutToTry(p) => AboutToTry(p)'
      <4>1. ASSUME AboutToTry(p)
            PROVE  l \in {"retry", "try1"} \/ (l = "sleep" /\ lwWaiting[p] # "WAITING")
        BY Zenon, <2>2, <4>1 DEF Kindred
      <4>2. lwWaiting'[p] = lwWaiting[p] /\ op'[p] = op[p]
        BY Zenon DEF Quiet
      <4> QED
        BY Zenon, <1>1, <4>1, <4>2 DEF AboutToTry
    <3> QED
      BY Zenon, <2>2, <3>1, <3>2, <3>3 DEF Attends, OnTheWay
  <2> QED
    BY Zenon, <2>1, <2>2 DEF Attends
<1> QED
  BY Zenon, <1>2, <1>3, <1>4, <1>5, <1>6, <1>7, CareStep

\* The steps of that kind: outside the lock on the list, ...
LEMMA CareOutside ==
  ASSUME Lists, Care, NEW p \in Procs,
         \/ Sleep(p) \/ Retry(p) \/ DequeueOk(p) \/ Absorb(p) \/ Return(p) \/ ReadState(p) \/ ReadValue(p)
         \/ VarReleaseOk(p) \/ ReleaseClearVar(p) \/ (\E v \in Values : UpdateVar(p, v))
         \/ (Wake(p) /\ wakeup[p] = <<>>)
  PROVE  Care'
<1>0. /\ UNCHANGED <<op, mode, lwWaitMode, lwWaiting, wakeup, waiters, held, exclusive, shared>>
      /\ UNCHANGED <<hasWaiters, locked>> /\ (releaseOk' = releaseOk \/ releaseOk' = TRUE)
  BY Zenon DEF Sleep, AfterWait, Retry, DequeueOk, Absorb, Return, ReadState, ReadValue, VarReleaseOk, ReleaseClearVar,
         UpdateVar, Wake, state, call, procs
<1>a. op[p] \in Op /\ Placed(p) /\ Moded(p) /\ pc = [pc EXCEPT ![p] = pc[p]]
      /\ lwWaiting[p] \in {"NOT", "WAITING", "PENDING"}
  BY Zenon DEF Lists, ListTypes, Care
<1>b. ASSUME NEW l, pc' = [pc EXCEPT ![p] = l], l \notin Guarding, Kindred(p, l)
      PROVE  Care'
  <2>1. "queue" \in Guarding
    BY Zenon DEF Guarding
  <2>2. Quiet(p, l) /\ Guards(p, l)
    <3>1. Quiet(p, l)
      BY <1>0, <1>b, <2>1 DEF Quiet
    <3>2. Guards(p, l)
      BY Zenon, <1>0, <1>b DEF Guards
    <3> QED
      BY Zenon, <3>1, <3>2
  <2> QED
    BY Zenon, <1>b, <2>2, CareQuiet
<1> USE DEF Kindred, Guarding, Queued, Reading, Dequeuing, Woken, AboutToWake, AboutToTry, At, Goto
<1>1. CASE Sleep(p)
  <2>1. CASE lwWaiting[p] = "NOT"
    <3>1. PICK l : /\ pc' = [pc EXCEPT ![p] = l] /\ l \in {"retry", "return", "state1"}
                   /\ l = "retry" <=> op[p] = "Acquire"
                   /\ l = "state1" => op[p] = "WaitForVar"
      <4>1. op[p] \in {"Acquire", "AcquireOrWait", "WaitForVar"}
        BY Zenon, <1>1, <1>a DEF Sleep, AfterWait, Op, Placed, Asking
      <4>2. CASE op[p] = "Acquire"
        BY Zenon, <1>1, <2>1, <4>2 DEF Sleep, AfterWait
      <4>3. CASE op[p] = "AcquireOrWait"
        BY Zenon, <1>1, <2>1, <4>3 DEF Sleep, AfterWait
      <4>4. CASE op[p] = "WaitForVar"
        BY Zenon, <1>1, <2>1, <4>4 DEF Sleep, AfterWait
      <4> QED
        BY Zenon, <4>1, <4>2, <4>3, <4>4
    <3>2. pc[p] = "sleep"
      BY Zenon, <1>1 DEF Sleep, AfterWait
    <3>3. Kindred(p, l) /\ l \notin Guarding
      BY Zenon, <2>1, <3>1, <3>2
    <3> QED
      BY Zenon, <1>b, <3>1, <3>3
  <2>2. CASE lwWaiting[p] # "NOT"
    <3>1. pc[p] = "sleep" /\ pc' = [pc EXCEPT ![p] = "sleep"]
      BY Zenon, <1>1, <1>a, <2>2 DEF Sleep, AfterWait
    <3> QED
      BY Zenon, <1>b, <3>1
  <2> QED
    BY Zenon, <2>1, <2>2
<1>2. CASE Retry(p)
  <2>1. pc[p] = "retry" /\ pc' = [pc EXCEPT ![p] = "try1"] /\ releaseOk'
    BY Zenon, <1>2 DEF Retry
  <2> QED
    BY Zenon, <1>b, <2>1
<1>3. CASE DequeueOk(p)
  <2>1. pc[p] = "dequeue_ok" /\ pc' = [pc EXCEPT ![p] = "absorb"] /\ releaseOk'
    BY Zenon, <1>3 DEF DequeueOk
  <2> QED
    BY Zenon, <1>b, <2>1
<1>4. CASE Absorb(p) \/ Return(p) \/ ReleaseClearVar(p) \/ (\E v \in Values : UpdateVar(p, v))
           \/ (Wake(p) /\ wakeup[p] = <<>>)
  <2>1. PICK l : /\ pc' = [pc EXCEPT ![p] = l] /\ l \in {"absorb", "return", "idle", "clear", "update_lock"}
                 /\ pc[p] \in {"absorb", "return", "idle", "wake"} /\ (l = "absorb" => pc[p] = "absorb")
    BY Zenon, <1>4, <1>a DEF Absorb, Return, ReleaseClearVar, UpdateVar, Wake
  <2>2. Kindred(p, l) /\ l \notin Guarding
    BY Zenon, <2>1
  <2> QED
    BY Zenon, <1>b, <2>1, <2>2
<1>5. CASE ReadState(p)
  <2>1. PICK l : /\ pc' = [pc EXCEPT ![p] = l] /\ l \in {"value1", "return", "value2", "dequeue_lock"}
                 /\ pc[p] = (IF l \in {"value1", "return"} THEN "state1" ELSE "state2")
                 /\ l \in {"value1", "value2"} => exclusive
    <3>1. PICK l : /\ pc' = [pc EXCEPT ![p] = l]
                   /\ l = CASE exclusive /\ At(p, "state1") -> "value1"
                            [] exclusive /\ At(p, "state2") -> "value2"
                            [] ~exclusive /\ At(p, "state1") -> "return"
                            [] ~exclusive /\ At(p, "state2") -> "dequeue_lock"
      BY Zenon, <1>5 DEF ReadState
    <3>2. pc[p] \in {"state1", "state2"}
      BY Zenon, <1>5 DEF ReadState
    <3>3. /\ l \in {"value1", "return", "value2", "dequeue_lock"}
          /\ pc[p] = (IF l \in {"value1", "return"} THEN "state1" ELSE "state2")
          /\ l \in {"value1", "value2"} => exclusive
      BY Zenon, <3>1, <3>2
    <3> QED
      BY Zenon, <3>1, <3>3
  <2>2. op[p] = "WaitForVar"
    BY Zenon, <1>a, <2>1 DEF Moded
  <2>3. Kindred(p, l) /\ l \notin Guarding
    BY Zenon, <2>1, <2>2 DEF Free
  <2> QED
    BY Zenon, <1>b, <2>1, <2>3
<1>6. CASE ReadValue(p)
  <2>1. PICK l : /\ pc' = [pc EXCEPT ![p] = l] /\ l \in {"queue_lock", "return", "sleep", "dequeue_lock"}
                 /\ pc[p] = (IF l \in {"queue_lock", "return"} THEN "value1" ELSE "value2")
    <3>1. PICK l : /\ pc' = [pc EXCEPT ![p] = l]
                   /\ l = CASE value = oldval[p] /\ At(p, "value1") -> "queue_lock"
                            [] value = oldval[p] /\ At(p, "value2") -> "sleep"
                            [] value # oldval[p] /\ At(p, "value1") -> "return"
                            [] value # oldval[p] /\ At(p, "value2") -> "dequeue_lock"
      BY Zenon, <1>6 DEF ReadValue
    <3>2. pc[p] \in {"value1", "value2"}
      BY Zenon, <1>6 DEF ReadValue
    <3>3. /\ l \in {"queue_lock", "return", "sleep", "dequeue_lock"}
          /\ pc[p] = (IF l \in {"queue_lock", "return"} THEN "value1" ELSE "value2")
      BY Zenon, <3>1, <3>2
    <3> QED
      BY Zenon, <3>1, <3>3
  <2>2. op[p] = "WaitForVar"
    BY Zenon, <1>a, <2>1 DEF Moded
  <2>3. Kindred(p, l) /\ l \notin Guarding
    BY Zenon, <2>1, <2>2
  <2> QED
    BY Zenon, <1>b, <2>1, <2>3
<1>7. CASE VarReleaseOk(p)
  <2>1. pc[p] = "var_ok" /\ pc' = [pc EXCEPT ![p] = "state2"] /\ releaseOk'
    BY Zenon, <1>7 DEF VarReleaseOk
  <2>2. op[p] = "WaitForVar"
    BY Zenon, <1>a, <2>1 DEF Moded
  <2> QED
    BY Zenon, <1>b, <2>1, <2>2
<1> QED
  BY Zenon, <1>1, <1>2, <1>3, <1>4, <1>5, <1>6, <1>7

\* ... and those that take the lock on the list or keep it.
LEMMA CareInside ==
  ASSUME Lists, Care, NEW p \in Procs, WaitListLock(p) \/ QueueFlag(p)
  PROVE  Care'
<1> USE DEF Kindred, Guarding, Queued, Reading, Dequeuing, Woken, AboutToWake, AboutToTry, At, Goto
<1>1. CASE WaitListLock(p)
  <2>1. /\ UNCHANGED <<op, mode, lwWaitMode, lwWaiting, wakeup, waiters, held, exclusive, shared>>
        /\ UNCHANGED <<hasWaiters, releaseOk>> /\ ~locked /\ locked' = TRUE
        /\ pc[p] \in {"queue_lock", "dequeue_lock", "wakeup_lock", "update_lock"}
    BY Zenon, <1>1 DEF WaitListLock, call, procs
  <2>2. PICK l : /\ pc' = [pc EXCEPT ![p] = l]
                 /\ l = CASE At(p, "queue_lock") -> "queue_flag"
                          [] At(p, "dequeue_lock") -> "dequeue"
                          [] At(p, "wakeup_lock") -> "collect"
                          [] At(p, "update_lock") -> "collect_free"
    BY Zenon, <1>1 DEF WaitListLock
  <2>3. /\ l \in {"queue_flag", "dequeue", "collect", "collect_free"}
        /\ (l = "dequeue" <=> pc[p] = "dequeue_lock") /\ (l = "collect" <=> pc[p] = "wakeup_lock")
    BY Zenon, <2>1, <2>2
  <2>4. Kindred(p, l)
    BY Zenon, <2>1, <2>3
  <2>5. Quiet(p, l)
    BY Zenon, <2>1, <2>2, <2>3 DEF Quiet
  <2>6. Guards(p, l)
    BY Zenon, <2>1 DEF Guards
  <2> QED
    BY Zenon, <2>4, <2>5, <2>6, CareQuiet
<1>2. CASE QueueFlag(p)
  <2>1. /\ UNCHANGED <<op, mode, lwWaitMode, lwWaiting, wakeup, waiters, held, exclusive, shared>>
        /\ UNCHANGED <<locked, releaseOk>> /\ hasWaiters' = TRUE
        /\ pc[p] = "queue_flag" /\ pc' = [pc EXCEPT ![p] = "queue"]
    BY Zenon, <1>2 DEF QueueFlag, call, procs
  <2>2. Kindred(p, "queue")
    BY Zenon, <2>1
  <2>3. Quiet(p, "queue")
    BY Zenon, <2>1 DEF Quiet
  <2>4. locked
    BY Zenon, <2>1 DEF Care, Guarded
  <2>5. Guards(p, "queue")
    BY Zenon, <2>1, <2>4 DEF Guards
  <2> QED
    BY Zenon, <2>2, <2>3, <2>5, CareQuiet
<1> QED
  BY Zenon, <1>1, <1>2

\* Nothing that matters here happens.
LEMMA CareFrame ==
  ASSUME Care, UNCHANGED <<pc, op, mode, lwWaitMode, lwWaiting, wakeup, waiters, held>>,
         UNCHANGED <<exclusive, shared, hasWaiters, releaseOk, locked>>
  PROVE  Care'
<1>1. Guarded' /\ Flagged'
  BY Zenon DEF Care, Guarded, Flagged
<1>2. ASSUME NEW p \in Procs PROVE Moded(p)'
  BY Zenon DEF Care, Moded, QueueMode
<1>3. Fresh'
  BY Zenon DEF Care, Fresh, InList
<1>4. Suppressed'
  BY Zenon DEF Care, Suppressed, Woken
<1>5. \A p \in Procs : (Sleeper(p)' <=> Sleeper(p)) /\ (OnTheWay(p)' <=> OnTheWay(p))
  BY Zenon DEF Sleeper, OnTheWay, AboutToTry, AboutToWake
<1>6. Attended'
  BY Zenon, <1>5 DEF Care, Attended, Free
<1>7. lwWaitMode' = [p \in Procs |-> lwWaitMode'[p]]
  BY Zenon DEF Care
<1> QED
  BY Zenon, <1>1, <1>2, <1>3, <1>4, <1>6, <1>7 DEF Care

\* Who does not sleep and is not on the way does not matter to those who sleep.
LEMMA Aside ==
  ASSUME Lists, NEW p \in Procs, NEW l, Alone(p, l), UNCHANGED <<exclusive, shared>>,
         pc[p] \notin {"try1", "retry", "try2", "sleep", "wakeup_lock", "collect"}, l \notin {"sleep", "value2"}
  PROVE  Attends(p)
<1>1. pc'[p] = l
  BY Zenon DEF Lists, ListTypes, Alone
<1>2. ~Sleeper(p)'
  BY Zenon, <1>1 DEF Sleeper
<1>3. ~OnTheWay(p)
  BY Zenon DEF OnTheWay, AboutToWake, AboutToTry
<1>4. Free' = Free
  BY Zenon DEF Free
<1> QED
  BY Zenon, <1>2, <1>3, <1>4 DEF Attends

\* A process calls; it was in no call.
LEMMA CareCall ==
  ASSUME HoldSteps, Lists, Care, NEW p \in Procs, NEW o, NEW m, NEW old, Call(p, o, m, old)
  PROVE  Care'
<1>1. PICK l : pc' = [pc EXCEPT ![p] = l] /\ l = IF o = "WaitForVar" THEN "state1" ELSE "try1"
  BY Zenon DEF Call, Goto
<1>2. /\ pc[p] = "idle" /\ op' = [op EXCEPT ![p] = o] /\ mode' = [mode EXCEPT ![p] = m]
      /\ UNCHANGED <<exclusive, shared, hasWaiters, releaseOk, locked, waiters, lwWaiting, lwWaitMode, wakeup, held>>
  BY Zenon DEF Call, At, state, procs
<1>3. op \in [Procs -> Op] /\ mode \in [Procs -> Mode] /\ pc = [q \in Procs |-> pc[q]]
  BY Zenon DEF HoldSteps, Lists, ListTypes
<1>4. Alone(p, l)
  BY Zenon, <1>1, <1>2, <1>3 DEF Alone, Care
<1>5. op'[p] = o /\ pc'[p] = l /\ l \in {"state1", "try1"} /\ (l = "state1" <=> o = "WaitForVar")
  BY Zenon, <1>1, <1>2, <1>3
<1>6. Moded(p)'
  BY Zenon, <1>5 DEF Moded, Queued, Reading, Dequeuing
<1>7. Guards(p, l) /\ Stays(p, l)
  BY Zenon, <1>2, <1>5 DEF Guards, Stays, Guarding, Queued
<1>8. Flags(p, l)
  BY Zenon, <1>2, <1>5 DEF Flags, Care, Flagged
<1>9. Suppresses(p)
  BY Zenon, <1>2 DEF Suppresses, Woken, Queued
<1>10. Attends(p)
  BY Zenon, <1>2, <1>4, <1>5, Aside
<1> QED
  BY Zenon, <1>4, <1>6, <1>7, <1>8, <1>9, <1>10, CareStep

\* It queues itself, ...
LEMMA CareQueue == ASSUME Lists, Care, NEW p \in Procs, QueueSelf(p) PROVE Care'
<1>1. PICK l : pc' = [pc EXCEPT ![p] = l] /\ l = IF op[p] = "WaitForVar" THEN "var_ok" ELSE "try2"
  BY Zenon DEF QueueSelf, Goto
<1>2. /\ pc[p] = "queue" /\ lwWaiting' = [lwWaiting EXCEPT ![p] = "WAITING"]
      /\ lwWaitMode' = [lwWaitMode EXCEPT ![p] = QueueMode(p)]
      /\ UNCHANGED <<exclusive, shared, hasWaiters, releaseOk, op, mode, wakeup, held>>
  BY Zenon DEF QueueSelf, At, call
<1>3. /\ lwWaiting \in [Procs -> {"NOT", "WAITING", "PENDING"}] /\ lwWaitMode = [q \in Procs |-> lwWaitMode[q]]
      /\ pc = [q \in Procs |-> pc[q]]
  BY Zenon DEF Lists, ListTypes, Care
<1>4. Alone(p, l)
  BY Zenon, <1>1, <1>2, <1>3 DEF Alone
<1>5. /\ pc'[p] = l /\ l \in {"var_ok", "try2"} /\ (l = "var_ok" <=> op[p] = "WaitForVar")
      /\ lwWaitMode'[p] = QueueMode(p) /\ pc[p] \in Guarding
  BY Zenon, <1>1, <1>2, <1>3 DEF Guarding
<1>6. Moded(p)'
  <2>1. QueueMode(p)' = QueueMode(p)
    BY Zenon, <1>2 DEF QueueMode
  <2> QED
    BY Zenon, <1>2, <1>5, <2>1 DEF Moded, Reading, Dequeuing
<1>7. Guards(p, l) /\ Stays(p, l)
  BY Zenon, <1>2, <1>5 DEF Guards, Stays, Guarding, Queued
<1>8. Flags(p, l)
  <2>1. hasWaiters'
    BY Zenon, <1>2 DEF Care, Flagged
  <2> QED
    BY Zenon, <1>5, <2>1 DEF Flags
<1>9. Suppresses(p)
  BY Zenon, <1>2 DEF Suppresses, Woken, Queued
<1>10. Attends(p)
  BY Zenon, <1>2, <1>4, <1>5, Aside
<1> QED
  BY Zenon, <1>4, <1>6, <1>7, <1>8, <1>9, <1>10, CareStep

\* What is taken of an empty list is nothing.
LEMMA PickSome ==
  ASSUME NEW w \in Seq(Procs), NEW K
  PROVE  Pick(w, K) # <<>> <=> \E k \in DOMAIN w : k \in K
<1> DEFINE v == Pick(w, K)
<1>1. v \in Seq(Procs) /\ \A q : InList(q, v) <=> \E k \in DOMAIN w : k \in K /\ w[k] = q
  BY PickIs
<1> HIDE DEF v
<1>2. ASSUME v # <<>> PROVE \E k \in DOMAIN w : k \in K
  <2>1. 1 \in DOMAIN v
    BY <1>1, <1>2
  <2> QED
    BY Zenon, <1>1, <2>1 DEF InList
<1>3. ASSUME NEW k \in DOMAIN w, k \in K PROVE v # <<>>
  <2>1. InList(w[k], v)
    BY Zenon, <1>1, <1>3
  <2> QED
    BY Zenon, <2>1, NobodyIn
<1> QED
  BY Zenon, <1>2, <1>3 DEF v

\* ... takes itself off the list, ...
LEMMA CareDequeue == ASSUME Lists, Care, NEW p \in Procs, Dequeue(p) PROVE Care'
<1>1. /\ pc[p] = "dequeue" /\ pc' = [pc EXCEPT ![p] = "dequeue_unlock"]
      /\ waiters' = Pick(waiters, {k \in DOMAIN waiters : waiters[k] # p})
      /\ hasWaiters' = (hasWaiters /\ waiters' # <<>>)
      /\ UNCHANGED <<exclusive, shared, releaseOk, locked, lwWaiting, lwWaitMode, op, mode, wakeup, held>>
  BY Zenon DEF Dequeue, At, Goto, call, procs
<1>2. waiters \in Seq(Procs) /\ pc'[p] = "dequeue_unlock" /\ pc[p] \in Guarding
  BY Zenon, <1>1 DEF Lists, ListTypes, Guarding
<1>3. Alone(p, "dequeue_unlock")
  BY Zenon, <1>1 DEF Alone, Care
<1>4. Moded(p)'
  <2>1. Moded(p) /\ QueueMode(p)' = QueueMode(p)
    BY Zenon, <1>1 DEF Care, QueueMode
  <2> QED
    BY Zenon, <1>1, <1>2, <2>1 DEF Moded, Queued, Reading, Dequeuing
<1>5. Guards(p, "dequeue_unlock") /\ Stays(p, "dequeue_unlock")
  <2>1. locked
    BY Zenon, <1>2 DEF Care, Guarded
  <2> QED
    BY Zenon, <1>1, <1>2, <2>1 DEF Guards, Stays, Queued
<1>6. Flags(p, "dequeue_unlock")
  <2>1. waiters' # <<>> => waiters # <<>>
    BY <1>1, <1>2, PickSome
  <2>2. waiters' # <<>> => hasWaiters'
    BY Zenon, <1>1, <2>1 DEF Care, Flagged
  <2> QED
    BY Zenon, <1>2, <2>2 DEF Flags
<1>7. Suppresses(p)
  BY Zenon, <1>1, <1>2 DEF Suppresses, Woken, Queued
<1>8. Attends(p)
  BY Zenon, <1>1, <1>3, Aside
<1> QED
  BY Zenon, <1>3, <1>4, <1>5, <1>6, <1>7, <1>8, CareStep

\* ... and does not wait any more, or finds that it is about to be woken.
LEMMA CareUnlock == ASSUME Lists, Care, NEW p \in Procs, DequeueUnlock(p) PROVE Care'
<1>1. /\ pc[p] = "dequeue_unlock"
      /\ UNCHANGED <<exclusive, shared, hasWaiters, releaseOk, waiters, lwWaitMode, op, mode, wakeup, held>>
  BY Zenon DEF DequeueUnlock, At, call
<1>2. PICK l : /\ pc' = [pc EXCEPT ![p] = l] /\ l = IF lwWaiting[p] = "WAITING" THEN "return" ELSE "dequeue_ok"
               /\ lwWaiting' = [lwWaiting EXCEPT ![p] = IF lwWaiting[p] = "WAITING" THEN "NOT" ELSE @]
  BY Zenon DEF DequeueUnlock, Goto, Lists, ListTypes
<1>3. lwWaiting \in [Procs -> {"NOT", "WAITING", "PENDING"}] /\ pc = [q \in Procs |-> pc[q]]
  BY Zenon DEF Lists, ListTypes
<1>4. /\ pc'[p] = l /\ l \in {"return", "dequeue_ok"} /\ (l = "return" <=> lwWaiting[p] = "WAITING")
      /\ pc[p] \in Guarding /\ \A q \in Procs : q # p => lwWaiting'[q] = lwWaiting[q]
  BY Zenon, <1>1, <1>2, <1>3 DEF Guarding
<1>5. Alone(p, l)
  BY Zenon, <1>1, <1>2, <1>4 DEF Alone, Care
<1>6. Moded(p)'
  <2>1. Moded(p)
    BY Zenon DEF Care
  <2> QED
    BY Zenon, <1>1, <1>4, <2>1 DEF Moded, Queued, Reading, Dequeuing
<1>7. Guards(p, l) /\ Stays(p, l)
  BY Zenon, <1>4 DEF Guards, Stays, Guarding
<1>8. Flags(p, l)
  BY Zenon, <1>1, <1>4 DEF Flags, Care, Flagged
<1>9. Suppresses(p)
  BY Zenon, <1>1, <1>4 DEF Suppresses, Woken, Queued
<1>10. Attends(p)
  BY Zenon, <1>1, <1>4, <1>5, Aside
<1> QED
  BY Zenon, <1>5, <1>6, <1>7, <1>8, <1>9, <1>10, CareStep

\* A waker wakes those it took off.
LEMMA CareWake ==
  ASSUME Lists, Care, NEW p \in Procs, (Wake(p) /\ wakeup[p] # <<>>) \/ Post(p)
  PROVE  Care'
<1>1. /\ pc[p] \in {"wake", "post"}
      /\ UNCHANGED <<exclusive, shared, hasWaiters, releaseOk, locked, waiters, lwWaitMode, op, mode, held>>
  BY Zenon DEF Wake, Post, At, state, call
<1>2. PICK l \in {"wake", "post"} : pc' = [pc EXCEPT ![p] = l]
  BY Zenon DEF Wake, Post, Goto
<1>3. \A q \in Procs : q # p => wakeup'[q] = wakeup[q]
  BY Zenon DEF Wake, Post, Lists, ListTypes
<1>4. \A q \in Procs : lwWaiting'[q] = "WAITING" => lwWaiting[q] = "WAITING"
  BY Zenon DEF Wake, Post, Lists, ListTypes
<1>5. Alone(p, l) /\ pc'[p] = l
  BY Zenon, <1>1, <1>2, <1>3, <1>4 DEF Alone, Care, Lists, ListTypes
<1>6. Moded(p)'
  BY Zenon, <1>2, <1>5 DEF Moded, Queued, Reading, Dequeuing
<1>7. Guards(p, l) /\ Stays(p, l)
  BY Zenon, <1>1, <1>2 DEF Guards, Stays, Guarding, Queued
<1>8. Flags(p, l)
  BY Zenon, <1>1, <1>2 DEF Flags, Care, Flagged
<1>9. Suppresses(p)
  BY Zenon, <1>1 DEF Suppresses, Woken, Queued
<1>10. Attends(p)
  BY Zenon, <1>1, <1>2, <1>5, Aside
<1> QED
  BY Zenon, <1>5, <1>6, <1>7, <1>8, <1>9, <1>10, CareStep

\* RELEASE_OK is cleared when one of them wants the lock, HAS_WAITERS when nobody is
\* left.
LEMMA CareWakeupUnlock == ASSUME Lists, Care, NEW p \in Procs, WakeupUnlock(p) PROVE Care'
<1>1. /\ pc[p] = "wakeup_unlock" /\ pc' = [pc EXCEPT ![p] = "wake"]
      /\ releaseOk' = \A k \in DOMAIN wakeup[p] : WaitUntilFree(wakeup[p][k])
      /\ hasWaiters' = (hasWaiters /\ wakeup[p] # <<>>)
      /\ UNCHANGED <<exclusive, shared, waiters, lwWaiting, lwWaitMode, op, mode, wakeup, held>>
  BY Zenon DEF WakeupUnlock, At, Goto, call, procs
<1>2. pc'[p] = "wake" /\ (\A q \in Procs : q # p => pc'[q] = pc[q]) /\ pc[p] \in Guarding /\ "wake" \notin Guarding
  BY Zenon, <1>1 DEF Lists, ListTypes, Guarding
<1>3. Alone(p, "wake")
  BY Zenon, <1>1 DEF Alone, Care
<1>4. Moded(p)'
  BY Zenon, <1>2 DEF Moded, Queued, Reading, Dequeuing
<1>5. Guards(p, "wake") /\ Stays(p, "wake")
  BY Zenon, <1>2 DEF Guards, Stays
<1>6. Flags(p, "wake")
  <2>1. waiters' # <<>> => hasWaiters'
    BY Zenon, <1>1 DEF Care, Flagged
  <2> QED
    BY Zenon, <1>2, <2>1 DEF Flags
<1>7. Suppresses(p)
  <2>1. ASSUME ~releaseOk' PROVE \E q \in Procs : Woken(q)'
    <3>1. PICK k \in DOMAIN wakeup[p] : ~WaitUntilFree(wakeup[p][k])
      BY Zenon, <1>1, <2>1
    <3>2. PICK q \in Procs : q = wakeup[p][k]
      BY <3>1 DEF Lists, ListTypes
    <3>3. InList(q, wakeup[p])
      BY Zenon, <3>1, <3>2 DEF InList
    <3>4. pc[q] \in Queued
      BY Zenon, <1>1, <3>3 DEF Care, Fresh
    <3>5. lwWaiting[q] = "PENDING"
      <4>1. Rest(p) = wakeup[p] /\ Pending
        BY Zenon, <1>1 DEF Rest, Lists
      <4> QED
        BY <3>3, <4>1 DEF Pending
    <3>6. op[q] = "Acquire"
      <4>1. Moded(q)
        BY Zenon DEF Care
      <4> QED
        BY Zenon, <3>1, <3>2, <3>4, <4>1 DEF Moded, QueueMode, WaitUntilFree
    <3>7. q # p
      BY Zenon, <1>1, <3>4 DEF Queued
    <3>8. pc'[q] \in Queued /\ op'[q] = "Acquire" /\ lwWaiting'[q] # "WAITING"
      BY Zenon, <1>1, <1>2, <3>4, <3>5, <3>6, <3>7
    <3> QED
      BY Zenon, <3>8 DEF Woken
  <2> QED
    BY Zenon, <2>1 DEF Suppresses
<1>8. Attends(p)
  BY Zenon, <1>1, <1>3, Aside
<1> QED
  BY Zenon, <1>3, <1>4, <1>5, <1>6, <1>7, <1>8, CareStep

\* Those LWLockUpdateVar takes off ...
LEMMA CareCollectFree == ASSUME Lists, Care, NEW p \in Procs, CollectFree(p) PROVE Care'
<1> DEFINE K == {k \in DOMAIN waiters : \A j \in 1 .. k : WaitUntilFree(waiters[j])}
<1>1. /\ pc[p] = "collect_free" /\ pc' = [pc EXCEPT ![p] = "wake"] /\ TakeOff(p, K)
      /\ UNCHANGED <<exclusive, shared, hasWaiters, releaseOk, lwWaitMode, op, mode, held>>
  BY Zenon DEF CollectFree, At, Goto, call
<1> HIDE DEF K
<1>2. pc'[p] = "wake" /\ pc[p] \in Guarding /\ "wake" \notin Guarding /\ waiters \in Seq(Procs)
  BY Zenon, <1>1 DEF Lists, ListTypes, Guarding
<1>3. \A q \in Procs : q # p => wakeup'[q] = wakeup[q]
  BY Zenon, <1>1 DEF TakeOff, Lists, ListTypes
<1>4. \A q \in Procs : lwWaiting'[q] = "WAITING" => lwWaiting[q] = "WAITING"
  BY Zenon, <1>1 DEF TakeOff
<1>5. Alone(p, "wake")
  BY Zenon, <1>1, <1>3, <1>4 DEF Alone, Care
<1>6. Moded(p)'
  BY Zenon, <1>2 DEF Moded, Queued, Reading, Dequeuing
<1>7. Guards(p, "wake") /\ Stays(p, "wake")
  BY Zenon, <1>2 DEF Guards, Stays
<1>8. Flags(p, "wake")
  <2>1. waiters' # <<>> => waiters # <<>>
    BY <1>1, <1>2, PickSome DEF TakeOff
  <2> QED
    BY Zenon, <1>1, <1>2, <2>1 DEF Flags, Care, Flagged
<1>9. Suppresses(p)
  BY Zenon, <1>1 DEF Suppresses, Woken, Queued
<1>10. Attends(p)
  BY Zenon, <1>1, <1>5, Aside
<1> QED
  BY Zenon, <1>5, <1>6, <1>7, <1>8, <1>9, <1>10, CareStep

\* A lock that somebody has is not free.
LEMMA HeldNotFree == ASSUME HoldSteps, NEW p \in Procs, held[p] # "none" PROVE ~Free
<1>1. held[p] \in {"LW_SHARED", "LW_EXCLUSIVE"}
  BY Zenon DEF HoldSteps, Mode
<1>2. CASE held[p] = "LW_EXCLUSIVE"
  BY Zenon, <1>2 DEF HoldSteps, Holders, Free
<1>3. CASE held[p] = "LW_SHARED"
  <2>1. Holders("LW_SHARED") # {}
    BY Zenon, <1>3 DEF Holders
  <2>2. shared # 0
    BY Zenon, <2>1, HoldersFinite DEF HoldSteps
  <2> QED
    BY Zenon, <2>2 DEF Free
<1> QED
  BY Zenon, <1>1, <1>2, <1>3

\* Who is queued for a free lock that it wants is about to try or to sleep.
LEMMA WantsFree ==
  ASSUME HoldSteps, Care, Free, NEW q \in Procs, pc[q] \in Queued, op[q] = "Acquire"
  PROVE  pc[q] \in {"try2", "sleep"}
<1>1. Moded(q)
  BY Zenon DEF Care
<1>2. held[q] = "none"
  BY Zenon, HeldNotFree
<1>3. pc[q] \notin Reading /\ pc[q] \notin Dequeuing
  BY Zenon, <1>1, <1>2 DEF Moded
<1> QED
  BY Zenon, <1>3 DEF Queued, Reading, Dequeuing

\* ... and those LWLockWakeup does: who is left has one before it that wants the
\* lock, and now tries.
LEMMA CareCollect == ASSUME HoldSteps, Lists, Care, NEW p \in Procs, Collect(p) PROVE Care'
<1> DEFINE K == ToWake(waiters)
<1>1. /\ pc[p] = "collect" /\ pc' = [pc EXCEPT ![p] = "wakeup_unlock"] /\ TakeOff(p, K)
      /\ UNCHANGED <<exclusive, shared, hasWaiters, releaseOk, locked, lwWaitMode, op, mode, held>>
  BY Zenon DEF Collect, At, Goto, call, state
<1>2. /\ waiters \in Seq(Procs) /\ wakeup \in [Procs -> Seq(Procs)]
      /\ pc'[p] = "wakeup_unlock" /\ \A q \in Procs : q # p => pc'[q] = pc[q]
  BY Zenon, <1>1 DEF Lists, ListTypes
<1>3. /\ K \subseteq DOMAIN waiters /\ (waiters # <<>> => K # {})
      /\ K # DOMAIN waiters => \E k \in K : ~WaitUntilFree(waiters[k])
  BY Zenon, <1>2, WakeSome
<1> HIDE DEF K
<1>4. /\ wakeup'[p] = Pick(waiters, K) /\ waiters' = Pick(waiters, DOMAIN waiters \ K)
      /\ \A q \in Procs : q # p => wakeup'[q] = wakeup[q]
      /\ \A q \in Procs : lwWaiting'[q] = IF \E k \in K : waiters[k] = q THEN "PENDING" ELSE lwWaiting[q]
  BY Zenon, <1>1, <1>2 DEF TakeOff
<1>5. \A q \in Procs : lwWaiting'[q] = "WAITING" => lwWaiting[q] = "WAITING" /\ ~\E k \in K : waiters[k] = q
  BY Zenon, <1>4
<1>6. Alone(p, "wakeup_unlock")
  BY Zenon, <1>1, <1>4, <1>5 DEF Alone, Care
<1>7. Moded(p)'
  BY Zenon, <1>2 DEF Moded, Queued, Reading, Dequeuing
<1>g. pc[p] \in Guarding /\ locked
  BY Zenon, <1>1 DEF Guarding, Care, Guarded
<1>8. Guards(p, "wakeup_unlock")
  BY Zenon, <1>1, <1>g DEF Guards
<1>9. ASSUME NEW q \in Procs, InList(q, waiters)
      PROVE  pc[q] \in Queued /\ q # p /\ pc'[q] = pc[q]
  <2>1. pc[q] \in Queued
    BY Zenon, <1>9 DEF Lists, Placed
  <2>2. q # p
    BY Zenon, <1>1, <2>1 DEF Queued
  <2> QED
    BY Zenon, <1>2, <2>1, <2>2
<1>10. Stays(p, "wakeup_unlock")
  <2>1. ASSUME NEW q \in Procs, InList(q, wakeup'[p]) PROVE pc'[q] \in Queued
    <3>1. InList(q, waiters)
      <4>1. InList(q, Pick(waiters, K))
        BY Zenon, <1>4, <2>1 DEF InList
      <4>2. InList(q, Pick(waiters, K)) <=> \E k \in DOMAIN waiters : k \in K /\ waiters[k] = q
        BY <1>2, PickIs
      <4> QED
        BY Zenon, <4>1, <4>2 DEF InList
    <3> QED
      BY Zenon, <1>9, <3>1
  <2> QED
    BY Zenon, <1>g, <2>1 DEF Stays
<1>11. Flags(p, "wakeup_unlock")
  <2>1. waiters' # <<>> => waiters # <<>>
    BY <1>2, <1>4, PickSome
  <2>2. wakeup'[p] = <<>> => waiters = <<>>
    <3>1. Pick(waiters, K) # <<>> <=> \E k \in DOMAIN waiters : k \in K
      BY Zenon, <1>2, PickSome
    <3> QED
      BY Zenon, <1>3, <1>4, <3>1
  <2>3. waiters # <<>> => hasWaiters
    BY Zenon DEF Care, Flagged
  <2>4. "wakeup_unlock" # "queue"
    BY Zenon
  <2> QED
    BY Zenon, <1>1, <1>g, <2>1, <2>2, <2>3, <2>4 DEF Flags
<1>12. Suppresses(p)
  BY Zenon, <1>1 DEF Suppresses, Woken, Queued
<1>13. Attends(p)
  <2> SUFFICES ASSUME Free', NEW q \in Procs, Sleeper(q)' PROVE \E r \in Procs : OnTheWay(r)'
    BY Zenon DEF Attends
  <2>1. q # p /\ lwWaiting[q] = "WAITING" /\ (~\E k \in K : waiters[k] = q) /\ pc[q] # "dequeue_unlock"
    BY Zenon, <1>2, <1>5 DEF Sleeper
  <2>2. InList(q, waiters)
    BY Zenon, <2>1 DEF Lists, Placed
  <2>3. K # DOMAIN waiters
    BY Zenon, <2>1, <2>2 DEF InList
  <2>4. PICK k \in K : ~WaitUntilFree(waiters[k])
    BY Zenon, <1>3, <2>3
  <2>5. PICK r \in Procs : r = waiters[k]
    BY <1>2, <1>3, <2>4
  <2>6. InList(r, waiters) /\ lwWaiting'[r] = "PENDING"
    BY Zenon, <1>3, <1>4, <2>4, <2>5 DEF InList
  <2>7. pc[r] \in Queued /\ pc'[r] = pc[r]
    BY Zenon, <1>9, <2>6
  <2>8. op[r] = "Acquire"
    <3>1. Moded(r)
      BY Zenon DEF Care
    <3> QED
      BY Zenon, <2>4, <2>5, <2>7, <3>1 DEF Moded, QueueMode, WaitUntilFree
  <2>9. Free
    BY Zenon, <1>1 DEF Free
  <2>10. pc'[r] \in {"try2", "sleep"}
    BY Zenon, <2>7, <2>8, <2>9, WantsFree
  <2>11. AboutToTry(r)'
    <3>1. op'[r] = "Acquire" /\ lwWaiting'[r] # "WAITING"
      BY Zenon, <1>1, <2>6, <2>8
    <3> QED
      BY Zenon, <2>10, <3>1 DEF AboutToTry
  <2> QED
    BY Zenon, <2>11 DEF OnTheWay
<1> QED
  BY Zenon, <1>6, <1>7, <1>8, <1>10, <1>11, <1>12, <1>13, CareStep

\* Who tries gets a free lock.
LEMMA CareTry == ASSUME HoldSteps, Lists, Care, NEW p \in Procs, Try1(p) \/ Try2(p) PROVE Care'
<1>1. PICK got, failed :
        /\ AttemptLock(p, got, failed)
        /\ \/ pc[p] = "try1" /\ got = "return" /\ failed \in {"return", "queue_lock"}
           \/ pc[p] = "try2" /\ got = "dequeue_lock" /\ failed = "sleep"
  <2>1. CASE Try1(p)
    BY Zenon, <2>1 DEF Try1, MustWait, At
  <2>2. CASE Try2(p)
    BY Zenon, <2>2 DEF Try2, At
  <2> QED
    BY Zenon, <2>1, <2>2
<1>2. UNCHANGED <<hasWaiters, releaseOk, locked, waiters, lwWaiting, lwWaitMode, op, mode, wakeup>>
  BY Zenon, <1>1 DEF AttemptLock, call, procs
<1>3. mode[p] \in {"LW_SHARED", "LW_EXCLUSIVE"} /\ pc = [q \in Procs |-> pc[q]] /\ DOMAIN held = Procs
  BY Zenon DEF HoldSteps, Mode
<1>4. CASE ~LockFree(mode[p])
  <2>1. Quiet(p, failed)
    <3>1. pc' = [pc EXCEPT ![p] = failed] /\ UNCHANGED <<held, exclusive, shared>>
      BY Zenon, <1>1, <1>4 DEF AttemptLock, Goto
    <3> QED
      BY Zenon, <1>1, <1>2, <3>1 DEF Quiet
  <2>2. ~Free
    BY Zenon, <1>3, <1>4 DEF LockFree, Free
  <2>3. Kindred(p, failed)
    BY Zenon, <1>1, <2>2 DEF Kindred, Queued, Reading, Dequeuing, Woken
  <2>4. Guards(p, failed)
    BY Zenon, <1>1, <1>2 DEF Guards, Guarding
  <2> QED
    BY Zenon, <2>1, <2>3, <2>4, CareQuiet
<1>5. CASE LockFree(mode[p])
  <2>1. /\ pc' = [pc EXCEPT ![p] = got] /\ held' = [held EXCEPT ![p] = mode[p]]
        /\ exclusive' = (exclusive \/ mode[p] = "LW_EXCLUSIVE")
        /\ shared' = shared + (IF mode[p] = "LW_SHARED" THEN 1 ELSE 0)
    BY Zenon, <1>1, <1>5 DEF AttemptLock, Goto
  <2>2. /\ pc'[p] = got /\ held'[p] = mode[p] /\ held'[p] # "none"
        /\ \A q \in Procs : q # p => held'[q] = held[q]
    BY Zenon, <1>3, <2>1
  <2>3. ~Free'
    <3>1. shared \in Nat
      BY Zenon, HoldersFinite DEF HoldSteps
    <3>2. CASE mode[p] = "LW_EXCLUSIVE"
      BY Zenon, <2>1, <3>2 DEF Free
    <3>3. CASE mode[p] = "LW_SHARED"
      <4>1. shared' = shared + 1
        BY Zenon, <2>1, <3>3
      <4>2. shared' # 0
        BY <3>1, <4>1
      <4> QED
        BY Zenon, <4>2 DEF Free
    <3> QED
      BY Zenon, <1>3, <3>2, <3>3
  <2>4. Alone(p, got)
    BY Zenon, <1>2, <2>1, <2>2 DEF Alone, Care
  <2>5. Moded(p)'
    <3>1. Moded(p) /\ QueueMode(p)' = QueueMode(p)
      BY Zenon, <1>2 DEF Care, QueueMode
    <3> QED
      BY Zenon, <1>1, <1>2, <2>2, <3>1 DEF Moded, Queued, Reading, Dequeuing
  <2>6. Guards(p, got) /\ Stays(p, got)
    BY Zenon, <1>1, <1>2 DEF Guards, Stays, Guarding, Queued
  <2>7. Flags(p, got)
    BY Zenon, <1>1, <1>2 DEF Flags, Care, Flagged
  <2>8. Suppresses(p)
    BY Zenon, <1>1, <1>2, <2>2 DEF Suppresses, Woken, Queued
  <2> QED
    BY Zenon, <2>3, <2>4, <2>5, <2>6, <2>7, <2>8, CareStep DEF Attends
<1> QED
  BY Zenon, <1>4, <1>5

\* Somebody counts.
LEMMA CountsOne ==
  ASSUME NEW h, NEW m, NEW q \in Procs, h[q] = m
  PROVE  Cardinality({r \in Procs : h[r] = m}) # 0
<1> DEFINE H == {r \in Procs : h[r] = m}
<1>1. H \subseteq Procs /\ q \in H
  BY Zenon
<1> HIDE DEF H
<1>2. IsFiniteSet(H)
  BY Zenon, <1>1, LWLockAssumption, FS_Subset
<1>3. Cardinality(H) # 0
  BY Zenon, <1>1, <1>2, FS_EmptySet
<1> QED
  BY Zenon, <1>3 DEF H

\* Who makes the lock free wakes the list, unless one that was woken before has not
\* run yet.
LEMMA CareRelease == ASSUME HoldSteps, Lists, Care, NEW p \in Procs, Release(p) PROVE Care'
<1>1. PICK l : /\ pc' = [pc EXCEPT ![p] = l]
               /\ l = IF hasWaiters /\ releaseOk /\ ~exclusive' /\ shared' = 0 THEN "wakeup_lock" ELSE "idle"
  BY Zenon DEF Release, Goto
<1>2. /\ pc[p] \in {"idle", "clear"} /\ held' = [held EXCEPT ![p] = "none"]
      /\ UNCHANGED <<hasWaiters, releaseOk, locked, waiters, lwWaiting, lwWaitMode, op, mode, wakeup>>
  BY Zenon DEF Release, call, procs
<1>3. pc'[p] = l /\ l \in {"wakeup_lock", "idle"} /\ \A q \in Procs : q # p => pc'[q] = pc[q]
  BY Zenon, <1>1 DEF Lists, ListTypes
<1>4. held \in [Procs -> Mode \cup {"none"}] /\ \A q \in Procs : q # p => held'[q] = held[q]
  BY Zenon, <1>2 DEF HoldSteps
<1>5. Alone(p, l)
  BY Zenon, <1>1, <1>2, <1>4 DEF Alone, Care
<1>6. Moded(p)'
  BY Zenon, <1>3 DEF Moded, Queued, Reading, Dequeuing
<1>7. Guards(p, l) /\ Stays(p, l)
  BY Zenon, <1>2, <1>3 DEF Guards, Stays, Guarding, Queued
<1>8. Flags(p, l)
  BY Zenon, <1>2, <1>3 DEF Flags, Care, Flagged
<1>9. Suppresses(p)
  BY Zenon, <1>2 DEF Suppresses, Woken, Queued
<1>10. Attends(p)
  <2> SUFFICES ASSUME Free', NEW q \in Procs, Sleeper(q)' PROVE \E r \in Procs : OnTheWay(r)'
    BY Zenon DEF Attends
  <2>1. q # p /\ lwWaiting[q] = "WAITING" /\ pc[q] # "dequeue_unlock"
    BY Zenon, <1>2, <1>3 DEF Sleeper
  <2>2. InList(q, waiters)
    BY Zenon, <2>1 DEF Lists, Placed
  <2>3. hasWaiters
    BY Zenon, <2>2, NobodyIn DEF Care, Flagged
  <2>4. CASE releaseOk
    <3>1. pc'[p] = "wakeup_lock"
      BY Zenon, <1>1, <1>3, <2>3, <2>4 DEF Free
    <3> QED
      BY Zenon, <3>1 DEF OnTheWay, AboutToWake
  <2>5. CASE ~releaseOk
    <3>1. PICK r \in Procs : Woken(r)
      BY Zenon, <2>5 DEF Care, Suppressed
    <3>2. r # p
      BY Zenon, <1>2, <3>1 DEF Woken, Queued
    <3>3. held[r] = "none"
      <4>1. ASSUME held'[r] = "LW_SHARED" PROVE FALSE
        <5>1. Cardinality({x \in Procs : held'[x] = "LW_SHARED"}) # 0
          BY Zenon, <4>1, CountsOne
        <5>2. shared' = Cardinality({x \in Procs : held'[x] = "LW_SHARED"})
          BY Zenon, ReleaseSteps DEF HoldSteps, Holders
        <5> QED
          BY Zenon, <5>1, <5>2 DEF Free
      <4>2. ASSUME held'[r] = "LW_EXCLUSIVE" PROVE FALSE
        <5>1. exclusive' <=> {x \in Procs : held'[x] = "LW_EXCLUSIVE"} # {}
          BY Zenon, ReleaseSteps DEF HoldSteps, Holders
        <5> QED
          BY Zenon, <4>2, <5>1 DEF Free
      <4>3. held[r] \in {"LW_SHARED", "LW_EXCLUSIVE", "none"} /\ held'[r] = held[r]
        BY Zenon, <1>4, <3>2 DEF Mode
      <4> QED
        BY Zenon, <4>1, <4>2, <4>3
    <3>4. op[r] = "Acquire" /\ pc[r] \notin Reading /\ pc[r] \notin Dequeuing
      <4>1. Moded(r)
        BY Zenon DEF Care
      <4> QED
        BY Zenon, <3>1, <3>3, <4>1 DEF Woken, Moded
    <3>5. \/ pc[r] = "retry"
          \/ pc[r] \in {"try2", "sleep"} /\ lwWaiting[r] # "WAITING"
      BY Zenon, <3>1, <3>4 DEF Woken, Queued, Reading, Dequeuing
    <3>6. AboutToTry(r)'
      BY Zenon, <1>2, <1>3, <3>2, <3>4, <3>5 DEF AboutToTry
    <3> QED
      BY Zenon, <3>6 DEF OnTheWay
  <2> QED
    BY Zenon, <2>4, <2>5
<1> QED
  BY Zenon, <1>5, <1>6, <1>7, <1>8, <1>9, <1>10, CareStep

\* Every step keeps the invariant.
LEMMA CareNext == HoldSteps /\ Lists /\ Care /\ [Next]_vars => Care'
<1> SUFFICES ASSUME HoldSteps, Lists, Care, [Next]_vars PROVE Care'
  BY Zenon
<1>1. CASE UNCHANGED vars
  <2>1. /\ UNCHANGED <<pc, op, mode, lwWaitMode, lwWaiting, wakeup, waiters, held>>
        /\ UNCHANGED <<exclusive, shared, hasWaiters, releaseOk, locked>>
    BY Zenon, <1>1 DEF vars, state, procs, call
  <2> QED
    BY Zenon, <2>1, CareFrame
<1>2. CASE Next
  <2>1. PICK p \in Procs : \/ Begin(p) \/ Steps(p) \/ ReleaseClearVar(p) \/ Stray(p)
                           \/ \E v \in Values : UpdateVar(p, v)
    BY Zenon, <1>2 DEF Next
  <2>2. CASE Begin(p)
    BY Zenon, <2>2, CareCall DEF Begin
  <2>3. CASE Stray(p)
    <3>1. /\ UNCHANGED <<pc, op, mode, lwWaitMode, lwWaiting, wakeup, waiters, held>>
          /\ UNCHANGED <<exclusive, shared, hasWaiters, releaseOk, locked>>
      BY Zenon, <2>3 DEF Stray, state, call
    <3> QED
      BY Zenon, <3>1, CareFrame
  <2>4. CASE ReleaseClearVar(p) \/ \E v \in Values : UpdateVar(p, v)
    BY Zenon, <2>4, CareOutside
  <2>5. CASE Steps(p)
    <3>1. CASE Wake(p)
      BY Zenon, <3>1, CareOutside, CareWake
    <3>2. CASE \/ Sleep(p) \/ Retry(p) \/ DequeueOk(p) \/ Absorb(p) \/ Return(p) \/ ReadState(p) \/ ReadValue(p)
               \/ VarReleaseOk(p)
      BY Zenon, <3>2, CareOutside
    <3>3. CASE \/ Try1(p) \/ Try2(p) \/ WaitListLock(p) \/ QueueFlag(p) \/ QueueSelf(p) \/ Dequeue(p)
               \/ DequeueUnlock(p)
      BY Zenon, <3>3, CareTry, CareInside, CareQueue, CareDequeue, CareUnlock
    <3>4. CASE Release(p) \/ Collect(p) \/ WakeupUnlock(p) \/ CollectFree(p) \/ Post(p)
      BY Zenon, <3>4, CareRelease, CareCollect, CareWakeupUnlock, CareCollectFree, CareWake
    <3> QED
      BY Zenon, <2>5, <3>1, <3>2, <3>3, <3>4 DEF Steps
  <2> QED
    BY Zenon, <2>1, <2>2, <2>3, <2>4, <2>5
<1> QED
  BY Zenon, <1>1, <1>2

\* At first nobody sleeps.
LEMMA CareInit == Init => Care
<1> SUFFICES ASSUME Init PROVE Care
  BY Zenon
<1>1. \A p \in Procs : pc[p] = "idle"
  BY Zenon DEF Init
<1>2. Guarded /\ Flagged /\ Fresh
  BY Zenon, <1>1 DEF Init, Guarded, Flagged, Fresh, Guarding
<1>3. \A p \in Procs : Moded(p) /\ ~Sleeper(p)
  BY Zenon, <1>1 DEF Moded, Sleeper, Queued, Reading, Dequeuing
<1>4. Suppressed /\ Attended
  BY Zenon, <1>3 DEF Init, Suppressed, Attended
<1>5. lwWaitMode = [p \in Procs |-> lwWaitMode[p]]
  BY Zenon DEF Init
<1> QED
  BY Zenon, <1>2, <1>3, <1>4, <1>5 DEF Care

\* "we're now guaranteed to be woken up if necessary": for any number of processes
\* and whatever they call, nobody sleeps on a free lock unless somebody is on the way
\* to wake the list or to take the lock.  It takes all of the protocol: the second
\* attempt after queueing, HAS_WAITERS, which outlives every entry of the list, and
\* RELEASE_OK, which is only clear while one who was woken has not run.
THEOREM WakeupCorrect == Spec => []NoSleeperForgotten
<1>1. Care => NoSleeperForgotten
  BY Zenon DEF Care, Attended, NoSleeperForgotten, Sleeper, OnTheWay, At
<1>2. Init => HoldSteps /\ Lists /\ Care
  BY Zenon, HoldInit, ListsInit, CareInit
<1>3. HoldSteps /\ Lists /\ Care /\ [Next]_vars => (HoldSteps /\ Lists /\ Care)'
  BY Zenon, HoldNext, ListsNext, CareNext
<1> QED
  BY <1>1, <1>2, <1>3, PTL DEF Spec
=============================================================================
