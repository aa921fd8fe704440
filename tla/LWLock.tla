------------------------------- MODULE LWLock -------------------------------
(***************************************************************************)
(* storage/lmgr/lwlock.c of bmks/postgres: one lightweight lock, its wait  *)
(* list and the variable it may protect, used by several processes.        *)
(*                                                                         *)
(* Each atomic operation on lock->state, each access to the variable, and  *)
(* each operation on a semaphore is a step; a loop around a                *)
(* compare-and-exchange is the exchange that succeeds.  The wait list is   *)
(* only touched under LW_FLAG_LOCKED, in one step.  Semaphores may be      *)
(* posted by somebody else.                                                *)
(***************************************************************************)
EXTENDS Integers, FiniteSets, Sequences

CONSTANTS
  Procs,      \* the processes
  Values,     \* values of the variable
  Calls,      \* Calls[p]: the calls p may make, see Call
  MaxOps,     \* bound: operations of a process
  Strays      \* the processes that may get a wakeup that is not from the lock

ASSUME LWLockAssumption ==
  /\ IsFiniteSet(Procs) /\ 0 \in Values /\ Values \subseteq Nat
  /\ \A p \in Procs : Calls[p] \subseteq
       {"Acquire", "Conditional", "AcquireOrWait", "WaitForVar"}
         \X {"LW_SHARED", "LW_EXCLUSIVE"} \X Values
  /\ MaxOps \in Nat /\ Strays \subseteq Procs

Op == {"Acquire", "Conditional", "AcquireOrWait", "WaitForVar"}
Mode == {"LW_SHARED", "LW_EXCLUSIVE"}
WaitMode == Mode \cup {"LW_WAIT_UNTIL_FREE"}

VARIABLES
  exclusive,    \* lock->state: LW_VAL_EXCLUSIVE,
  shared,       \*              the number of shared holders,
  hasWaiters,   \*              LW_FLAG_HAS_WAITERS,
  releaseOk,    \*              LW_FLAG_RELEASE_OK,
  locked,       \*              LW_FLAG_LOCKED
  waiters,      \* lock->waiters
  value,        \* *valptr
  lwWaiting,    \* PGPROC: LW_WS_NOT_WAITING, ..._WAITING, ..._PENDING_WAKEUP,
  lwWaitMode,   \*         the mode it waits in,
  sem,          \*         its semaphore
  pc, op, mode, oldval,   \* the call each process is in
  extraWaits,   \* wakeups it has absorbed
  wakeup,       \* the processes it has taken off the list to wake
  held,         \* its entry of held_lwlocks
  left,         \* operations it may still begin
  stray         \* the processes that have got one from others

state == <<exclusive, shared, hasWaiters, releaseOk, locked>>
procs == <<lwWaiting, lwWaitMode, sem>>
call == <<op, mode, oldval>>
vars == <<state, waiters, value, procs, pc, call, extraWaits, wakeup, held, left, stray>>

Init ==
  /\ exclusive = FALSE /\ shared = 0
  /\ hasWaiters = FALSE /\ releaseOk = TRUE /\ locked = FALSE
  /\ waiters = <<>> /\ value = 0
  /\ lwWaiting = [p \in Procs |-> "NOT"]
  /\ lwWaitMode = [p \in Procs |-> "LW_SHARED"]
  /\ sem = [p \in Procs |-> 0]
  /\ pc = [p \in Procs |-> "idle"]
  /\ op = [p \in Procs |-> "Acquire"]
  /\ mode = [p \in Procs |-> "LW_SHARED"]
  /\ oldval = [p \in Procs |-> 0]
  /\ extraWaits = [p \in Procs |-> 0]
  /\ wakeup = [p \in Procs |-> <<>>]
  /\ held = [p \in Procs |-> "none"]
  /\ left = [p \in Procs |-> MaxOps]
  /\ stray = {}

At(p, l) == pc[p] = l
Goto(p, l) == pc' = [pc EXCEPT ![p] = l]

\* What is left of a list: its entries K, in their order.
Pick(w, K) ==
  LET kept[n \in 0 .. Len(w)] ==
        IF n = 0 THEN <<>> ELSE IF n \in K THEN Append(kept[n - 1], w[n]) ELSE kept[n - 1]
  IN kept[Len(w)]

(***************************************************************************)
(* LWLockAttemptLock.                                                      *)
(***************************************************************************)

\* Mutant: a shared locker looks for nobody.
LockFreeAlways(m) == m = "LW_SHARED" \/ (~ exclusive /\ shared = 0)

LockFree(m) == IF m = "LW_EXCLUSIVE" THEN ~ exclusive /\ shared = 0 ELSE ~ exclusive

AttemptLock(p, got, failed) ==
  /\ IF LockFree(mode[p])
     THEN /\ exclusive' = (exclusive \/ mode[p] = "LW_EXCLUSIVE")
          /\ shared' = shared + (IF mode[p] = "LW_SHARED" THEN 1 ELSE 0)
          /\ held' = [held EXCEPT ![p] = mode[p]]
          /\ Goto(p, got)
     ELSE UNCHANGED <<exclusive, shared, held>> /\ Goto(p, failed)
  /\ UNCHANGED <<hasWaiters, releaseOk, locked, waiters, value, procs, call, extraWaits,
                 wakeup, left, stray>>

(***************************************************************************)
(* The calls.                                                              *)
(***************************************************************************)

Call(p, o, m, old) ==
  /\ At(p, "idle") /\ held[p] = "none" /\ left[p] > 0
  /\ left' = [left EXCEPT ![p] = @ - 1]
  /\ op' = [op EXCEPT ![p] = o]
  /\ mode' = [mode EXCEPT ![p] = m]
  /\ oldval' = [oldval EXCEPT ![p] = old]
  /\ Goto(p, IF o = "WaitForVar" THEN "state1" ELSE "try1")
  /\ UNCHANGED <<state, waiters, value, procs, extraWaits, wakeup, held, stray>>

\* LWLockConditionalAcquire has only one attempt.
MustWait(p) == IF op[p] = "Conditional" THEN "return" ELSE "queue_lock"

Try1(p) == At(p, "try1") /\ AttemptLock(p, "return", MustWait(p))

\* LWLockWaitListLock; what is done under the lock comes next.
WaitListLock(p) ==
  /\ pc[p] \in {"queue_lock", "dequeue_lock", "wakeup_lock", "update_lock"} /\ ~ locked
  /\ locked' = TRUE
  /\ Goto(p, CASE At(p, "queue_lock") -> "queue_flag"
               [] At(p, "dequeue_lock") -> "dequeue"
               [] At(p, "wakeup_lock") -> "collect"
               [] At(p, "update_lock") -> "collect_free")
  /\ UNCHANGED <<exclusive, shared, hasWaiters, releaseOk, waiters, value, procs, call,
                 extraWaits, wakeup, held, left, stray>>

(***************************************************************************)
(* LWLockQueueSelf.                                                        *)
(***************************************************************************)

QueueFlag(p) ==
  /\ At(p, "queue_flag")
  /\ hasWaiters' = TRUE
  /\ Goto(p, "queue")
  /\ UNCHANGED <<exclusive, shared, releaseOk, locked, waiters, value, procs, call,
                 extraWaits, wakeup, held, left, stray>>

QueueMode(p) == IF op[p] = "Acquire" THEN mode[p] ELSE "LW_WAIT_UNTIL_FREE"

\* Those who wait until it is free are in front; then LWLockWaitListUnlock.
QueueSelf(p) ==
  /\ At(p, "queue")
  /\ lwWaiting' = [lwWaiting EXCEPT ![p] = "WAITING"]
  /\ lwWaitMode' = [lwWaitMode EXCEPT ![p] = QueueMode(p)]
  /\ waiters' = IF op[p] = "Acquire" THEN Append(waiters, p) ELSE <<p>> \o waiters
  /\ locked' = FALSE
  /\ Goto(p, IF op[p] = "WaitForVar" THEN "var_ok" ELSE "try2")
  /\ UNCHANGED <<exclusive, shared, hasWaiters, releaseOk, value, sem, call, extraWaits,
                 wakeup, held, left, stray>>

Try2(p) == At(p, "try2") /\ AttemptLock(p, "dequeue_lock", "sleep")

(***************************************************************************)
(* Sleeping.                                                               *)
(***************************************************************************)

\* Mutant: every wakeup is taken for one that has to do with something else.
SleepOn(p) ==
  /\ At(p, "sleep") /\ sem[p] > 0
  /\ sem' = [sem EXCEPT ![p] = @ - 1]
  /\ extraWaits' = [extraWaits EXCEPT ![p] = @ + 1]
  /\ UNCHANGED <<pc, state, waiters, value, lwWaiting, lwWaitMode, call, wakeup, held, left,
                 stray>>

\* LWLockAcquireOrWait does not try again when it has waited.
AfterWait(p) == CASE op[p] = "Acquire" -> "retry"
                  [] op[p] = "AcquireOrWait" -> "return"
                  [] op[p] = "WaitForVar" -> "state1"

\* PGSemaphoreLock, and the test of lwWaiting.
Sleep(p) ==
  /\ At(p, "sleep") /\ sem[p] > 0
  /\ sem' = [sem EXCEPT ![p] = @ - 1]
  /\ IF lwWaiting[p] = "NOT"
     THEN Goto(p, AfterWait(p)) /\ extraWaits' = extraWaits
     ELSE extraWaits' = [extraWaits EXCEPT ![p] = @ + 1] /\ pc' = pc
  /\ UNCHANGED <<state, waiters, value, lwWaiting, lwWaitMode, call, wakeup, held, left, stray>>

\* Mutant: RELEASE_OK is not set again.
RetryNotOk(p) ==
  /\ At(p, "retry")
  /\ Goto(p, "try1")
  /\ UNCHANGED <<state, waiters, value, procs, call, extraWaits, wakeup, held, left, stray>>

Retry(p) ==
  /\ At(p, "retry")
  /\ releaseOk' = TRUE
  /\ Goto(p, "try1")
  /\ UNCHANGED <<exclusive, shared, hasWaiters, locked, waiters, value, procs, call,
                 extraWaits, wakeup, held, left, stray>>

(***************************************************************************)
(* LWLockDequeueSelf.                                                      *)
(***************************************************************************)

Dequeue(p) ==
  /\ At(p, "dequeue")
  /\ waiters' = Pick(waiters, {k \in DOMAIN waiters : waiters[k] # p})
  /\ hasWaiters' = (hasWaiters /\ waiters' # <<>>)
  /\ Goto(p, "dequeue_unlock")
  /\ UNCHANGED <<exclusive, shared, releaseOk, locked, value, procs, call, extraWaits,
                 wakeup, held, left, stray>>

\* Mutant: the waiting state stays.
DequeueUnlockKeeps(p) ==
  /\ At(p, "dequeue_unlock")
  /\ locked' = FALSE
  /\ Goto(p, IF lwWaiting[p] = "WAITING" THEN "return" ELSE "dequeue_ok")
  /\ UNCHANGED <<exclusive, shared, hasWaiters, releaseOk, waiters, value, procs, call,
                 extraWaits, wakeup, held, left, stray>>

\* Who was on the list is not waiting any more; else a wakeup is on its way.
DequeueUnlock(p) ==
  /\ At(p, "dequeue_unlock")
  /\ locked' = FALSE
  /\ IF lwWaiting[p] = "WAITING"
     THEN lwWaiting' = [lwWaiting EXCEPT ![p] = "NOT"] /\ Goto(p, "return")
     ELSE lwWaiting' = lwWaiting /\ Goto(p, "dequeue_ok")
  /\ UNCHANGED <<exclusive, shared, hasWaiters, releaseOk, waiters, value, lwWaitMode, sem,
                 call, extraWaits, wakeup, held, left, stray>>

DequeueOk(p) ==
  /\ At(p, "dequeue_ok")
  /\ releaseOk' = TRUE
  /\ Goto(p, "absorb")
  /\ UNCHANGED <<exclusive, shared, hasWaiters, locked, waiters, value, procs, call,
                 extraWaits, wakeup, held, left, stray>>

Absorb(p) ==
  /\ At(p, "absorb") /\ sem[p] > 0
  /\ sem' = [sem EXCEPT ![p] = @ - 1]
  /\ IF lwWaiting[p] = "NOT"
     THEN Goto(p, "return") /\ extraWaits' = extraWaits
     ELSE extraWaits' = [extraWaits EXCEPT ![p] = @ + 1] /\ pc' = pc
  /\ UNCHANGED <<state, waiters, value, lwWaiting, lwWaitMode, call, wakeup, held, left, stray>>

\* Mutant: the absorbed wakeups are not given back.
ReturnKeeps(p) ==
  /\ At(p, "return")
  /\ extraWaits' = [extraWaits EXCEPT ![p] = 0]
  /\ Goto(p, "idle")
  /\ UNCHANGED <<state, waiters, value, procs, call, wakeup, held, left, stray>>

\* The absorbed wakeups are given back.
Return(p) ==
  /\ At(p, "return")
  /\ sem' = [sem EXCEPT ![p] = @ + extraWaits[p]]
  /\ extraWaits' = [extraWaits EXCEPT ![p] = 0]
  /\ Goto(p, "idle")
  /\ UNCHANGED <<state, waiters, value, lwWaiting, lwWaitMode, call, wakeup, held, left, stray>>

(***************************************************************************)
(* LWLockWaitForVar.  LWLockConflictsWithVar reads the state and then the  *)
(* variable.                                                               *)
(***************************************************************************)

ReadState(p) ==
  /\ pc[p] \in {"state1", "state2"}
  /\ Goto(p, CASE exclusive /\ At(p, "state1") -> "value1"
               [] exclusive /\ At(p, "state2") -> "value2"
               [] ~ exclusive /\ At(p, "state1") -> "return"
               [] ~ exclusive /\ At(p, "state2") -> "dequeue_lock")
  /\ UNCHANGED <<state, waiters, value, procs, call, extraWaits, wakeup, held, left, stray>>

ReadValue(p) ==
  /\ pc[p] \in {"value1", "value2"}
  /\ Goto(p, CASE value = oldval[p] /\ At(p, "value1") -> "queue_lock"
               [] value = oldval[p] /\ At(p, "value2") -> "sleep"
               [] value # oldval[p] /\ At(p, "value1") -> "return"
               [] value # oldval[p] /\ At(p, "value2") -> "dequeue_lock")
  /\ UNCHANGED <<state, waiters, value, procs, call, extraWaits, wakeup, held, left, stray>>

VarReleaseOk(p) ==
  /\ At(p, "var_ok")
  /\ releaseOk' = TRUE
  /\ Goto(p, "state2")
  /\ UNCHANGED <<exclusive, shared, hasWaiters, locked, waiters, value, procs, call,
                 extraWaits, wakeup, held, left, stray>>

(***************************************************************************)
(* LWLockRelease, LWLockReleaseClearVar, LWLockUpdateVar.                  *)
(***************************************************************************)

Release(p) ==
  /\ pc[p] \in {"idle", "clear"} /\ held[p] # "none"
  /\ exclusive' = (exclusive /\ held[p] # "LW_EXCLUSIVE")
  /\ shared' = shared - (IF held[p] = "LW_SHARED" THEN 1 ELSE 0)
  /\ held' = [held EXCEPT ![p] = "none"]
  /\ Goto(p, IF hasWaiters /\ releaseOk /\ ~ exclusive' /\ shared' = 0
             THEN "wakeup_lock" ELSE "idle")
  /\ UNCHANGED <<hasWaiters, releaseOk, locked, waiters, value, procs, call, extraWaits,
                 wakeup, left, stray>>

\* LWLockReleaseClearVar: the variable is cleared, then the lock released.
ReleaseClearVar(p) ==
  /\ At(p, "idle") /\ held[p] = "LW_EXCLUSIVE" /\ value # 0
  /\ value' = 0
  /\ Goto(p, "clear")
  /\ UNCHANGED <<state, waiters, procs, call, extraWaits, wakeup, held, left, stray>>

\* The value only grows while the lock is held.
UpdateVar(p, v) ==
  /\ At(p, "idle") /\ held[p] = "LW_EXCLUSIVE" /\ v > value
  /\ value' = v
  /\ Goto(p, "update_lock")
  /\ UNCHANGED <<state, waiters, procs, call, extraWaits, wakeup, held, left, stray>>

WaitUntilFree(q) == lwWaitMode[q] = "LW_WAIT_UNTIL_FREE"

\* The processes LWLockWakeup takes off the list: all that wait until the lock
\* is free, and the first that wants it with all that want it shared, up to the
\* first exclusive one after nobody.
ToWake(w) ==
  LET Wants(k) == ~ WaitUntilFree(w[k])
      First(k) == \A j \in 1 .. k - 1 : ~ Wants(j)
      Excl(k) == lwWaitMode[w[k]] = "LW_EXCLUSIVE"
      Taken(k) == IF Excl(k) THEN First(k)
                  ELSE \A j \in 1 .. k - 1 : ~ (Excl(j) /\ First(j))
  IN {k \in DOMAIN w : Taken(k)}

TakeOff(p, K) ==
  /\ wakeup' = [wakeup EXCEPT ![p] = Pick(waiters, K)]
  /\ waiters' = Pick(waiters, DOMAIN waiters \ K)
  /\ lwWaiting' = [q \in Procs |->
                     IF \E k \in K : waiters[k] = q THEN "PENDING" ELSE lwWaiting[q]]

\* LWLockWakeup.
Collect(p) ==
  /\ At(p, "collect")
  /\ TakeOff(p, ToWake(waiters))
  /\ Goto(p, "wakeup_unlock")
  /\ UNCHANGED <<state, value, lwWaitMode, sem, call, extraWaits, held, left, stray>>

\* "in one fell swoop"
WakeupUnlock(p) ==
  /\ At(p, "wakeup_unlock")
  /\ releaseOk' = \A k \in DOMAIN wakeup[p] : WaitUntilFree(wakeup[p][k])
  /\ hasWaiters' = (hasWaiters /\ wakeup[p] # <<>>)
  /\ locked' = FALSE
  /\ Goto(p, "wake")
  /\ UNCHANGED <<exclusive, shared, waiters, value, procs, call, extraWaits, wakeup, held,
                 left, stray>>

\* LWLockUpdateVar: those at the front that wait until it is free.
CollectFree(p) ==
  /\ At(p, "collect_free")
  /\ TakeOff(p, {k \in DOMAIN waiters : \A j \in 1 .. k : WaitUntilFree(waiters[j])})
  /\ locked' = FALSE
  /\ Goto(p, "wake")
  /\ UNCHANGED <<exclusive, shared, hasWaiters, releaseOk, value, lwWaitMode, sem, call,
                 extraWaits, held, left, stray>>

\* The waiter's state and its semaphore are set one after the other.
Wake(p) ==
  /\ At(p, "wake")
  /\ IF wakeup[p] = <<>>
     THEN Goto(p, "idle") /\ lwWaiting' = lwWaiting
     ELSE lwWaiting' = [lwWaiting EXCEPT ![Head(wakeup[p])] = "NOT"] /\ Goto(p, "post")
  /\ UNCHANGED <<state, waiters, value, lwWaitMode, sem, call, extraWaits, wakeup, held,
                 left, stray>>

Post(p) ==
  /\ At(p, "post")
  /\ sem' = [sem EXCEPT ![Head(wakeup[p])] = @ + 1]
  /\ wakeup' = [wakeup EXCEPT ![p] = Tail(@)]
  /\ Goto(p, "wake")
  /\ UNCHANGED <<state, waiters, value, lwWaiting, lwWaitMode, call, extraWaits, held,
                 left, stray>>

\* A wakeup that has nothing to do with the lock.
Stray(p) ==
  /\ p \in Strays \ stray
  /\ stray' = stray \cup {p}
  /\ sem' = [sem EXCEPT ![p] = @ + 1]
  /\ UNCHANGED <<state, waiters, value, lwWaiting, lwWaitMode, pc, call, extraWaits, wakeup,
                 held, left>>

Begin(p) == \E c \in Calls[p] : Call(p, c[1], c[2], c[3])

Steps(p) ==
  \/ Try1(p) \/ WaitListLock(p) \/ QueueFlag(p) \/ QueueSelf(p) \/ Try2(p) \/ Sleep(p)
  \/ Retry(p) \/ Dequeue(p) \/ DequeueUnlock(p) \/ DequeueOk(p) \/ Absorb(p) \/ Return(p)
  \/ ReadState(p) \/ ReadValue(p) \/ VarReleaseOk(p)
  \/ Release(p) \/ Collect(p) \/ WakeupUnlock(p) \/ CollectFree(p) \/ Wake(p) \/ Post(p)

Next ==
  \E p \in Procs :
    \/ Begin(p) \/ Steps(p) \/ ReleaseClearVar(p) \/ Stray(p)
    \/ \E v \in Values : UpdateVar(p, v)

Spec == Init /\ [][Next]_vars

\* A process in a call goes on, and a holder releases the lock.
FairSpec == Spec /\ \A p \in Procs : WF_vars(Steps(p))

(***************************************************************************)
(* Properties.                                                             *)
(***************************************************************************)

Holders(m) == {p \in Procs : held[p] = m}

\* The lock is a reader-writer lock: what LWLockAcquire and LWLockRelease do to
\* the state word, from any number of processes, implements one.
RW == INSTANCE RWLock WITH
        readers <- Holders("LW_SHARED"), writers <- Holders("LW_EXCLUSIVE")
ImplementsRWLock == RW!Spec

InList(q, s) == \E k \in DOMAIN s : s[k] = q

\* "otherwise our ->lwWaiting would get reset at some inconvenient point later":
\* a process is in at most one list, and its lwWaiting says which: in the wait
\* list, or in the list of exactly one waker, or in none.  Whoever is about to
\* queue is in none: LWLockQueueSelf does not PANIC with "queueing for lock while
\* waiting on another one".
ListsMatch ==
  \A q \in Procs :
    LET wakers == {p \in Procs : InList(q, IF At(p, "post") THEN Tail(wakeup[p]) ELSE wakeup[p])}
    IN /\ Cardinality({k \in DOMAIN waiters : waiters[k] = q}) <= 1
       /\ Cardinality(wakers) <= 1
       /\ InList(q, waiters) => lwWaiting[q] = "WAITING"
       /\ (lwWaiting[q] = "WAITING" /\ ~ At(q, "dequeue_unlock")) => InList(q, waiters)
       /\ lwWaiting[q] = "PENDING" <=> wakers # {}
       /\ At(q, "queue_lock") => lwWaiting[q] = "NOT"

\* "re-increment the sema by the number of additional signals received": no
\* wakeup is lost and none invented.  The semaphores hold, at the end, what
\* others posted.
SemaphoresBalance ==
  (\A p \in Procs : pc[p] = "idle") =>
    \A p \in Procs : sem[p] = IF p \in stray THEN 1 ELSE 0

Free == ~ exclusive /\ shared = 0

\* On the way to take processes off the list; on the way to try for the lock,
\* for the first time or woken up.
AboutToWake(p) == pc[p] \in {"wakeup_lock", "collect"}
AboutToTry(p) ==
  /\ op[p] = "Acquire"
  /\ pc[p] \in {"try1", "retry"} \/ (pc[p] \in {"try2", "sleep"} /\ lwWaiting[p] # "WAITING")

\* "we're now guaranteed to be woken up if necessary", for all that RELEASE_OK
\* suppresses: nobody sleeps on a free lock unless somebody is on the way who
\* wakes the list, or who takes the lock and wakes it when releasing it.
NoSleeperForgotten ==
  Free /\ (\E q \in Procs : At(q, "sleep") /\ lwWaiting[q] = "WAITING")
    => \E p \in Procs : AboutToWake(p) \/ AboutToTry(p)

\* No wakeup is missed: whoever calls the lock comes back, as long as holders
\* release it.
CallsReturn ==
  (\E p \in Procs : pc[p] # "idle") ~> (\A p \in Procs : pc[p] = "idle")
=============================================================================
