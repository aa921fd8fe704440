-------------------------- MODULE GupsHotsetProofs --------------------------
(***************************************************************************)
(* The threads of GUPS, for any number of threads and updates, any sizes   *)
(* of the field, the hot set and the elements, and any moments at which    *)
(* the timer moves the hot set and stops the workers.                      *)
(***************************************************************************)
EXTENDS GupsHotset, WellFoundedInduction, TLAPS

\* The sizes main works out are numbers.
LEMMA SizesAreNumbers ==
  /\ nelems \in Nat \ {0} /\ hotsize \in Nat \ {0} /\ iters \in Nat /\ hotsize \div 4 \in Nat
  /\ Tids \subseteq Nat
<1>1. Size \div Threads \in Nat /\ HotBytes \div Threads \in Nat
  BY GupsAssumption
<1>2. nelems \in Nat /\ hotsize \in Nat
  BY <1>1, GupsAssumption DEF nelems, hotsize
<1>3. hotsize \div 4 \in Nat
  BY <1>2
<1> QED
  BY <1>2, <1>3, GupsAssumption DEF iters, Tids

\* abs of a difference cut to an int is a number of that width, and not more than
\* a difference that is not negative.
LEMMA AbsBounded ==
  ASSUME NEW n \in Int
  PROVE  Abs(n) \in Int /\ (n >= 0 => Abs(n) <= n)
<1> DEFINE m == 2 * HalfInt
           r == (n + HalfInt) % m
           a == ToInt(n)
<1>1. HalfInt \in Nat \ {0} /\ m \in Nat \ {0} /\ n + HalfInt \in Int /\ m = 2 * HalfInt
  BY GupsAssumption
<1>2. r \in 0 .. m - 1
  <2> HIDE DEF m
  <2> QED
    BY <1>1
<1>3. n >= 0 /\ n < HalfInt => r = n + HalfInt
  <2> HIDE DEF m
  <2> QED
    BY <1>1
<1>4. a = r - HalfInt
  BY Zenon DEF ToInt
<1>5. Abs(n) = IF a < 0 /\ a # -HalfInt THEN -a ELSE a
  BY Zenon DEF Abs
<1> HIDE DEF m, r, a
<1> QED
  BY <1>1, <1>2, <1>3, <1>4, <1>5

-----------------------------------------------------------------------------
\* Main starts the workers in order; who counts is within an iteration.
Shape ==
  /\ TypeOK
  /\ printer \in [next : -1 .. Threads, tot : Nat, last : Nat]
  /\ main = "spawn" => \E n \in Tids : \A t \in Tids : worker[t] = "none" <=> t >= n
  /\ \A t \in Tids : worker[t] = "count" => i[t] < iters
  /\ \A t \in Tids : worker[t] = "none" => i[t] = 0

\* Nothing of it changes in a step of the reports.
LEMMA ShapeFrame ==
  ASSUME Shape, UNCHANGED <<worker, i>>, TypeOK', main' = "spawn" => main = "spawn",
         printer' \in [next : -1 .. Threads, tot : Nat, last : Nat]
  PROVE  Shape'
BY Zenon DEF Shape

\* Which worker Spawn starts.
LEMMA SpawnedInOrder ==
  ASSUME Shape, main = "spawn", Spawn
  PROVE  \E n \in Tids : /\ \A t \in Tids : worker[t] = "none" <=> t >= n
                         /\ worker' = [worker EXCEPT ![n] = "access"]
<1> DEFINE First(u) == worker[u] = "none" /\ \A v \in 0 .. u - 1 : worker[v] # "none"
<1>1. PICK n \in Tids : \A t \in Tids : worker[t] = "none" <=> t >= n
  BY Zenon DEF Shape
<1>2. First(n)
  BY <1>1, SizesAreNumbers, GupsAssumption DEF Tids
<1>3. ASSUME NEW u \in Tids, First(u) PROVE u = n
  BY <1>1, <1>3, SizesAreNumbers, GupsAssumption DEF Tids
<1>4. (CHOOSE u \in Tids : First(u)) = n
  BY Zenon, <1>2, <1>3
<1> QED
  BY Zenon, <1>1, <1>4 DEF Spawn

\* The shape is inductive.
LEMMA ShapeNext == Shape /\ [Next]_vars => Shape'
<1> SUFFICES ASSUME Shape, [Next]_vars PROVE Shape'
  BY Zenon
<1> USE SizesAreNumbers
<1>1. CASE Spawn
  <2>1. main = "spawn" /\ UNCHANGED <<i, shared, tic, printer, crashed, reported>>
    BY Zenon, <1>1 DEF Spawn
  <2>2. PICK n \in Tids : /\ \A t \in Tids : worker[t] = "none" <=> t >= n
                          /\ worker' = [worker EXCEPT ![n] = "access"]
    BY Zenon, <1>1, <2>1, SpawnedInOrder
  <2>3. worker' \in [Tids -> {"none", "access", "count", "done"}]
    BY Zenon, <2>2 DEF Shape, TypeOK
  <2>4. main' \in {"spawn", "join"} /\ (main' = "spawn" <=> \E t \in Tids : worker'[t] = "none")
    BY Zenon, <1>1 DEF Spawn
  <2>5. main' = "spawn" => \E k \in Tids : \A t \in Tids : worker'[t] = "none" <=> t >= k
    <3> SUFFICES ASSUME main' = "spawn"
                 PROVE  \E k \in Tids : \A t \in Tids : worker'[t] = "none" <=> t >= k
      BY Zenon
    <3>1. \A t \in Tids : worker'[t] = "none" <=> t >= n + 1
      BY <2>2 DEF Shape, TypeOK
    <3>2. PICK u \in Tids : worker'[u] = "none"
      BY Zenon, <2>4
    <3>3. n + 1 \in Tids
      BY <3>1, <3>2, GupsAssumption DEF Tids
    <3> QED
      BY Zenon, <3>1, <3>3
  <2>6. \A t \in Tids : /\ worker'[t] = "count" => i[t] < iters
                        /\ worker'[t] = "none" => i[t] = 0
    BY Zenon, <2>2 DEF Shape, TypeOK
  <2> QED
    BY Zenon, <2>1, <2>3, <2>4, <2>5, <2>6 DEF Shape, TypeOK, shared
<1>2. CASE SpawnFails \/ Join \/ Report \/ Return
  <2>1. TypeOK'
    <3>1. reported' \in Int
      BY <1>2 DEF SpawnFails, Join, Report, Return, Shape, TypeOK
    <3>2. crashed' \in BOOLEAN
      BY Zenon, <1>2 DEF SpawnFails, Join, Report, Return, Shape, TypeOK
    <3>3. main' \in {"spawn", "join", "report", "reset", "munmap", "done"}
      BY Zenon, <1>2 DEF SpawnFails, Join, Report, Return, Shape, TypeOK
    <3>4. UNCHANGED <<worker, i, shared, tic, printer>>
      BY Zenon, <1>2 DEF SpawnFails, Join, Report, Return
    <3> QED
      BY Zenon, <3>1, <3>2, <3>3, <3>4 DEF shared, Shape, TypeOK
  <2> QED
    BY Zenon, <1>2, <2>1, ShapeFrame DEF SpawnFails, Join, Report, Return, Shape
<1>3. CASE Reset
  <2>1. TypeOK'
    BY Zenon, <1>3 DEF Reset, Shape, TypeOK
  <2> QED
    BY Zenon, <1>3, <2>1, ShapeFrame DEF Reset, Shape
<1>4. CASE Tic
  <2>1. tic' \in -1 .. StopTic
    BY <1>4, GupsAssumption DEF Tic, Shape, TypeOK
  <2>2. move_hotset1' \in BOOLEAN /\ stop' \in BOOLEAN
    BY <1>4 DEF Tic
  <2>3. TypeOK'
    BY Zenon, <1>4, <2>1, <2>2 DEF Tic, Shape, TypeOK
  <2> QED
    BY Zenon, <1>4, <2>3, ShapeFrame DEF Tic, Shape
<1>5. CASE OpenTotals
  <2>1. printer' \in [next : -1 .. Threads, tot : Nat, last : Nat]
    BY <1>5, GupsAssumption DEF OpenTotals, Shape
  <2>2. TypeOK'
    BY Zenon, <1>5, <2>1 DEF OpenTotals, shared, Shape, TypeOK
  <2> QED
    BY Zenon, <1>5, <2>1, <2>2, ShapeFrame DEF OpenTotals
<1>6. CASE AddThread
  <2>1. thread_gups[printer.next] \in Nat
    BY Zenon, <1>6 DEF AddThread, Shape, TypeOK
  <2>2. printer.next + 1 \in -1 .. Threads
    BY <1>6, GupsAssumption DEF AddThread, Tids
  <2>3. printer.tot + thread_gups[printer.next] \in Nat /\ printer.last \in Nat
    BY <2>1 DEF Shape
  <2>4. printer' = [next |-> printer.next + 1, tot |-> printer.tot + thread_gups[printer.next],
                    last |-> printer.last]
    BY Zenon, <1>6 DEF AddThread, Shape
  <2>5. printer' \in [next : -1 .. Threads, tot : Nat, last : Nat]
    BY Zenon, <2>2, <2>3, <2>4
  <2>6. TypeOK'
    BY Zenon, <1>6, <2>5 DEF AddThread, shared, Shape, TypeOK
  <2> QED
    BY Zenon, <1>6, <2>5, <2>6, ShapeFrame DEF AddThread
<1>7. CASE AddSecond
  <2>1. Abs(printer.tot - printer.last) \in Int
    BY AbsBounded DEF Shape
  <2>2. printer' \in [next : -1 .. Threads, tot : Nat, last : Nat]
    BY <1>7, GupsAssumption DEF AddSecond, Shape
  <2>3. tot_updates' \in Int
    BY <1>7, <2>1 DEF AddSecond, Shape, TypeOK
  <2>4. TypeOK'
    BY Zenon, <1>7, <2>2, <2>3 DEF AddSecond, Shape, TypeOK
  <2> QED
    BY Zenon, <1>7, <2>2, <2>4, ShapeFrame DEF AddSecond
<1>8. ASSUME NEW t \in Tids, Access(t) PROVE Shape'
  <2>1. /\ worker[t] = "access" /\ UNCHANGED <<main, i, shared, tic, printer, reported>>
        /\ \/ i[t] < iters /\ worker' = [worker EXCEPT ![t] = "count"]
           \/ worker' = [worker EXCEPT ![t] = "done"]
    BY Zenon, <1>8 DEF Access
  <2>4. crashed' \in BOOLEAN
    BY Zenon, <1>8 DEF Access, Shape, TypeOK
  <2>2. worker' \in [Tids -> {"none", "access", "count", "done"}]
    BY Zenon, <2>1 DEF Shape, TypeOK
  <2>3. \A u \in Tids : /\ worker'[u] = "none" <=> worker[u] = "none"
                        /\ worker'[u] = "count" => i[u] < iters
    BY Zenon, <2>1 DEF Shape, TypeOK
  <2> QED
    BY Zenon, <2>1, <2>2, <2>3, <2>4 DEF Shape, TypeOK, shared
<1>9. ASSUME NEW t \in Tids, Count(t) PROVE Shape'
  <2>1. /\ worker[t] = "count"
        /\ UNCHANGED <<main, move_hotset1, stop, tot_updates, tic, printer, crashed, reported>>
        /\ i' = [i EXCEPT ![t] = @ + 1]
        /\ \/ worker' = [worker EXCEPT ![t] = "done"]
           \/ worker' = [worker EXCEPT ![t] = "access"]
    BY Zenon, <1>9 DEF Count
  <2>2. thread_gups' \in [Tids -> Nat]
    <3>1. (IF i[t] % Chunk = 0 THEN Chunk ELSE 0) \in Nat
      BY Zenon, GupsAssumption
    <3> QED
      BY <1>9, <3>1 DEF Count, Shape, TypeOK
  <2>3. worker' \in [Tids -> {"none", "access", "count", "done"}] /\ i' \in [Tids -> 0 .. iters]
    BY <2>1 DEF Shape, TypeOK
  <2>4. \A u \in Tids : /\ worker'[u] = "none" <=> worker[u] = "none"
                        /\ worker'[u] = "count" => i'[u] < iters
                        /\ worker'[u] = "none" => i'[u] = 0
    BY Zenon, <2>1 DEF Shape, TypeOK
  <2> QED
    BY Zenon, <2>1, <2>2, <2>3, <2>4 DEF Shape, TypeOK
<1>10. CASE UNCHANGED vars
  BY Zenon, <1>10 DEF vars, shared, Shape, TypeOK
<1> QED
  BY Zenon, <1>1, <1>2, <1>3, <1>4, <1>5, <1>6, <1>7, <1>8, <1>9, <1>10 DEF Next, Main, Worker

\* The program starts in that shape.
LEMMA ShapeInit == Init => Shape
<1> SUFFICES ASSUME Init PROVE Shape
  BY Zenon
<1>1. 0 \in Tids /\ \A t \in Tids : t >= 0
  BY GupsAssumption DEF Tids
<1>2. TypeOK
  <2>1. i \in [Tids -> 0 .. iters] /\ thread_gups \in [Tids -> Nat]
    BY SizesAreNumbers DEF Init
  <2>2. tic \in -1 .. StopTic
    BY GupsAssumption DEF Init
  <2>3. printer.next \in -1 .. Threads
    BY GupsAssumption DEF Init
  <2>4. tot_updates \in Int /\ reported \in Int
    BY DEF Init
  <2>5. move_hotset1 \in BOOLEAN /\ stop \in BOOLEAN /\ crashed \in BOOLEAN
    BY Zenon DEF Init
  <2>6. /\ main \in {"spawn", "join", "report", "reset", "munmap", "done"}
        /\ worker \in [Tids -> {"none", "access", "count", "done"}]
    BY Zenon DEF Init
  <2> QED
    BY Zenon, <2>1, <2>2, <2>3, <2>4, <2>5, <2>6 DEF TypeOK
<1>3. printer \in [next : -1 .. Threads, tot : Nat, last : Nat]
  BY GupsAssumption DEF Init
<1>4. \E n \in Tids : \A t \in Tids : worker[t] = "none" <=> t >= n
  BY Zenon, <1>1 DEF Init
<1> QED
  BY Zenon, <1>2, <1>3, <1>4 DEF Init, Shape

\* The variables the threads share without a lock keep their kinds: no worker's
\* loop runs past its end, and the printer's index stays within thread_gups.
THEOREM GupsTypeCorrect == Spec => []TypeOK
<1>1. Shape => TypeOK
  BY Zenon DEF Shape
<1> QED
  BY <1>1, ShapeInit, ShapeNext, PTL DEF Spec

-----------------------------------------------------------------------------
\* stop is set once, and the counters of that moment are kept; a worker that is
\* not done has not gone on since.
StopSteps ==
  /\ stop => tic >= StopTic
  /\ stoppedAt \in [Tids -> Nat]
  /\ ~stop => stoppedAt = [t \in Tids |-> iters]
  /\ stop => \A t \in Tids : /\ worker[t] # "done" => i[t] = stoppedAt[t]
                             /\ i[t] <= stoppedAt[t] + 1

\* They are inductive.
LEMMA StopStepsNext == Shape /\ StopSteps /\ [Next]_vars => StopSteps'
<1> SUFFICES ASSUME Shape, StopSteps, [Next]_vars PROVE StopSteps'
  BY Zenon
<1> USE SizesAreNumbers
<1>1. CASE Spawn
  <2>1. PICK n \in Tids : /\ \A t \in Tids : worker[t] = "none" <=> t >= n
                          /\ worker' = [worker EXCEPT ![n] = "access"]
    BY Zenon, <1>1, SpawnedInOrder DEF Spawn
  <2>2. worker[n] = "none"
    BY <2>1
  <2>3. \A t \in Tids : worker'[t] # "done" => worker[t] # "done"
    BY Zenon, <2>1, <2>2 DEF Shape, TypeOK
  <2> QED
    BY Zenon, <1>1, <2>3 DEF Spawn, shared, StopSteps
<1>2. CASE \/ SpawnFails \/ Join \/ Report \/ Reset \/ Return \/ OpenTotals \/ AddThread
           \/ AddSecond \/ UNCHANGED vars
  <2>1. UNCHANGED <<stop, tic, worker, i, stoppedAt>>
    BY Zenon, <1>2 DEF SpawnFails, Join, Report, Reset, Return, OpenTotals, AddThread, AddSecond,
                shared, vars
  <2> QED
    BY Zenon, <2>1 DEF StopSteps
<1>3. CASE Tic
  <2>1. ~stop
    BY <1>3, GupsAssumption DEF Tic, StopSteps, Shape, TypeOK
  <2>2. /\ stop' = (tic' >= StopTic) /\ UNCHANGED <<worker, i>>
        /\ stoppedAt' = IF stop' THEN i ELSE stoppedAt
    BY Zenon, <1>3 DEF Tic
  <2>3. i \in [Tids -> Nat]
    BY DEF Shape, TypeOK
  <2>4. CASE stop'
    <3>1. stoppedAt' = i /\ i' = i /\ tic' >= StopTic
      BY Zenon, <2>2, <2>4
    <3>2. \A t \in Tids : i[t] <= i[t] + 1
      BY <2>3
    <3> QED
      BY Zenon, <2>3, <2>4, <3>1, <3>2 DEF StopSteps
  <2>5. CASE ~stop'
    BY Zenon, <2>1, <2>2, <2>5 DEF StopSteps
  <2> QED
    BY Zenon, <2>4, <2>5
<1>4. ASSUME NEW t \in Tids, Access(t) PROVE StopSteps'
  <2>1. /\ worker[t] = "access" /\ UNCHANGED <<i, stop, tic, stoppedAt>>
        /\ worker' \in {[worker EXCEPT ![t] = "count"], [worker EXCEPT ![t] = "done"]}
    BY Zenon, <1>4 DEF Access, shared
  <2>2. \A u \in Tids : worker'[u] # "done" => worker[u] # "done"
    BY Zenon, <2>1 DEF Shape, TypeOK
  <2> QED
    BY Zenon, <2>1, <2>2 DEF StopSteps
<1>5. ASSUME NEW t \in Tids, Count(t) PROVE StopSteps'
  <2>1. /\ worker[t] = "count" /\ UNCHANGED <<stop, tic, stoppedAt>>
        /\ i' = [i EXCEPT ![t] = i[t] + 1]
        /\ worker' = [worker EXCEPT ![t] = IF stop THEN "done" ELSE "access"]
    BY Zenon, <1>5 DEF Count
  <2>2. i \in [Tids -> Nat] /\ worker \in [Tids -> {"none", "access", "count", "done"}]
    BY DEF Shape, TypeOK
  <2>3. CASE stop
    <3>1. i[t] = stoppedAt[t] /\ stoppedAt[t] \in Nat
      BY Zenon, <2>1, <2>3 DEF StopSteps
    <3>2. \A u \in Tids : /\ worker'[u] # "done" => i'[u] = stoppedAt[u]
                          /\ i'[u] <= stoppedAt[u] + 1
      BY <2>1, <2>2, <2>3, <3>1 DEF StopSteps
    <3> QED
      BY Zenon, <2>1, <2>3, <3>2 DEF StopSteps
  <2>4. CASE ~stop
    BY Zenon, <2>1, <2>4 DEF StopSteps
  <2> QED
    BY Zenon, <2>3, <2>4
<1> QED
  BY Zenon, <1>1, <1>2, <1>3, <1>4, <1>5 DEF Next, Main, Worker

\* However the threads are scheduled, a worker makes at most one more update once
\* the timer has set stop, which it reads without a lock.
THEOREM StopCorrect == Spec => []StopsWithinOne
<1>1. Init => StopSteps
  BY Zenon, SizesAreNumbers DEF Init, StopSteps
<1>2. Shape /\ StopSteps => StopsWithinOne
  <2> SUFFICES ASSUME Shape, StopSteps, NEW t \in Tids PROVE i[t] <= stoppedAt[t] + 1
    BY Zenon DEF StopsWithinOne
  <2>1. CASE stop
    BY Zenon, <2>1 DEF StopSteps
  <2>2. CASE ~stop
    BY <2>2, SizesAreNumbers DEF StopSteps, Shape, TypeOK
  <2> QED
    BY Zenon, <2>1, <2>2
<1> QED
  BY <1>1, <1>2, ShapeInit, ShapeNext, StopStepsNext, PTL DEF Spec

-----------------------------------------------------------------------------
\* What a worker can reach are numbers.
LEMMA ReachIsNumber ==
  /\ Reach \in Nat \ {0} /\ nelems <= Reach /\ hotsize <= Reach
  /\ move_hotset1 => hotsize + hotsize \div 4 <= Reach
BY SizesAreNumbers DEF Reach

\* So many elements have no fewer bytes than fewer of them.
LEMMA TimesMonotone == \A a, b, c \in Nat : a * c \in Nat /\ (a <= b => a * c <= b * c)
<1>1. ASSUME NEW a \in Nat, NEW b \in Nat, NEW c \in Nat, a <= b PROVE a * c <= b * c
  <2>1. b - a \in Nat /\ b = a + (b - a)
    BY <1>1
  <2>2. \A d \in Nat : (a + d) * c = a * c + d * c /\ d * c \in Nat /\ a * c \in Nat
    BY <1>1
  <2> QED
    BY <2>1, <2>2
<1> QED
  BY <1>1

\* An element within reach is not behind the last one.
LEMMA ElementWithin ==
  ASSUME NEW t \in Tids, NEW m \in Nat \ {0}, NEW n \in 0 .. m - 1
  PROVE  Bytes(t, n) \subseteq Start(t) .. (Start(t) + (m - 1) * Stride + EltSize - 1)
<1>1. Stride \in Nat /\ EltSize \in Nat
  BY GupsAssumption DEF Stride
<1>2. Start(t) \in Nat
  <2>1. t \in Nat /\ nelems \in Nat
    BY Zenon, SizesAreNumbers
  <2>2. t * nelems \in Nat
    BY <2>1
  <2> QED
    BY <1>1, <2>2 DEF Start
<1>4. n \in Nat /\ m - 1 \in Nat /\ n <= m - 1
  OBVIOUS
<1> DEFINE p == n * Stride
           q == (m - 1) * Stride
           start == Start(t)
<1>5. p \in Nat /\ q \in Nat /\ p <= q
  BY Zenon, <1>1, <1>4, TimesMonotone
<1>6. Bytes(t, n) = (start + p) .. (start + p + EltSize - 1)
  BY Zenon DEF Bytes
<1>7. start \in Nat
  BY Zenon, <1>2
<1> HIDE DEF p, q, start
<1>8. (start + p) .. (start + p + EltSize - 1) \subseteq start .. (start + q + EltSize - 1)
  BY <1>1, <1>5, <1>7
<1> QED
  BY Zenon, <1>6, <1>8 DEF q, start

\* A longer reach is no less.
LEMMA LongerReach ==
  ASSUME NEW t \in Tids, NEW m \in Nat \ {0}, NEW n \in Nat \ {0}, m <= n
  PROVE  Start(t) .. (Start(t) + (m - 1) * Stride + EltSize - 1)
           \subseteq Start(t) .. (Start(t) + (n - 1) * Stride + EltSize - 1)
<1>1. Stride \in Nat /\ EltSize \in Nat
  BY GupsAssumption DEF Stride
<1>2. Start(t) \in Nat
  <2>1. t \in Nat /\ nelems \in Nat
    BY Zenon, SizesAreNumbers
  <2>2. t * nelems \in Nat
    BY <2>1
  <2> QED
    BY <1>1, <2>2 DEF Start
<1>3. m - 1 \in Nat /\ n - 1 \in Nat /\ m - 1 <= n - 1
  OBVIOUS
<1> DEFINE p == (m - 1) * Stride
           q == (n - 1) * Stride
           start == Start(t)
<1>6. q \in Nat /\ p \in Nat /\ p <= q
  BY Zenon, <1>1, <1>3, TimesMonotone
<1>7. start \in Nat
  BY Zenon, <1>2
<1> HIDE DEF p, q, start
<1>8. start .. (start + p + EltSize - 1) \subseteq start .. (start + q + EltSize - 1)
  BY <1>1, <1>6, <1>7
<1> QED
  BY Zenon, <1>8 DEF p, q, start

\* Whatever the sizes, also those with no room behind the hot set, a worker is
\* within its region and the reach of the hot set, that of the moved one only once
\* it has moved: at most a quarter of the hot set further than before.
THEOREM RegionCorrect == Spec => []ExceedsByQuarter
<1> DEFINE Inv == bytes \in [Tids -> SUBSET Int] /\ move_hotset1 \in BOOLEAN /\ ExceedsByQuarter
<1>1. Init => Inv
  BY Zenon DEF Init, ExceedsByQuarter
<1>2. Inv /\ [Next]_vars => Inv'
  <2> SUFFICES ASSUME Inv, [Next]_vars PROVE Inv'
    BY Zenon
  <2>1. ASSUME NEW t \in Tids, Access(t) PROVE Inv'
    <3>1. ASSUME NEW n \in 0 .. hotsize - 1 PROVE HotIndex(n) \in 0 .. Reach - 1
      BY <3>1, SizesAreNumbers, ReachIsNumber DEF HotIndex
    <3>2. ASSUME NEW n \in 0 .. nelems - 1 PROVE n \in 0 .. Reach - 1
      BY <3>2, SizesAreNumbers, ReachIsNumber
    <3>3. \/ bytes' = bytes
          \/ \E n \in 0 .. Reach - 1 : bytes' = [bytes EXCEPT ![t] = Bytes(t, n)]
      BY Zenon, <2>1, <3>1, <3>2 DEF Access
    <3>4. ASSUME NEW n \in 0 .. Reach - 1
          PROVE  Bytes(t, n) \subseteq Start(t) .. (Start(t) + (Reach - 1) * Stride + EltSize - 1)
      BY Zenon, ElementWithin, ReachIsNumber
    <3>5. ASSUME NEW n \in 0 .. Reach - 1 PROVE Bytes(t, n) \subseteq Int
      BY DEF Bytes
    <3>6. move_hotset1' = move_hotset1
      BY Zenon, <2>1 DEF Access, shared
    <3>7. Reach' = Reach
      BY Zenon, <3>6 DEF Reach
    <3> QED
      BY Zenon, <3>3, <3>4, <3>5, <3>6, <3>7 DEF ExceedsByQuarter
  <2>2. CASE ~(\E t \in Tids : Access(t))
    <3>1. bytes' = bytes
      BY Zenon, <2>2 DEF Next, Main, Worker, Spawn, SpawnFails, Join, Report, Reset, Return, Tic,
                  OpenTotals, AddThread, AddSecond, Count, vars
    <3>2. move_hotset1' \in BOOLEAN /\ (move_hotset1 => move_hotset1')
      <4>1. CASE Tic
        BY <4>1 DEF Tic
      <4>2. CASE ~Tic
        BY Zenon, <2>2, <4>2 DEF Next, Main, Worker, Spawn, SpawnFails, Join, Report, Reset, Return,
                    OpenTotals, AddThread, AddSecond, Count, vars, shared
      <4> QED
        BY Zenon, <4>1, <4>2
    <3>3. Reach <= Reach' /\ Reach \in Nat \ {0} /\ Reach' \in Nat \ {0}
      BY <3>2, SizesAreNumbers DEF Reach
    <3>4. ASSUME NEW t \in Tids
          PROVE  bytes[t] \subseteq Start(t) .. (Start(t) + (Reach' - 1) * Stride + EltSize - 1)
      BY Zenon, <3>3, LongerReach DEF ExceedsByQuarter
    <3> QED
      BY Zenon, <3>1, <3>2, <3>4 DEF ExceedsByQuarter
  <2> QED
    BY Zenon, <2>1, <2>2
<1>3. Inv => ExceedsByQuarter
  BY Zenon
<1> QED
  BY <1>1, <1>2, <1>3, PTL DEF Spec

-----------------------------------------------------------------------------
(***************************************************************************)
(* The report.                                                             *)
(***************************************************************************)

\* A set of numbers has a least one ...
LEMMA Least ==
  ASSUME NEW T \in SUBSET Nat, T # {}
  PROVE  \E m \in T : \A x \in T : m <= x
<1> DEFINE Less == {p \in Nat \X Nat : p[1] < p[2]}
<1>1. IsWellFoundedOn(Less, Nat)
  BY Zenon, NatLessThanWellFounded DEF OpToRel
<1>2. PICK m \in T : \A y \in T : ~(<<y, m>> \in Less)
  BY Zenon, <1>1, WFMin
<1>3. ASSUME NEW y \in T PROVE m <= y
  <2>1. <<y, m>> \in Less <=> y < m
    BY Zenon
  <2>2. ~(y < m)
    BY Zenon, <1>2, <2>1
  <2>3. y \in Nat /\ m \in Nat
    BY Zenon
  <2> QED
    BY <2>2, <2>3
<1> QED
  BY Zenon, <1>3

\* ... so what holds of 0 and goes from each number to the next holds of all.
LEMMA Induction ==
  ASSUME NEW T, 0 \in T, \A n \in Nat : n \in T => n + 1 \in T
  PROVE  \A n \in Nat : n \in T
<1> SUFFICES ASSUME Nat \ T # {} PROVE FALSE
  BY Zenon
<1>1. PICK m \in Nat \ T : \A x \in Nat \ T : m <= x
  BY Zenon, Least
<1>2. m # 0 /\ m - 1 \in Nat
  BY <1>1
<1>3. m - 1 \in T
  BY <1>1, <1>2
<1> QED
  BY <1>1, <1>2, <1>3

\* s has the sums of the first elements of f, up to m of them.
PartialSums(s, f, m) ==
  /\ s \in [0 .. m -> Int] /\ s[0] = 0
  /\ \A t \in 0 .. m - 1 : s[t + 1] = s[t] + f[t]

\* There are such sums ...
LEMMA PartialSumsExist ==
  ASSUME NEW f \in [Tids -> Int]
  PROVE  \E s : PartialSums(s, f, Threads)
<1> DEFINE T == {m \in Nat : m <= Threads => \E s : PartialSums(s, f, m)}
<1>1. 0 \in T
  <2>1. PartialSums([t \in 0 .. 0 |-> 0], f, 0)
    BY DEF PartialSums
  <2> QED
    BY Zenon, <2>1
<1>2. ASSUME NEW m \in Nat, m \in T PROVE m + 1 \in T
  <2> SUFFICES ASSUME m + 1 <= Threads PROVE \E s : PartialSums(s, f, m + 1)
    OBVIOUS
  <2>1. PICK s : PartialSums(s, f, m)
    BY <1>2, GupsAssumption
  <2> DEFINE r == [t \in 0 .. m + 1 |-> IF t = m + 1 THEN s[m] + f[m] ELSE s[t]]
  <2>2. f[m] \in Int /\ s[m] \in Int
    BY <2>1, GupsAssumption DEF PartialSums, Tids
  <2>3. r \in [0 .. m + 1 -> Int] /\ r[0] = 0
    BY <2>1, <2>2 DEF PartialSums
  <2>4. ASSUME NEW t \in 0 .. m PROVE r[t + 1] = r[t] + f[t]
    <3>1. r[t] = s[t] /\ t + 1 \in 0 .. m + 1
      OBVIOUS
    <3>2. CASE t = m
      BY Zenon, <3>1, <3>2
    <3>3. CASE t < m
      <4>1. t + 1 # m + 1 /\ t \in 0 .. m - 1
        BY <3>3
      <4>2. r[t + 1] = s[t + 1]
        BY Zenon, <3>1, <4>1
      <4> QED
        BY Zenon, <2>1, <3>1, <4>1, <4>2 DEF PartialSums
    <3> QED
      BY <3>2, <3>3
  <2> HIDE DEF r
  <2>5. 0 .. (m + 1) - 1 = 0 .. m
    OBVIOUS
  <2>6. PartialSums(r, f, m + 1)
    BY Zenon, <2>3, <2>4, <2>5 DEF PartialSums
  <2> QED
    BY Zenon, <2>6
<1> HIDE DEF T
<1>3. Threads \in T
  BY Zenon, <1>1, <1>2, Induction, GupsAssumption
<1> QED
  BY <1>3, GupsAssumption DEF T

\* ... and Sum is the last of them.
LEMMA SumIs ==
  ASSUME NEW f \in [Tids -> Int]
  PROVE  \E s : PartialSums(s, f, Threads) /\ Sum(f) = s[Threads]
<1> DEFINE Is(s) == s = [t \in 0 .. Threads |-> IF t = 0 THEN 0 ELSE s[t - 1] + f[t - 1]]
<1>1. PICK s : PartialSums(s, f, Threads)
  BY Zenon, PartialSumsExist
<1>2. Is(s)
  <2>1. s = [t \in 0 .. Threads |-> s[t]]
    BY Zenon, <1>1 DEF PartialSums
  <2>2. \A t \in 0 .. Threads : s[t] = IF t = 0 THEN 0 ELSE s[t - 1] + f[t - 1]
    BY <1>1, GupsAssumption DEF PartialSums
  <2> QED
    BY Zenon, <2>1, <2>2
<1> DEFINE c == CHOOSE r : Is(r)
<1>3. Is(c)
  BY Zenon, <1>2
<1>4. Sum(f) = c[Threads]
  BY Zenon DEF Sum
<1> HIDE DEF c
<1>5. PartialSums(c, f, Threads)
  <2>1. \A t \in 0 .. Threads : c[t] = s[t]
    <3> DEFINE T == {m \in Nat : m <= Threads => c[m] = s[m]}
    <3>1. 0 \in T
      BY <1>1, <1>3, GupsAssumption DEF PartialSums
    <3>2. ASSUME NEW m \in Nat, m \in T PROVE m + 1 \in T
      BY <1>1, <1>3, <3>2, GupsAssumption DEF PartialSums
    <3> HIDE DEF T
    <3>3. \A m \in Nat : m \in T
      BY Zenon, <3>1, <3>2, Induction
    <3> QED
      BY <3>3, GupsAssumption DEF T
  <2>2. c = [t \in 0 .. Threads |-> c[t]]
    BY Zenon, <1>3
  <2>3. s = [t \in 0 .. Threads |-> s[t]]
    BY Zenon, <1>1 DEF PartialSums
  <2>4. c = s
    BY Zenon, <2>1, <2>2, <2>3
  <2> QED
    BY Zenon, <1>1, <2>4
<1> QED
  BY Zenon, <1>4, <1>5

\* Sums whose steps are at most the elements of f are at most the sum of f.
LEMMA SumBounds ==
  ASSUME NEW f \in [Tids -> Int], NEW s \in [0 .. Threads -> Int], s[0] = 0,
         \A t \in Tids : s[t + 1] <= s[t] + f[t]
  PROVE  s[Threads] <= Sum(f) /\ Sum(f) \in Int
<1>1. PICK r : PartialSums(r, f, Threads) /\ Sum(f) = r[Threads]
  BY Zenon, SumIs
<1> DEFINE T == {m \in Nat : m <= Threads => s[m] <= r[m]}
<1>2. 0 \in T
  BY <1>1, GupsAssumption DEF PartialSums
<1>3. ASSUME NEW m \in Nat, m \in T PROVE m + 1 \in T
  <2> SUFFICES ASSUME m + 1 <= Threads PROVE s[m + 1] <= r[m + 1]
    OBVIOUS
  <2>1. m \in Tids /\ m \in 0 .. Threads /\ m + 1 \in 0 .. Threads /\ m <= Threads
    BY GupsAssumption DEF Tids
  <2>2. s[m] <= r[m] /\ s[m + 1] <= s[m] + f[m]
    BY Zenon, <1>3, <2>1
  <2>3. r[m + 1] = r[m] + f[m] /\ r[m] \in Int /\ r[m + 1] \in Int
    BY Zenon, <1>1, <2>1 DEF PartialSums, Tids
  <2>4. s[m] \in Int /\ s[m + 1] \in Int /\ f[m] \in Int
    BY Zenon, <2>1
  <2> QED
    BY <2>2, <2>3, <2>4
<1> HIDE DEF T
<1>4. Threads \in T
  BY Zenon, <1>2, <1>3, Induction, GupsAssumption
<1>5. Threads \in Nat /\ Threads <= Threads /\ Threads \in 0 .. Threads
  BY GupsAssumption
<1> QED
  BY Zenon, <1>1, <1>4, <1>5 DEF T, PartialSums

\* A worker counts its updates in chunks, ahead of them.
Slack(k) == IF k % Chunk = 0 THEN 0 ELSE Chunk - (k % Chunk)
Counters == \A t \in Tids : thread_gups[t] = i[t] + Slack(i[t])

\* What the printer has read in the last second and in this one, summed up: the
\* total is at most what it had read by the end of the last, and it has read no
\* less of a thread in this second.
Snapshot(prev, cur) ==
  /\ prev[0] = 0 /\ prev[Threads] = printer.last /\ tot_updates <= printer.last
  /\ cur[0] = 0 /\ printer.tot = IF printer.next = -1 THEN 0 ELSE cur[printer.next]
  /\ \A t \in Tids : /\ prev[t + 1] <= prev[t] + thread_gups[t]
                     /\ t < printer.next => cur[t + 1] <= cur[t] + thread_gups[t]
  /\ \A t \in 0 .. Threads : t <= printer.next => prev[t] <= cur[t]

Snapshots == \E prev, cur \in [0 .. Threads -> Nat] : Snapshot(prev, cur)

ReportSteps ==
  /\ main \notin {"spawn", "join"} => \A t \in Tids : worker[t] = "done"
  /\ main \in {"spawn", "join", "report"} => reported = -1 /\ Counters /\ Snapshots
  /\ ReportedWasDone

\* A number less than a chunk that a multiple of the chunk makes up is 0.
LEMMA MultipleIsZero ==
  ASSUME NEW c \in Nat \ {0}, NEW d \in Int
  PROVE  /\ d >= 1 => c * d >= c
         /\ d <= -1 => c * d <= -c
<1>1. ASSUME d >= 1 PROVE c * d >= c
  <2>1. c * d = c + c * (d - 1)
    OBVIOUS
  <2>2. c * (d - 1) >= 0
    BY <1>1
  <2> QED
    BY <2>1, <2>2
<1>2. ASSUME d <= -1 PROVE c * d <= -c
  <2>1. c * d = -c - c * (-d - 1)
    OBVIOUS
  <2>2. c * (-d - 1) >= 0
    BY <1>2
  <2> QED
    BY <2>1, <2>2
<1> QED
  BY Zenon, <1>1, <1>2

\* The remainder of the next number.
LEMMA NextRemainder ==
  ASSUME NEW c \in Nat \ {0}, NEW k \in Nat
  PROVE  (k + 1) % c = IF k % c = c - 1 THEN 0 ELSE (k % c) + 1
<1> DEFINE q == k \div c
           r == k % c
           Q == (k + 1) \div c
           R == (k + 1) % c
<1>1. q \in Int /\ r \in 0 .. c - 1 /\ k = c * q + r
  OBVIOUS
<1>2. Q \in Int /\ R \in 0 .. c - 1 /\ k + 1 = c * Q + R
  OBVIOUS
<1> HIDE DEF q, r, Q, R
<1>3. c * (Q - q) = r + 1 - R
  BY <1>1, <1>2
<1>4. r + 1 - R \in (2 - c) .. c
  BY <1>1, <1>2
<1>5. ~ (Q - q <= -1)
  BY <1>1, <1>2, <1>3, <1>4, MultipleIsZero
<1>6. ~ (Q - q >= 2)
  <2> SUFFICES ASSUME Q - q >= 2 PROVE FALSE
    BY Zenon
  <2>1. c * (Q - q - 1) = c * (Q - q) - c /\ Q - q - 1 \in Int /\ Q - q - 1 >= 1
    BY <1>1, <1>2
  <2>2. c * (Q - q - 1) >= c
    BY Zenon, <2>1, MultipleIsZero
  <2> QED
    BY <1>1, <1>2, <1>3, <1>4, <2>1, <2>2
<1>7. CASE Q = q
  <2>1. c * (Q - q) = 0
    BY <1>1, <1>7
  <2> QED
    BY <1>1, <1>2, <1>3, <2>1 DEF r, R
<1>8. CASE Q = q + 1
  <2>1. c * (Q - q) = c
    BY <1>1, <1>8
  <2> QED
    BY <1>1, <1>2, <1>3, <2>1 DEF r, R
<1> QED
  BY <1>1, <1>2, <1>5, <1>6, <1>7, <1>8

\* The chunk that is counted next.
LEMMA SlackNext ==
  ASSUME NEW k \in Nat
  PROVE  /\ Slack(k) \in 0 .. Chunk - 1
         /\ k + (Slack(k) + (IF k % Chunk = 0 THEN Chunk ELSE 0)) = (k + 1) + Slack(k + 1)
<1>1. Chunk \in Nat \ {0}
  BY Zenon, GupsAssumption
<1>2. k % Chunk \in 0 .. Chunk - 1
  BY <1>1
<1>3. (k + 1) % Chunk = IF k % Chunk = Chunk - 1 THEN 0 ELSE (k % Chunk) + 1
  BY Zenon, <1>1, NextRemainder
<1> QED
  BY <1>1, <1>2, <1>3 DEF Slack

\* The snapshots stand while the counters only grow.
LEMMA SnapshotsFrame ==
  ASSUME Shape, Shape', Snapshots, UNCHANGED <<printer, tot_updates>>,
         \A t \in Tids : thread_gups[t] <= thread_gups'[t]
  PROVE  Snapshots'
<1>1. PICK prev, cur \in [0 .. Threads -> Nat] : Snapshot(prev, cur)
  BY Zenon DEF Snapshots
<1>2. \A t \in Tids : /\ t \in 0 .. Threads /\ t + 1 \in 0 .. Threads
                      /\ thread_gups[t] \in Nat /\ thread_gups'[t] \in Nat
  <2>1. \A t \in Tids : thread_gups[t] \in Nat /\ thread_gups'[t] \in Nat
    BY Zenon DEF Shape, TypeOK
  <2> QED
    BY <2>1, GupsAssumption DEF Tids
<1>3. ASSUME NEW t \in Tids
      PROVE  /\ prev[t + 1] <= prev[t] + thread_gups'[t]
             /\ t < printer.next => cur[t + 1] <= cur[t] + thread_gups'[t]
  <2>1. prev[t] \in Nat /\ prev[t + 1] \in Nat /\ cur[t] \in Nat /\ cur[t + 1] \in Nat
    BY Zenon, <1>2
  <2>2. /\ prev[t + 1] <= prev[t] + thread_gups[t]
        /\ t < printer.next => cur[t + 1] <= cur[t] + thread_gups[t]
    BY Zenon, <1>1 DEF Snapshot
  <2>3. thread_gups[t] <= thread_gups'[t]
    BY Zenon
  <2> QED
    BY <1>2, <2>1, <2>2, <2>3
<1>4. Snapshot(prev, cur)'
  BY Zenon, <1>1, <1>3 DEF Snapshot
<1> QED
  BY Zenon, <1>4 DEF Snapshots

\* The printer reads a counter.
LEMMA SnapshotsAdd ==
  ASSUME Shape, Snapshots, AddThread
  PROVE  Snapshots'
<1>1. PICK prev, cur \in [0 .. Threads -> Nat] : Snapshot(prev, cur)
  BY Zenon DEF Snapshots
<1> DEFINE n == printer.next
<1>2. n \in Tids /\ n \in Nat /\ n \in 0 .. Threads /\ n + 1 \in 0 .. Threads
  <2>1. Threads \in Nat
    BY Zenon, GupsAssumption
  <2>2. n \in Tids
    BY Zenon DEF AddThread
  <2> HIDE DEF n
  <2> QED
    BY <2>1, <2>2 DEF Tids
<1>3. printer'.next = n + 1 /\ printer'.tot = printer.tot + thread_gups[n]
      /\ printer'.last = printer.last /\ UNCHANGED <<thread_gups, tot_updates>>
  BY Zenon DEF AddThread, Shape, shared
<1>4. thread_gups[n] \in Nat /\ cur[n] \in Nat /\ prev[n] \in Nat /\ prev[n + 1] \in Nat
  BY Zenon, <1>2 DEF Shape, TypeOK
<1> HIDE DEF n
<1>5. PICK read \in [0 .. Threads -> Nat] :
        /\ read[n + 1] = cur[n] + thread_gups[n]
        /\ \A t \in 0 .. Threads : t <= n => read[t] = cur[t]
  <2> DEFINE r == [cur EXCEPT ![n + 1] = cur[n] + thread_gups[n]]
  <2>1. r \in [0 .. Threads -> Nat] /\ r[n + 1] = cur[n] + thread_gups[n]
        /\ \A t \in 0 .. Threads : t <= n => r[t] = cur[t]
    BY <1>2, <1>4
  <2> QED
    BY Zenon, <2>1
<1>6. printer'.tot = read[n + 1]
  BY <1>1, <1>2, <1>3, <1>5 DEF Snapshot, n
<1>7. ASSUME NEW t \in Tids, t < n + 1 PROVE read[t + 1] <= read[t] + thread_gups[t]
  <2>1. t \in 0 .. Threads /\ t + 1 \in 0 .. Threads /\ t <= n
    BY <1>2, <1>7, GupsAssumption DEF Tids
  <2>2. CASE t = n
    BY <1>2, <1>4, <1>5, <2>1, <2>2
  <2>3. CASE t < n
    <3>1. t + 1 <= n
      BY <1>2, <2>1, <2>3
    <3> QED
      BY Zenon, <1>1, <1>5, <2>1, <2>3, <3>1 DEF Snapshot, n
  <2> QED
    BY <1>2, <2>1, <2>2, <2>3
<1>8. ASSUME NEW t \in 0 .. Threads, t <= n + 1 PROVE prev[t] <= read[t]
  <2>1. CASE t <= n
    BY Zenon, <1>1, <1>5, <1>8, <2>1 DEF Snapshot, n
  <2>2. CASE t = n + 1
    <3>1. prev[n + 1] <= prev[n] + thread_gups[n] /\ prev[n] <= cur[n]
      BY <1>1, <1>2 DEF Snapshot, n
    <3> QED
      BY <1>4, <1>5, <2>2, <3>1
  <2> QED
    BY <1>2, <1>8, <2>1, <2>2
<1>9. read[0] = 0
  BY <1>1, <1>2, <1>5, GupsAssumption DEF Snapshot
<1>10. n + 1 # -1
  BY <1>2
<1>11. Snapshot(prev, read)'
  BY Zenon, <1>1, <1>3, <1>6, <1>7, <1>8, <1>9, <1>10 DEF Snapshot
<1> QED
  BY Zenon, <1>5, <1>11 DEF Snapshots

\* A second ends: the total gains at most what this second has more than the last.
LEMMA SnapshotsSecond ==
  ASSUME Shape, Snapshots, AddSecond
  PROVE  Snapshots'
<1>1. PICK prev, cur \in [0 .. Threads -> Nat] : Snapshot(prev, cur)
  BY Zenon DEF Snapshots
<1> DEFINE none == [t \in 0 .. Threads |-> 0]
<1>2. Threads \in 0 .. Threads /\ 0 \in 0 .. Threads /\ Threads # -1
  BY GupsAssumption
<1>3. printer.next = Threads /\ printer' = [next |-> 0, tot |-> 0, last |-> printer.tot]
      /\ tot_updates' = tot_updates + Abs(printer.tot - printer.last)
      /\ thread_gups' = thread_gups
  BY Zenon DEF AddSecond
<1>4. prev[Threads] <= cur[Threads] /\ printer.tot = cur[Threads] /\ printer.last = prev[Threads]
      /\ tot_updates <= printer.last
  BY <1>1, <1>2, <1>3 DEF Snapshot
<1>5. cur[Threads] \in Nat /\ prev[Threads] \in Nat
  BY Zenon, <1>2
<1>6. tot_updates' <= printer.tot
  <2> DEFINE d == printer.tot - printer.last
             a == Abs(d)
  <2>1. d \in Int /\ d >= 0
    BY <1>4, <1>5
  <2>2. a \in Int /\ a <= d
    BY Zenon, <2>1, AbsBounded
  <2>3. tot_updates' = tot_updates + a /\ tot_updates \in Int
    BY Zenon, <1>3 DEF Shape, TypeOK
  <2> HIDE DEF a
  <2> QED
    BY <1>4, <1>5, <2>2, <2>3
<1>7. \A t \in Tids : t \in Nat /\ t < Threads
  BY GupsAssumption DEF Tids
<1>8. \A t \in Tids : cur[t + 1] <= cur[t] + thread_gups[t]
  BY Zenon, <1>1, <1>3, <1>7 DEF Snapshot
<1>9. cur[0] = 0
  BY Zenon, <1>1 DEF Snapshot
<1>10. none \in [0 .. Threads -> Nat] /\ none[0] = 0
  BY Zenon, <1>2
<1>11. \A t \in 0 .. Threads : t <= 0 => t = 0
  BY GupsAssumption
<1> HIDE DEF none
<1>12. Snapshot(cur, none)'
  BY <1>3, <1>4, <1>6, <1>7, <1>8, <1>9, <1>10, <1>11 DEF Snapshot
<1> QED
  BY Zenon, <1>10, <1>12 DEF Snapshots

\* The report is at most the updates made and a chunk less one of each worker.
LEMMA ReportBounded ==
  ASSUME Shape, Counters, Snapshots
  PROVE  tot_updates <= Sum([t \in Tids |-> i[t] + Chunk - 1])
<1> DEFINE f == [t \in Tids |-> i[t] + Chunk - 1]
<1>1. PICK prev, cur \in [0 .. Threads -> Nat] : Snapshot(prev, cur)
  BY Zenon DEF Snapshots
<1>2. \A t \in Tids : i[t] \in Nat
  BY SizesAreNumbers DEF Shape, TypeOK
<1>3. f \in [Tids -> Int]
  BY <1>2, GupsAssumption
<1>4. ASSUME NEW t \in Tids PROVE prev[t + 1] <= prev[t] + f[t]
  <2> DEFINE slack == Slack(i[t])
  <2>1. slack \in Nat /\ slack <= Chunk - 1
    <3>1. slack \in 0 .. Chunk - 1
      BY Zenon, <1>2, SlackNext
    <3> HIDE DEF slack
    <3> QED
      BY <3>1, GupsAssumption
  <2>2. thread_gups[t] = i[t] + slack /\ prev[t + 1] <= prev[t] + thread_gups[t]
    BY Zenon, <1>1 DEF Counters, Snapshot
  <2>3. prev[t] \in Nat /\ prev[t + 1] \in Nat
    BY GupsAssumption DEF Tids
  <2>4. f[t] = i[t] + Chunk - 1
    BY Zenon
  <2>5. i[t] \in Nat /\ Chunk \in Nat
    BY Zenon, <1>2, GupsAssumption
  <2> HIDE DEF f, slack
  <2> QED
    BY <2>1, <2>2, <2>3, <2>4, <2>5
<1>5. prev[0] = 0 /\ prev[Threads] = printer.last /\ tot_updates <= printer.last
  BY Zenon, <1>1 DEF Snapshot
<1>6. prev \in [0 .. Threads -> Int]
  OBVIOUS
<1> HIDE DEF f
<1>7. prev[Threads] <= Sum(f)
  BY Zenon, <1>3, <1>4, <1>5, <1>6, SumBounds
<1>8. tot_updates \in Int /\ prev[Threads] \in Int /\ Sum(f) \in Int
  <2>1. Threads \in 0 .. Threads
    BY GupsAssumption
  <2> QED
    BY Zenon, <1>3, <1>4, <1>5, <1>6, <2>1, SumBounds DEF Shape, TypeOK
<1>9. tot_updates <= Sum(f)
  BY <1>5, <1>7, <1>8
<1> QED
  BY Zenon, <1>9 DEF f

\* The start.
LEMMA ReportStepsInit == Init => ReportSteps
<1> SUFFICES ASSUME Init PROVE ReportSteps
  BY Zenon
<1> DEFINE none == [t \in 0 .. Threads |-> 0]
<1>1. none \in [0 .. Threads -> Nat] /\ \A t \in 0 .. Threads : none[t] = 0
  BY Zenon
<1>2. \A t \in Tids : t \in 0 .. Threads /\ t + 1 \in 0 .. Threads
  BY GupsAssumption DEF Tids
<1>3. 0 \in 0 .. Threads /\ Threads \in 0 .. Threads
  BY GupsAssumption
<1> HIDE DEF none
<1>4. Snapshot(none, none)
  BY <1>1, <1>2, <1>3 DEF Snapshot, Init
<1>5. Snapshots
  BY Zenon, <1>1, <1>4 DEF Snapshots
<1>6. 0 % Chunk = 0
  BY GupsAssumption
<1>7. Counters
  BY <1>6 DEF Counters, Slack, Init
<1>8. ~(-1 >= 0)
  OBVIOUS
<1> QED
  BY Zenon, <1>5, <1>7, <1>8 DEF ReportSteps, ReportedWasDone, Init

\* Every step keeps it.
LEMMA ReportStepsNext == Shape /\ Shape' /\ ReportSteps /\ [Next]_vars => ReportSteps'
<1> SUFFICES ASSUME Shape, Shape', ReportSteps, [Next]_vars PROVE ReportSteps'
  BY Zenon
<1>1. \A t \in Tids : thread_gups[t] \in Nat
  BY Zenon DEF Shape, TypeOK
<1>2. ASSUME UNCHANGED <<printer, tot_updates, thread_gups, i, reported>>,
             main' \in {"spawn", "join", "report"} => main \in {"spawn", "join", "report"},
             main' \notin {"spawn", "join"} => \A t \in Tids : worker'[t] = "done"
      PROVE  ReportSteps'
  <2>1. Snapshots => Snapshots'
    BY <1>1, <1>2, SnapshotsFrame
  <2> QED
    BY Zenon, <1>2, <2>1 DEF ReportSteps, ReportedWasDone, Counters
<1>3. CASE Spawn
  BY Zenon, <1>2, <1>3 DEF Spawn, shared
<1>4. CASE SpawnFails
  BY Zenon, <1>2, <1>4 DEF SpawnFails, shared, ReportSteps
<1>5. CASE Join
  BY Zenon, <1>2, <1>5 DEF Join, shared, ReportSteps
<1>6. CASE Report
  <2>1. main = "report" /\ main' = "reset" /\ reported' = tot_updates /\ UNCHANGED <<worker, i>>
    BY Zenon, <1>6 DEF Report
  <2>2. tot_updates <= Sum([t \in Tids |-> i[t] + Chunk - 1])
    BY Zenon, <2>1, ReportBounded DEF ReportSteps
  <2> QED
    BY Zenon, <2>1, <2>2 DEF ReportSteps, ReportedWasDone
<1>7. CASE Reset
  BY Zenon, <1>7 DEF Reset, ReportSteps, ReportedWasDone
<1>8. CASE Return
  BY Zenon, <1>8 DEF Return, ReportSteps, ReportedWasDone
<1>9. CASE Tic
  BY Zenon, <1>2, <1>9 DEF Tic, ReportSteps
<1>10. CASE OpenTotals
  <2>1. UNCHANGED <<main, worker, i, shared, reported>> /\ printer.next = -1
    BY Zenon, <1>10 DEF OpenTotals
  <2>2. CASE printer' = printer
    BY Zenon, <1>2, <2>1, <2>2 DEF ReportSteps, shared
  <2>3. CASE printer' = [printer EXCEPT !.next = 0]
    <3>1. ASSUME Snapshots PROVE Snapshots'
      <4>1. PICK prev, cur \in [0 .. Threads -> Nat] : Snapshot(prev, cur)
        BY Zenon, <3>1 DEF Snapshots
      <4>2. printer'.next = 0 /\ printer'.tot = printer.tot /\ printer'.last = printer.last
        BY Zenon, <2>3 DEF Shape
      <4>3. printer.tot = 0 /\ cur[0] = 0 /\ prev[0] = 0
        BY Zenon, <2>1, <4>1 DEF Snapshot
      <4>4. \A t \in 0 .. Threads : t <= 0 => t = 0
        BY GupsAssumption
      <4>5. \A t \in Tids : ~ (t < 0)
        BY GupsAssumption DEF Tids
      <4>6. Snapshot(prev, cur)'
        BY Zenon, <2>1, <4>1, <4>2, <4>3, <4>4, <4>5 DEF Snapshot, shared
      <4> QED
        BY Zenon, <4>6 DEF Snapshots
    <3> QED
      BY Zenon, <2>1, <3>1 DEF ReportSteps, ReportedWasDone, Counters, shared
  <2> QED
    BY Zenon, <1>10, <2>2, <2>3 DEF OpenTotals
<1>11. CASE AddThread
  <2>1. UNCHANGED <<main, worker, i, shared, reported>>
    BY Zenon, <1>11 DEF AddThread
  <2> QED
    BY Zenon, <1>11, <2>1, SnapshotsAdd DEF ReportSteps, ReportedWasDone, Counters, shared
<1>12. CASE AddSecond
  <2>1. UNCHANGED <<main, worker, i, thread_gups, reported>>
    BY Zenon, <1>12 DEF AddSecond
  <2> QED
    BY Zenon, <1>12, <2>1, SnapshotsSecond DEF ReportSteps, ReportedWasDone, Counters
<1>13. ASSUME NEW t \in Tids, Access(t) PROVE ReportSteps'
  <2>1. worker[t] = "access" /\ UNCHANGED <<main, i, shared, printer, reported>>
    BY Zenon, <1>13 DEF Access
  <2>2. main \in {"spawn", "join"}
    BY Zenon, <2>1 DEF ReportSteps
  <2> QED
    BY Zenon, <1>2, <2>1, <2>2 DEF shared
<1>14. ASSUME NEW t \in Tids, Count(t) PROVE ReportSteps'
  <2>1. worker[t] = "count" /\ UNCHANGED <<main, printer, tot_updates, reported>>
        /\ thread_gups' = [thread_gups EXCEPT ![t] = @ + (IF i[t] % Chunk = 0 THEN Chunk ELSE 0)]
        /\ i' = [i EXCEPT ![t] = @ + 1]
    BY Zenon, <1>14 DEF Count
  <2>2. main \in {"spawn", "join"} /\ reported = -1 /\ Counters /\ Snapshots
    BY Zenon, <2>1 DEF ReportSteps
  <2>3. \A u \in Tids : i[u] \in Nat
    BY SizesAreNumbers DEF Shape, TypeOK
  <2>4. i[t] + (Slack(i[t]) + (IF i[t] % Chunk = 0 THEN Chunk ELSE 0)) = (i[t] + 1) + Slack(i[t] + 1)
        /\ Slack(i[t]) \in 0 .. Chunk - 1
    BY Zenon, <2>3, SlackNext
  <2>5. (IF i[t] % Chunk = 0 THEN Chunk ELSE 0) \in Nat
    BY Zenon, GupsAssumption
  <2>6. \A u \in Tids : thread_gups[u] <= thread_gups'[u]
    BY <1>1, <2>1, <2>5 DEF Shape, TypeOK
  <2>7. i'[t] = i[t] + 1 /\ thread_gups'[t] = thread_gups[t] + (IF i[t] % Chunk = 0 THEN Chunk ELSE 0)
        /\ \A u \in Tids : u # t => i'[u] = i[u] /\ thread_gups'[u] = thread_gups[u]
    BY Zenon, <2>1 DEF Shape, TypeOK
  <2>8. thread_gups'[t] = i'[t] + Slack(i'[t])
    <3>1. thread_gups[t] = i[t] + Slack(i[t])
      BY Zenon, <2>2 DEF Counters
    <3> QED
      <4>1. PICK a, b, c, d \in Int : /\ a = i[t] /\ b = Slack(i[t]) /\ d = Slack(i[t] + 1)
                                     /\ c = IF i[t] % Chunk = 0 THEN Chunk ELSE 0
        <5>1. i[t] \in Nat /\ i[t] + 1 \in Nat /\ Chunk \in Nat
          BY <2>3, GupsAssumption
        <5>2. Slack(i[t]) \in 0 .. Chunk - 1 /\ Slack(i[t] + 1) \in 0 .. Chunk - 1
          BY Zenon, <5>1, SlackNext
        <5>3. \A x : x \in 0 .. Chunk - 1 \/ x \in Nat => x \in Int
          BY <5>1
        <5> QED
          BY Zenon, <2>5, <5>1, <5>2, <5>3
      <4>2. thread_gups'[t] = (a + b) + c /\ a + (b + c) = (a + 1) + d /\ i'[t] = a + 1 /\ d = Slack(i'[t])
        BY Zenon, <2>4, <2>7, <3>1, <4>1
      <4>3. (a + b) + c = (a + 1) + d
        BY <4>2
      <4> QED
        BY Zenon, <4>2, <4>3
  <2>9. Counters'
    BY Zenon, <2>2, <2>7, <2>8 DEF Counters, Slack
  <2>10. Snapshots'
    BY Zenon, <2>1, <2>2, <2>6, SnapshotsFrame
  <2>11. ~(-1 >= 0)
    OBVIOUS
  <2> QED
    BY Zenon, <2>1, <2>2, <2>9, <2>10, <2>11 DEF ReportSteps, ReportedWasDone
<1>15. CASE UNCHANGED vars
  BY Zenon, <1>2, <1>15 DEF vars, shared, ReportSteps
<1> QED
  BY Zenon, <1>3, <1>4, <1>5, <1>6, <1>7, <1>8, <1>9, <1>10, <1>11, <1>12, <1>13, <1>14, <1>15
     DEF Next, Main, Worker

\* What main reports was done: the sum of the seconds' differences, read while
\* the printer is at work, exceeds the updates the workers have made by less
\* than a chunk for each of them (print_instantaneous_gups, do_gups, main); a
\* second's difference that does not fit in an int is counted short.
THEOREM ReportCorrect == Spec => []ReportedWasDone
<1>1. Init => Shape /\ ReportSteps
  BY Zenon, ShapeInit, ReportStepsInit
<1>2. Shape /\ ReportSteps /\ [Next]_vars => (Shape /\ ReportSteps)'
  BY Zenon, ShapeNext, ReportStepsNext
<1>3. Shape /\ ReportSteps => ReportedWasDone
  BY Zenon DEF ReportSteps
<1> QED
  BY <1>1, <1>2, <1>3, PTL DEF Spec
=============================================================================
