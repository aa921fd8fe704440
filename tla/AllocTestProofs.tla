--------------------------- MODULE AllocTestProofs ---------------------------
(***************************************************************************)
(* Proofs about the phases of alloc_test, for every number of threads, of  *)
(* mappings and of pages, with calls that fail.                            *)
(***************************************************************************)
EXTENDS AllocTest, TLAPS

\* What main's place tells about the flag and about the threads.
Barrier ==
  /\ mpc = "create" => begin = 0
  /\ mpc \in {"call", "begin"} => arg.threads = 1
  /\ \A t \in Thread :
       /\ tpc[t] = "run" => begin = 1
       /\ tpc[t] \in {"spin", "run"} => fn[t] = phase
       /\ fn[t] = "unmap" => phase = "unmap"
       /\ arg.threads # 1 /\ tpc[t] \in {"spin", "run"} => handle[t] = "live"
       /\ arg.threads # 1 /\ mpc = "join" /\ t < i => handle[t] # "live"
       /\ arg.threads # 1 /\ mpc = "done" => handle[t] # "live"
       /\ arg.threads = 1 /\ mpc \in {"create", "begin", "join", "done"}
            => tpc[t] \notin {"spin", "run"}

-----------------------------------------------------------------------------
\* The arguments of a run have the types of the command line's.
LEMMA ArgTypes ==
  ASSUME TypeOK
  PROVE  /\ arg.threads \in Nat /\ arg.allocs \in Nat /\ arg.pages \in Nat \ {0}
         /\ arg.touch \in BOOLEAN
BY Zenon, ArgsAssumption DEF TypeOK

\* The initial state is of the right types.
LEMMA TypeInit == Init => TypeOK
<1> SUFFICES ASSUME Init PROVE TypeOK
  BY Zenon
<1>1. arg.threads \in Nat /\ arg.allocs \in Nat
  BY Zenon, ArgsAssumption DEF Init
<1> QED
  BY <1>1 DEF Init, TypeOK, Phase, GarbageTime

\* Entering a function gives thread t values of the right types.
LEMMA TypeEnter ==
  ASSUME TypeOK, NEW t \in Thread, Enter(t)
  PROVE  /\ tpc' \in [Thread -> {"none", "spin", "run", "exit"}]
         /\ fn' \in [Thread -> Phase] /\ n' \in [Thread -> 1..(arg.allocs + 1)]
         /\ time' \in [Thread -> Nat] /\ UNCHANGED <<slot, missed, spent>>
<1>1. 1 \in 1..(arg.allocs + 1)
  BY ArgTypes
<1> QED
  BY Zenon, <1>1 DEF TypeOK, Enter

\* main keeps the types; its loop counter needs the barrier.
LEMMA TypeMain == TypeOK /\ Barrier /\ Main => TypeOK'
<1> SUFFICES ASSUME TypeOK, Barrier, Main PROVE TypeOK'
  BY Zenon
<1>0. arg.threads \in Nat /\ arg.allocs \in Nat
  BY Zenon, ArgTypes
<1>1. CASE Create
  <2>1. i \in Thread /\ i' = i + 1 /\ i' \in 1..(arg.threads + 1)
    BY <1>0, <1>1 DEF Create, Thread
  <2>2. CASE Enter(i) /\ handle' = [handle EXCEPT ![i] = "live"]
    BY Zenon, <1>1, <2>1, <2>2, TypeEnter DEF Create, TypeOK, Thread, Alloc, Pages
  <2>3. CASE UNCHANGED <<handle, thread>>
    BY Zenon, <1>1, <2>1, <2>3 DEF Create, TypeOK, thread, Thread, Alloc, Pages
  <2> QED
    BY Zenon, <1>1, <2>2, <2>3 DEF Create
<1>2. CASE Call
  <2>1. 1 \in Thread
    BY <1>0, <1>2 DEF Call, Thread
  <2> QED
    BY Zenon, <1>2, <2>1, TypeEnter DEF Call, TypeOK, Thread, Alloc, Pages
<1>3. CASE Return
  <2>1. 1 \in Thread
    BY <1>0, <1>3 DEF Return, Barrier, Thread
  <2> QED
    BY Zenon, <1>3, <2>1 DEF Return, TypeOK, thread, Thread, Alloc, Pages
<1>4. CASE Begin \/ NextPhase
  <2>1. 1 \in 1..(arg.threads + 1)
    BY <1>0
  <2> QED
    BY Zenon, <1>4, <2>1 DEF Begin, NextPhase, TypeOK, thread, Thread, Alloc, Pages, Phase
<1>5. CASE Join
  <2>1. i \in Thread /\ i' \in 1..(arg.threads + 1)
    BY <1>0, <1>5 DEF Join, Thread, TypeOK
  <2>2. total' \in [Phase -> Nat \cup {GarbageTime}]
    BY <1>5, <2>1 DEF Join, TypeOK, GarbageTime
  <2> QED
    BY <1>5, <2>1, <2>2 DEF Join, TypeOK, thread, Thread, Alloc, Pages
<1>6. CASE Exit
  BY Zenon, <1>6 DEF Exit, TypeOK, thread, Thread, Alloc, Pages
<1> QED
  BY Zenon, <1>1, <1>2, <1>3, <1>4, <1>5, <1>6 DEF Main

\* A thread keeps the types.
LEMMA TypeStep == ASSUME TypeOK, NEW t \in Thread, Step(t) PROVE TypeOK'
<1>0. arg.threads \in Nat /\ arg.allocs \in Nat
  BY Zenon, ArgTypes
<1>1. CASE Go(t) \/ ThreadExit(t)
  BY Zenon, <1>1 DEF Go, ThreadExit, TypeOK, main, Thread, Alloc, Pages
<1>2. ASSUME NEW f \in Phase, Pass(t, f)
      PROVE  /\ n' \in [Thread -> 1..(arg.allocs + 1)] /\ time' \in [Thread -> Nat]
             /\ spent' \in [Phase -> Nat] /\ n[t] \in Alloc /\ UNCHANGED <<main, tpc, fn>>
  <2>1. n[t] + 1 \in 1..(arg.allocs + 1)
    BY <1>0, <1>2 DEF Pass, Alloc
  <2>2. PICK d \in Cycles : /\ time' = [time EXCEPT ![t] = @ + d]
                            /\ spent' = [spent EXCEPT ![f] = @ + d]
    BY Zenon, <1>2 DEF Pass
  <2>3. d \in Nat
    BY Zenon, ArgsAssumption
  <2> QED
    BY <1>2, <2>1, <2>2, <2>3 DEF Pass, TypeOK
<1>3. CASE Map(t)
  <2>1. /\ n' \in [Thread -> 1..(arg.allocs + 1)] /\ time' \in [Thread -> Nat]
        /\ spent' \in [Phase -> Nat] /\ n[t] \in Alloc /\ UNCHANGED <<main, tpc, fn>>
    BY Zenon, <1>2, <1>3 DEF Map, Phase
  <2>2. \E m \in {"mapped", "MAP_FAILED"} : slot' = [slot EXCEPT ![t][n[t]] = m]
    BY Zenon, <1>3 DEF Map
  <2>3. \E P \in SUBSET Pages : missed' = [missed EXCEPT ![t] = P] \/ missed' = missed
    BY Zenon, <1>3 DEF Map
  <2>4. slot' \in [Thread -> [Alloc -> {Garbage, "mapped", "MAP_FAILED", "unmapped"}]]
    BY <2>1, <2>2 DEF TypeOK
  <2>5. missed' \in [Thread -> SUBSET Pages]
    BY Zenon, <2>3 DEF TypeOK
  <2> QED
    BY Zenon, <2>1, <2>4, <2>5 DEF TypeOK, main, Thread, Alloc, Pages
<1>4. CASE Unmap(t)
  <2>1. /\ n' \in [Thread -> 1..(arg.allocs + 1)] /\ time' \in [Thread -> Nat]
        /\ spent' \in [Phase -> Nat] /\ n[t] \in Alloc /\ UNCHANGED <<main, tpc, fn>>
    BY Zenon, <1>2, <1>4 DEF Unmap, Phase
  <2>2. slot' \in [Thread -> [Alloc -> {Garbage, "mapped", "MAP_FAILED", "unmapped"}]]
    BY <1>4, <2>1 DEF Unmap, TypeOK
  <2> QED
    BY Zenon, <1>4, <2>1, <2>2 DEF Unmap, TypeOK, main, Thread, Alloc, Pages
<1>5. CASE Segfault(t)
  BY Zenon, <1>5 DEF Segfault, TypeOK, thread, Thread, Alloc, Pages
<1> QED
  BY Zenon, <1>1, <1>3, <1>4, <1>5 DEF Step

\* Every step keeps the types.
LEMMA TypeNext == TypeOK /\ Barrier /\ [Next]_vars => TypeOK'
<1>1. TypeOK /\ UNCHANGED vars => TypeOK'
  BY Zenon DEF vars, main, thread, TypeOK, Thread, Alloc, Pages
<1> QED
  BY Zenon, <1>1, TypeMain, TypeStep DEF Next, Ended, Spin

-----------------------------------------------------------------------------
\* main only lets the threads go when all are there, and only goes on when all
\* have ended.
LEMMA BarrierMain == TypeOK /\ Barrier /\ Main => Barrier'
<1> SUFFICES ASSUME TypeOK, Barrier, Main PROVE Barrier'
  BY Zenon
<1>0. arg.threads \in Nat /\ i \in Nat
  BY ArgTypes DEF TypeOK
<1>1. CASE Create
  <2>1. CASE Enter(i) /\ handle' = [handle EXCEPT ![i] = "live"]
    BY Zenon, <1>0, <1>1, <2>1 DEF Create, Enter, Barrier, TypeOK, Thread
  <2>2. CASE UNCHANGED <<handle, thread>>
    BY Zenon, <1>1, <2>2 DEF Create, Barrier, thread, Thread
  <2> QED
    BY Zenon, <1>1, <2>1, <2>2 DEF Create
<1>2. CASE Call
  <2>1. Thread = {1} /\ Thread' = {1}
    BY <1>2 DEF Call, Thread
  <2> QED
    BY Zenon, <1>2, <2>1 DEF Call, Enter, Barrier, TypeOK
<1>3. CASE Return
  <2>1. Thread = {1} /\ Thread' = {1}
    BY <1>3 DEF Return, Barrier, Thread
  <2> QED
    BY Zenon, <1>3, <2>1 DEF Return, Barrier, thread
<1>4. CASE Begin
  BY <1>0, <1>4 DEF Begin, Barrier, thread, Thread
<1>5. CASE Join
  BY <1>0, <1>5 DEF Join, Barrier, TypeOK, thread, Thread
<1>6. CASE NextPhase
  <2>1. \A t \in Thread : tpc[t] \notin {"spin", "run"}
    BY <1>0, <1>6 DEF NextPhase, Barrier, Thread, TypeOK
  <2> QED
    BY Zenon, <1>6, <2>1 DEF NextPhase, Barrier, thread, Thread
<1>7. CASE Exit
  BY <1>0, <1>7 DEF Exit, Barrier, thread, Thread, TypeOK
<1> QED
  BY Zenon, <1>1, <1>2, <1>3, <1>4, <1>5, <1>6, <1>7 DEF Main

\* A thread runs only when main let it, and ends only by itself.
LEMMA BarrierStep == ASSUME TypeOK, Barrier, NEW t \in Thread, Step(t) PROVE Barrier'
<1>1. CASE Go(t)
  BY Zenon, <1>1 DEF Go, Barrier, TypeOK, main, Thread
<1>2. CASE Map(t) \/ Unmap(t)
  BY Zenon, <1>2 DEF Map, Unmap, Pass, Barrier, main, Thread
<1>3. CASE Segfault(t)
  BY Zenon, <1>3 DEF Segfault, Barrier, thread, Thread
<1>4. CASE ThreadExit(t)
  BY Zenon, <1>4 DEF ThreadExit, Barrier, TypeOK, main, Thread
<1> QED
  BY Zenon, <1>1, <1>2, <1>3, <1>4 DEF Step

\* The barrier is inductive.
LEMMA BarrierNext == TypeOK /\ Barrier /\ [Next]_vars => Barrier'
<1>1. Barrier /\ UNCHANGED vars => Barrier'
  BY Zenon DEF vars, main, thread, Barrier, Thread
<1> QED
  BY Zenon, <1>1, BarrierMain, BarrierStep DEF Next, Ended, Spin

\* No thread is there in the beginning.
LEMMA InitBarrier == Init => Barrier
BY Zenon DEF Init, Barrier, Thread

\* Every variable keeps its type, for every number of threads.
THEOREM TypeCorrect == Spec => []TypeOK
BY TypeInit, InitBarrier, TypeNext, BarrierNext, PTL DEF Spec

\* The spin loop on begin is a barrier: in both phases no thread makes a
\* measured call before main has created all of them, even if main could not
\* create some.
THEOREM BarrierCorrect == Spec => []StartTogether
<1>1. TypeOK /\ Barrier => StartTogether
  BY DEF TypeOK, Barrier, StartTogether
<1> QED
  BY <1>1, TypeInit, InitBarrier, TypeNext, BarrierNext, PTL DEF Spec

\* The joins and the reset of begin keep the two measurements apart.
THEOREM PhasesCorrect == Spec => []PhasesApart
<1>1. TypeOK /\ Barrier => PhasesApart
  BY Zenon DEF TypeOK, Barrier, PhasesApart, Phase
<1> QED
  BY <1>1, TypeInit, InitBarrier, TypeNext, BarrierNext, PTL DEF Spec

-----------------------------------------------------------------------------
(***************************************************************************)
(* The totals.                                                             *)
(***************************************************************************)

\* Thread t was created, or called, in this phase.
Started(t) == fn[t] = phase /\ tpc[t] # "none"

\* The threads whose times main has in its total.
Counted == IF mpc \in {"create", "call"} THEN 0
           ELSE IF mpc = "join" /\ arg.threads # 1 THEN i - 1 ELSE arg.threads

\* main has in its total only threads of this phase that have ended; a thread
\* that could not be created spoils the total instead.
Joins ==
  /\ mpc = "done" => phase = "unmap"
  /\ \A t \in Thread :
       /\ handle[t] = "live" => arg.threads # 1 /\ Started(t)
       /\ mpc = "create" /\ (arg.threads = 1 \/ t >= i) => ~Started(t)
       /\ mpc = "call" => Started(t)
       /\ mpc # "crash" /\ t <= Counted /\ total[phase] # GarbageTime
            => Started(t) /\ tpc[t] = "exit"
       /\ phase = "unmap" /\ total["map"] # GarbageTime /\ fn[t] = "map" => tpc[t] = "exit"
       /\ tpc[t] = "exit" => n[t] \notin Alloc
       /\ tpc[t] = "none" => fn[t] = "map"

\* main counts a thread when it has joined it.
LEMMA JoinsMain == TypeOK /\ Barrier /\ Joins /\ Main => Joins'
<1> SUFFICES ASSUME TypeOK, Barrier, Joins, Main PROVE Joins'
  BY Zenon
<1>0. arg.threads \in Nat /\ arg.allocs \in Nat /\ i \in Nat
  BY ArgTypes DEF TypeOK
<1>1. CASE Create
  <2>1. CASE Enter(i) /\ handle' = [handle EXCEPT ![i] = "live"]
    BY <1>0, <1>1, <2>1 DEF Create, Enter, Barrier, Joins, Started, Counted, TypeOK, Thread, Alloc
  <2>2. CASE UNCHANGED <<handle, thread>>
    BY <1>0, <1>1, <2>2 DEF Create, Joins, Started, Counted, thread, Thread, Alloc
  <2> QED
    BY Zenon, <1>1, <2>1, <2>2 DEF Create
<1>2. CASE Call
  <2>1. Thread = {1} /\ Thread' = {1}
    BY <1>2 DEF Call, Thread
  <2> QED
    BY Zenon, <1>0, <1>2, <2>1 DEF Call, Enter, Barrier, Joins, Started, Counted, TypeOK, Alloc
<1>3. CASE Return
  <2>1. Thread = {1} /\ Thread' = {1}
    BY <1>3 DEF Return, Barrier, Thread
  <2> QED
    BY Zenon, <1>0, <1>3, <2>1 DEF Return, Barrier, Joins, Started, Counted, TypeOK, thread, Alloc
<1>4. CASE Begin
  BY <1>0, <1>4 DEF Begin, Barrier, Joins, Started, Counted, thread, Thread, Alloc
<1>5. CASE Join
  <2>0. /\ mpc = "join" /\ arg.threads > 1 /\ i \in Thread
        /\ UNCHANGED <<arg, phase, begin, tpc, fn, n, time, slot>>
        /\ Thread' = Thread /\ Alloc' = Alloc
    BY Zenon, <1>5 DEF Join, thread, Thread, Alloc
  <2>1. CASE /\ handle[i] = "live" /\ tpc[i] = "exit" /\ i' = i + 1
             /\ handle' = [handle EXCEPT ![i] = "joined"]
             /\ total' = [total EXCEPT ![phase] = IF @ = GarbageTime THEN @ ELSE @ + time[i]]
             /\ UNCHANGED mpc
    <3>1. Started(i) /\ tpc[i] = "exit"
      BY Zenon, <2>0, <2>1 DEF Joins
    <3>2. /\ total'[phase] # GarbageTime => total[phase] # GarbageTime
          /\ phase = "unmap" => total'["map"] = total["map"]
      BY Zenon, <2>1 DEF TypeOK, Phase
    <3>3. Counted = i - 1 /\ Counted' = i
      BY <1>0, <2>0, <2>1 DEF Counted
    <3> QED
      BY <1>0, <2>0, <2>1, <3>1, <3>2, <3>3 DEF Joins, Started, TypeOK, Thread
  <2>2. CASE /\ handle[i] # "live" /\ i' = i + 1
             /\ total' = [total EXCEPT ![phase] = GarbageTime]
             /\ UNCHANGED <<mpc, handle>>
    <3>1. total'[phase] = GarbageTime /\ (phase = "unmap" => total'["map"] = total["map"])
      BY Zenon, <2>2 DEF TypeOK, Phase
    <3> QED
      BY Zenon, <1>0, <2>0, <2>2, <3>1 DEF Joins, Started
  <2>3. CASE handle[i] # "live" /\ mpc' = "crash" /\ UNCHANGED <<i, total, handle>>
    BY Zenon, <2>0, <2>3 DEF Joins, Started
  <2> QED
    BY Zenon, <1>5, <2>1, <2>2, <2>3 DEF Join
<1>6. CASE NextPhase
  BY <1>0, <1>6 DEF NextPhase, Barrier, Joins, Started, Counted, TypeOK, thread, Thread, Alloc,
                    GarbageTime
<1>7. CASE Exit
  BY <1>0, <1>7 DEF Exit, Barrier, Joins, Started, Counted, TypeOK, thread, Thread, Alloc
<1> QED
  BY Zenon, <1>1, <1>2, <1>3, <1>4, <1>5, <1>6, <1>7 DEF Main

\* A thread that main has counted does nothing any more.
LEMMA JoinsStep == ASSUME TypeOK, Barrier, Joins, NEW t \in Thread, Step(t) PROVE Joins'
<1>1. CASE Go(t)
  BY <1>1 DEF Go, Joins, Started, Counted, TypeOK, main, Thread, Alloc
<1>2. CASE Map(t) \/ Unmap(t)
  <2>1. UNCHANGED <<main, tpc, fn>> /\ tpc[t] = "run" /\ n' = [n EXCEPT ![t] = @ + 1]
    BY Zenon, <1>2 DEF Map, Unmap, Pass
  <2> QED
    BY Zenon, <2>1 DEF Joins, Started, Counted, TypeOK, main, Thread, Alloc
<1>3. CASE Segfault(t)
  BY Zenon, <1>3 DEF Segfault, Joins, Started, Counted, thread, Thread, Alloc
<1>4. CASE ThreadExit(t)
  BY <1>4 DEF ThreadExit, Joins, Started, Counted, TypeOK, main, Thread, Alloc
<1> QED
  BY Zenon, <1>1, <1>2, <1>3, <1>4 DEF Step

\* What main counts are threads that have ended, in every step.
LEMMA JoinsNext == TypeOK /\ Barrier /\ Joins /\ [Next]_vars => Joins'
<1>1. Joins /\ UNCHANGED vars => Joins'
  BY Zenon DEF vars, main, thread, Joins, Started, Counted, Thread, Alloc
<1> QED
  BY Zenon, <1>1, JoinsMain, JoinsStep DEF Next, Ended, Spin

\* s has the sums of f, up to each number of elements.
Sums(s, f, N) ==
  /\ s \in [0..N -> Nat] /\ s[0] = 0
  /\ \A t \in 1..N : s[t] = s[t - 1] + f[t]

\* One element more by d: so are the sums from there on.
LEMMA SumsAdd ==
  ASSUME NEW N \in Nat, NEW f, NEW g, NEW s, Sums(s, f, N), NEW t \in 1..N, NEW d \in Nat,
         \A u \in 1..N : f[u] \in Nat, g[t] = f[t] + d, \A u \in 1..N : u # t => g[u] = f[u]
  PROVE  \E r : /\ Sums(r, g, N) /\ r[N] = s[N] + d
                /\ \A k \in 0..N : k < t => r[k] = s[k]
<1> DEFINE r == [k \in 0..N |-> IF k < t THEN s[k] ELSE s[k] + d]
<1>1. r \in [0..N -> Nat] /\ r[0] = 0
  BY DEF Sums
<1>2. ASSUME NEW u \in 1..N PROVE r[u] = r[u - 1] + g[u]
  <2>1. u \in 0..N /\ u - 1 \in 0..N /\ s[u] \in Nat /\ s[u - 1] \in Nat
    BY DEF Sums
  <2>2. s[u] = s[u - 1] + f[u]
    BY Zenon DEF Sums
  <2>3. CASE u = t
    BY <2>1, <2>2, <2>3
  <2>4. CASE u # t
    <3>1. g[u] = f[u]
      BY Zenon, <2>4
    <3>2. r[u] = (IF u < t THEN s[u] ELSE s[u] + d)
      BY Zenon, <2>1
    <3>3. r[u - 1] = (IF u - 1 < t THEN s[u - 1] ELSE s[u - 1] + d)
      BY Zenon, <2>1
    <3>4. CASE u < t
      BY <2>1, <2>2, <3>1, <3>2, <3>3, <3>4
    <3>5. CASE u > t
      <4>1. r[u] = s[u] + d /\ r[u - 1] = s[u - 1] + d
        BY <3>2, <3>3, <3>5
      <4>2. f[u] \in Int
        OBVIOUS
      <4> QED
        BY <2>1, <2>2, <3>1, <4>1, <4>2
    <3> QED
      BY <2>4, <3>4, <3>5
  <2> QED
    BY Zenon, <2>3, <2>4
<1>3. r[N] = s[N] + d
  OBVIOUS
<1>4. \A k \in 0..N : k < t => r[k] = s[k]
  BY Zenon
<1> HIDE DEF r
<1> QED
  BY Zenon, <1>1, <1>2, <1>3, <1>4 DEF Sums

\* What the threads of this phase have measured so far.
Measured == [t \in Thread |-> IF Started(t) THEN time[t] ELSE 0]

\* The times of the threads of a phase sum up to what its passes took, and those
\* of the threads that were counted to its total.
Totals ==
  /\ \E s : /\ Sums(s, Measured, arg.threads) /\ spent[phase] = s[arg.threads]
            /\ mpc # "crash" /\ total[phase] # GarbageTime => total[phase] = s[Counted]
  /\ phase = "unmap" /\ total["map"] # GarbageTime => total["map"] = spent["map"]
  /\ phase = "map" => total["unmap"] = 0 /\ spent["unmap"] = 0
  /\ mpc \in {"create", "call"} => total[phase] # GarbageTime

\* Nothing but the end of a phase and the passes of the threads changes the sums.
LEMMA TotalsFrame ==
  ASSUME TypeOK, Totals, UNCHANGED <<arg, phase, spent>>, Measured' = Measured,
         \A p \in Phase : p # phase => total'[p] = total[p],
         mpc' \in {"create", "call"} => mpc \in {"create", "call"} /\ total' = total,
         mpc' # "crash" /\ total'[phase] # GarbageTime =>
           \/ mpc # "crash" /\ total'[phase] = total[phase] /\ Counted' = Counted
           \/ /\ mpc # "crash" /\ total[phase] # GarbageTime
              /\ Counted' = Counted + 1 /\ Counted' \in Thread
              /\ total'[phase] = total[phase] + Measured[Counted']
  PROVE  Totals'
<1>1. PICK s : /\ Sums(s, Measured, arg.threads) /\ spent[phase] = s[arg.threads]
               /\ mpc # "crash" /\ total[phase] # GarbageTime => total[phase] = s[Counted]
  BY Zenon DEF Totals
<1>2. arg.threads \in Nat
  BY Zenon, ArgTypes
<1>3. mpc' # "crash" /\ total'[phase] # GarbageTime => total'[phase] = s[Counted']
  <2> SUFFICES ASSUME mpc' # "crash", total'[phase] # GarbageTime PROVE total'[phase] = s[Counted']
    BY Zenon
  <2>1. CASE mpc # "crash" /\ total'[phase] = total[phase] /\ Counted' = Counted
    BY Zenon, <1>1, <2>1
  <2>2. CASE /\ mpc # "crash" /\ total[phase] # GarbageTime
             /\ Counted' = Counted + 1 /\ Counted' \in Thread
             /\ total'[phase] = total[phase] + Measured[Counted']
    <3>1. s[Counted'] = s[Counted' - 1] + Measured[Counted']
      BY Zenon, <1>1, <2>2 DEF Sums, Thread
    <3>2. Counted \in Int
      BY <1>2 DEF Counted, TypeOK
    <3>3. Counted' - 1 = Counted
      BY <2>2, <3>2
    <3> QED
      BY Zenon, <1>1, <2>2, <3>1, <3>3
  <2> QED
    BY Zenon, <2>1, <2>2
<1>4. Sums(s, Measured', arg.threads')
  BY Zenon, <1>1
<1>5. phase = "unmap" => total'["map"] = total["map"]
  BY Zenon DEF Phase
<1>6. phase = "map" => total'["unmap"] = total["unmap"]
  BY Zenon DEF Phase
<1>7. mpc' \in {"create", "call"} => total'[phase] # GarbageTime
  BY Zenon DEF Totals
<1> QED
  BY Zenon, <1>1, <1>3, <1>4, <1>5, <1>6, <1>7 DEF Totals

\* main adds the time of each thread it joins, once.
LEMMA TotalsMain == TypeOK /\ Barrier /\ Joins /\ Totals /\ Main => Totals'
<1> SUFFICES ASSUME TypeOK, Barrier, Joins, Totals, Main PROVE Totals'
  BY Zenon
<1>0. arg.threads \in Nat /\ i \in 1..(arg.threads + 1) /\ phase \in Phase
  BY Zenon, ArgTypes DEF TypeOK
<1>1. CASE Create
  <2>1. /\ UNCHANGED <<arg, phase, spent, total, mpc>>
        /\ mpc = "create" /\ i \in Thread /\ Thread' = Thread
    BY Zenon, <1>1 DEF Create, Enter, thread, Thread
  <2>2. Measured' = Measured
    <3>1. ~Started(i)
      BY <1>0, <2>1 DEF Joins
    <3>2. CASE Enter(i)
      BY Zenon, <2>1, <3>1, <3>2 DEF Enter, Measured, Started, TypeOK
    <3>3. CASE UNCHANGED <<handle, thread>>
      BY Zenon, <2>1, <3>3 DEF thread, Measured, Started
    <3> QED
      BY Zenon, <1>1, <3>2, <3>3 DEF Create
  <2>3. Counted' = Counted
    BY Zenon, <2>1 DEF Counted
  <2> QED
    BY Zenon, <2>1, <2>2, <2>3, TotalsFrame
<1>2. CASE Call
  <2>1. /\ UNCHANGED <<arg, phase, spent, total>>
        /\ mpc = "create" /\ mpc' = "call" /\ 1 \in Thread /\ Thread' = Thread /\ arg.threads = 1
    BY <1>2 DEF Call, Enter, thread, Thread
  <2>2. Measured' = Measured
    <3>1. ~Started(1)
      BY Zenon, <1>0, <2>1 DEF Joins
    <3> QED
      BY Zenon, <1>2, <2>1, <3>1 DEF Call, Enter, Measured, Started, TypeOK
  <2>3. Counted' = Counted
    BY Zenon, <2>1 DEF Counted
  <2> QED
    BY Zenon, <2>1, <2>2, <2>3, TotalsFrame
<1>3. CASE Return
  <2>1. /\ UNCHANGED <<arg, phase, spent, thread>> /\ arg.threads = 1 /\ Thread' = Thread
        /\ mpc = "call" /\ mpc' = "begin" /\ total' = [total EXCEPT ![phase] = time[1]]
    BY Zenon, <1>3 DEF Return, Barrier, thread, Thread
  <2>2. Measured' = Measured
    BY Zenon, <2>1 DEF thread, Measured, Started
  <2>3. Counted = 0 /\ Counted' = 1 /\ 1 \in Thread
    BY <2>1 DEF Counted, Thread
  <2>4. Measured[1] = time[1] /\ time[1] \in Nat
    BY Zenon, <2>1, <2>3 DEF Measured, Joins, TypeOK
  <2>5. total[phase] = 0
    BY Zenon, <2>1, <2>3 DEF Totals, Sums
  <2>6. total'[phase] = total[phase] + Measured[1]
    BY <1>0, <2>1, <2>4, <2>5 DEF TypeOK
  <2>7. \A p \in Phase : p # phase => total'[p] = total[p]
    BY Zenon, <2>1 DEF TypeOK
  <2> QED
    BY <2>1, <2>2, <2>3, <2>5, <2>6, <2>7, TotalsFrame DEF GarbageTime
<1>4. CASE Begin \/ Exit
  <2>1. UNCHANGED <<arg, phase, spent, total, thread>> /\ Thread' = Thread
    BY Zenon, <1>4 DEF Begin, Exit, thread, Thread
  <2>2. Measured' = Measured
    BY Zenon, <2>1 DEF thread, Measured, Started
  <2>3. mpc # "crash" /\ mpc' \in {"join", "done"} /\ Counted' = Counted
    <3>1. CASE Begin /\ mpc = "begin"
      BY Zenon, <1>0, <3>1 DEF Begin, Counted, Barrier
    <3>2. CASE Begin /\ mpc = "create"
      BY <1>0, <3>2 DEF Begin, Counted
    <3>3. CASE Exit
      BY <1>0, <3>3 DEF Exit, Counted, Thread
    <3> QED
      BY Zenon, <1>4, <3>1, <3>2, <3>3 DEF Begin
  <2> QED
    BY Zenon, <2>1, <2>2, <2>3, TotalsFrame
<1>5. CASE Join
  <2>1. /\ UNCHANGED <<arg, phase, spent, thread>> /\ Thread' = Thread
        /\ mpc = "join" /\ arg.threads > 1 /\ i \in Thread
        /\ \/ mpc' = "crash" /\ UNCHANGED total
           \/ /\ mpc' = "join" /\ i' = i + 1
              /\ \/ /\ handle[i] = "live"
                    /\ total' = [total EXCEPT ![phase] = IF @ = GarbageTime THEN @ ELSE @ + time[i]]
                 \/ total' = [total EXCEPT ![phase] = GarbageTime]
    BY Zenon, <1>5 DEF Join, thread, Thread
  <2>2. Measured' = Measured
    BY Zenon, <2>1 DEF thread, Measured, Started
  <2>3. \A p \in Phase : p # phase => total'[p] = total[p]
    BY Zenon, <2>1 DEF TypeOK
  <2>4. ASSUME mpc' # "crash", total'[phase] # GarbageTime
        PROVE  /\ total[phase] # GarbageTime
               /\ Counted' = Counted + 1 /\ Counted' \in Thread
               /\ total'[phase] = total[phase] + Measured[Counted']
    <3>1. /\ handle[i] = "live" /\ total[phase] # GarbageTime
          /\ total'[phase] = total[phase] + time[i]
      BY Zenon, <1>0, <2>1, <2>4 DEF TypeOK
    <3>2. Counted = i - 1 /\ Counted' = i
      BY <1>0, <2>1, <2>4 DEF Counted
    <3>3. Measured[i] = time[i]
      BY Zenon, <2>1, <3>1 DEF Joins, Measured
    <3> QED
      BY <1>0, <2>1, <3>1, <3>2, <3>3
  <2> QED
    BY Zenon, <2>1, <2>2, <2>3, <2>4, TotalsFrame
<1>6. CASE NextPhase
  <2>1. /\ UNCHANGED <<arg, spent, total, thread>> /\ Thread' = Thread
        /\ phase = "map" /\ phase' = "unmap" /\ mpc = "join" /\ mpc' = "create"
    BY Zenon, <1>6 DEF NextPhase, thread, Thread
  <2>2. Measured' = [t \in Thread |-> 0]
    BY Zenon, <2>1 DEF Measured, Started, Barrier, thread
  <2>3. Counted = arg.threads /\ Counted' = 0
    BY <1>0, <1>6 DEF NextPhase, Counted, Thread
  <2>4. total["map"] # GarbageTime => total["map"] = spent["map"]
    BY Zenon, <2>1, <2>3 DEF Totals
  <2>5. Sums([k \in 0..arg.threads |-> 0], Measured', arg.threads)
    BY <1>0, <2>2 DEF Sums, Thread
  <2>6. /\ spent["unmap"] = [k \in 0..arg.threads |-> 0][arg.threads]
        /\ total["unmap"] = [k \in 0..arg.threads |-> 0][0]
    BY <1>0, <2>1 DEF Totals
  <2>7. total["unmap"] # GarbageTime
    BY <2>1 DEF Totals, GarbageTime
  <2> QED
    BY Zenon, <2>1, <2>3, <2>4, <2>5, <2>6, <2>7 DEF Totals
<1> QED
  BY Zenon, <1>1, <1>2, <1>3, <1>4, <1>5, <1>6 DEF Main

\* A pass is added to the time of its thread, which main has not counted yet, and
\* to what the phase took.
LEMMA TotalsStep ==
  ASSUME TypeOK, Barrier, Joins, Totals, NEW t \in Thread, Step(t)
  PROVE  Totals'
<1>0. arg.threads \in Nat /\ i \in 1..(arg.threads + 1) /\ phase \in Phase
  BY Zenon, ArgTypes DEF TypeOK
<1>1. CASE Go(t) \/ ThreadExit(t) \/ Segfault(t)
  <2>1. /\ UNCHANGED <<arg, phase, spent, total, i, time, fn>> /\ Thread' = Thread
        /\ mpc' # "crash" => mpc' = mpc
        /\ tpc[t] # "none" /\ (\A u \in Thread : tpc'[u] = "none" <=> tpc[u] = "none")
    BY Zenon, <1>1 DEF Go, ThreadExit, Segfault, main, thread, Thread, TypeOK
  <2>2. Measured' = Measured
    BY Zenon, <2>1 DEF Measured, Started
  <2>3. mpc' # "crash" => Counted' = Counted
    BY Zenon, <2>1 DEF Counted
  <2> QED
    BY Zenon, <2>1, <2>2, <2>3, TotalsFrame
<1>2. CASE Map(t) \/ Unmap(t)
  <2>1. PICK d \in Cycles : /\ time' = [time EXCEPT ![t] = @ + d]
                            /\ spent' = [spent EXCEPT ![fn[t]] = @ + d]
    BY Zenon, <1>2 DEF Map, Unmap, Pass
  <2>2. /\ UNCHANGED <<arg, phase, total, i, mpc, tpc, fn>> /\ Thread' = Thread
        /\ tpc[t] = "run" /\ mpc # "crash" /\ fn[t] = phase
    BY Zenon, <1>2 DEF Map, Unmap, Pass, main, Thread, Barrier
  <2>3. d \in Nat
    BY Zenon, ArgsAssumption
  <2>4. PICK s : /\ Sums(s, Measured, arg.threads) /\ spent[phase] = s[arg.threads]
                 /\ mpc # "crash" /\ total[phase] # GarbageTime => total[phase] = s[Counted]
    BY Zenon DEF Totals
  <2>5. /\ Measured'[t] = Measured[t] + d
        /\ \A u \in 1..arg.threads : Measured[u] \in Nat
        /\ \A u \in 1..arg.threads : u # t => Measured'[u] = Measured[u]
    BY Zenon, <2>1, <2>2, <2>3 DEF Measured, Started, Thread, TypeOK
  <2>6. PICK r : /\ Sums(r, Measured', arg.threads) /\ r[arg.threads] = s[arg.threads] + d
                 /\ \A k \in 0..arg.threads : k < t => r[k] = s[k]
    <3> DEFINE f == Measured
               g == Measured'
               N == arg.threads
    <3>1. /\ N \in Nat /\ Sums(s, f, N) /\ t \in 1..N
          /\ g[t] = f[t] + d /\ (\A u \in 1..N : f[u] \in Nat)
          /\ \A u \in 1..N : u # t => g[u] = f[u]
      BY Zenon, <1>0, <2>4, <2>5 DEF Thread
    <3> HIDE DEF f, g, N
    <3>2. \E r : /\ Sums(r, g, N) /\ r[N] = s[N] + d
                 /\ \A k \in 0..N : k < t => r[k] = s[k]
      BY <2>3, <3>1, SumsAdd
    <3> QED
      BY Zenon, <3>2 DEF f, g, N
  <2>7. Counted' = Counted /\ Counted \in 0..arg.threads
    <3>1. Counted' = Counted
      BY Zenon, <2>2 DEF Counted
    <3>2. PICK N \in Nat : N = arg.threads /\ i \in 1..(N + 1)
      BY Zenon, <1>0
    <3>3. Counted = 0 \/ Counted = i - 1 \/ Counted = N
      BY Zenon, <3>2 DEF Counted
    <3> QED
      BY <3>1, <3>2, <3>3
  <2>8. total[phase] # GarbageTime => Counted < t
    BY <2>2, <2>7 DEF Joins, Thread
  <2>9. spent'[phase] = spent[phase] + d /\ (phase = "unmap" => spent'["map"] = spent["map"])
        /\ (phase = "map" => spent'["unmap"] = spent["unmap"])
    BY Zenon, <1>0, <2>1, <2>2 DEF TypeOK, Phase
  <2>10. /\ spent'[phase'] = r[arg.threads']
         /\ mpc' # "crash" /\ total'[phase'] # GarbageTime => total'[phase'] = r[Counted']
    BY Zenon, <2>2, <2>4, <2>6, <2>7, <2>8, <2>9
  <2>11. mpc' \in {"create", "call"} => total'[phase'] # GarbageTime
    BY Zenon, <2>2 DEF Totals
  <2> QED
    BY Zenon, <2>2, <2>6, <2>9, <2>10, <2>11 DEF Totals
<1> QED
  BY Zenon, <1>1, <1>2 DEF Step

\* Every step keeps the totals.
LEMMA TotalsNext == TypeOK /\ Barrier /\ Joins /\ Totals /\ [Next]_vars => Totals'
<1>1. Totals /\ UNCHANGED vars => Totals'
  <2> SUFFICES ASSUME Totals, UNCHANGED vars PROVE Totals'
    BY Zenon
  <2>1. Measured' = Measured /\ Counted' = Counted /\ UNCHANGED <<arg, mpc, phase, total, spent>>
    BY Zenon DEF vars, main, thread, Measured, Started, Counted, Thread
  <2> QED
    BY Zenon, <2>1 DEF Totals
<1> QED
  BY Zenon, <1>1, TotalsMain, TotalsStep DEF Next, Ended, Spin

\* What a thread has mapped, and which of it it has unmapped.
Slots ==
  \A t \in Thread :
    /\ fn[t] = "map" /\ tpc[t] # "none" =>
         \A a \in Alloc : a < n[t] => slot[t][a] \in {"mapped", "MAP_FAILED"}
    /\ fn[t] = "unmap" /\ total["map"] # GarbageTime =>
         \A a \in Alloc :
           slot[t][a] \in IF a < n[t] THEN {"unmapped", "MAP_FAILED"} ELSE {"mapped", "MAP_FAILED"}

\* A thread that has ended has been through all its mappings.
LEMMA AllPasses ==
  ASSUME TypeOK, Joins, NEW t \in Thread, tpc[t] = "exit"
  PROVE  \A a \in Alloc : a < n[t]
<1>1. arg.allocs \in Nat /\ n[t] \in 1..(arg.allocs + 1)
  BY Zenon, ArgTypes DEF TypeOK
<1>2. n[t] \notin Alloc
  BY Zenon DEF Joins
<1> QED
  BY <1>1, <1>2 DEF Alloc

\* A thread that begins to unmap has been through its mappings.
LEMMA SlotsEnter ==
  ASSUME TypeOK, Barrier, Joins, Slots, NEW t \in Thread, ~Started(t), Enter(t),
         UNCHANGED <<arg, total>>
  PROVE  Slots'
<1>0. arg.threads \in Nat /\ arg.allocs \in Nat
  BY Zenon, ArgTypes
<1>1. Thread' = Thread /\ Alloc' = Alloc /\ \A a \in Alloc : ~(a < 1)
  BY DEF Thread, Alloc
<1>2. /\ fn'[t] = phase /\ n'[t] = 1 /\ tpc'[t] = "spin" /\ slot' = slot
      /\ \A u \in Thread : u # t => fn'[u] = fn[u] /\ n'[u] = n[u] /\ tpc'[u] = tpc[u]
  BY Zenon DEF Enter, TypeOK
<1>3. ASSUME phase = "unmap", total["map"] # GarbageTime, NEW a \in Alloc
      PROVE  slot[t][a] \in {"mapped", "MAP_FAILED"}
  <2>1. fn[t] = "map" /\ tpc[t] = "exit"
    BY Zenon, <1>3 DEF Joins, Started, TypeOK, Phase
  <2> QED
    BY Zenon, <2>1, AllPasses DEF Slots
<1> QED
  BY <1>1, <1>2, <1>3 DEF Slots

\* The slots, in the steps of main.
LEMMA SlotsMain == TypeOK /\ Barrier /\ Joins /\ Slots /\ Main => Slots'
<1> SUFFICES ASSUME TypeOK, Barrier, Joins, Slots, Main PROVE Slots'
  BY Zenon
<1>0. arg.threads \in Nat /\ i \in 1..(arg.threads + 1)
  BY Zenon, ArgTypes DEF TypeOK
<1>1. CASE Create
  <2>1. i \in Thread /\ ~Started(i) /\ UNCHANGED <<arg, total>>
    BY <1>0, <1>1 DEF Create, Joins
  <2>2. CASE Enter(i)
    BY Zenon, <2>1, <2>2, SlotsEnter
  <2>3. CASE UNCHANGED <<handle, thread>>
    BY Zenon, <2>1, <2>3 DEF thread, Slots, Thread, Alloc
  <2> QED
    BY Zenon, <1>1, <2>2, <2>3 DEF Create
<1>2. CASE Call
  <2>1. 1 \in Thread /\ UNCHANGED <<arg, total>> /\ Enter(1)
    BY <1>2 DEF Call, Thread
  <2>2. ~Started(1)
    BY Zenon, <1>2, <2>1 DEF Call, Joins
  <2> QED
    BY Zenon, <2>1, <2>2, SlotsEnter
<1>3. CASE Return \/ Join
  <2>1. /\ UNCHANGED <<arg, thread>>
        /\ total' = total \/ \E x : total' = [total EXCEPT ![phase] = x]
    BY Zenon, <1>3 DEF Return, Join
  <2>2. phase = "unmap" => total'["map"] = total["map"]
    BY Zenon, <2>1 DEF TypeOK, Phase
  <2>3. phase = "map" => \A t \in Thread : fn[t] = "map"
    BY Zenon DEF Barrier, TypeOK, Phase
  <2>4. phase \in {"map", "unmap"} /\ UNCHANGED <<tpc, fn, n, slot>> /\ Thread' = Thread
        /\ Alloc' = Alloc
    BY Zenon, <2>1 DEF TypeOK, Phase, thread, Thread, Alloc
  <2> QED
    BY Zenon, <2>2, <2>3, <2>4 DEF Slots
<1>4. CASE Begin \/ NextPhase \/ Exit
  BY Zenon, <1>4 DEF Begin, NextPhase, Exit, thread, Slots, Thread, Alloc
<1> QED
  BY Zenon, <1>1, <1>2, <1>3, <1>4 DEF Main

\* The slots, in the steps of a thread.
LEMMA SlotsStep ==
  ASSUME TypeOK, Barrier, Joins, Slots, NEW t \in Thread, Step(t)
  PROVE  Slots'
<1>0. arg.threads \in Nat /\ arg.allocs \in Nat
  BY Zenon, ArgTypes
<1>1. CASE Go(t) \/ ThreadExit(t) \/ Segfault(t)
  <2>1. CASE Go(t)
    BY <2>1 DEF Go, main, thread, Slots, Thread, Alloc, TypeOK
  <2>2. CASE ThreadExit(t)
    BY <2>2 DEF ThreadExit, main, thread, Slots, Thread, Alloc, TypeOK
  <2>3. CASE Segfault(t)
    BY Zenon, <2>3 DEF Segfault, main, thread, Slots, Thread, Alloc, TypeOK
  <2> QED
    BY Zenon, <1>1, <2>1, <2>2, <2>3
<1>2. CASE Map(t)
  <2>1. /\ UNCHANGED <<arg, total, tpc, fn>> /\ fn[t] = "map" /\ n[t] \in Alloc
        /\ n' = [n EXCEPT ![t] = @ + 1] /\ Thread' = Thread /\ Alloc' = Alloc
    BY Zenon, <1>2 DEF Map, Pass, main, Thread, Alloc
  <2>2. PICK m \in {"mapped", "MAP_FAILED"} : slot' = [slot EXCEPT ![t][n[t]] = m]
    BY Zenon, <1>2 DEF Map
  <2>3. \A u \in Thread, a \in Alloc :
          slot'[u][a] = IF u = t /\ a = n[t] THEN m ELSE slot[u][a]
    BY Zenon, <2>1, <2>2 DEF TypeOK
  <2>4. \A u \in Thread : n'[u] = IF u = t THEN n[t] + 1 ELSE n[u]
    BY Zenon, <2>1 DEF TypeOK
  <2>5. \A a \in Alloc : a < n[t] + 1 => a < n[t] \/ a = n[t]
    BY <1>0, <2>1 DEF Alloc
  <2>6. tpc[t] # "none"
    BY Zenon, <1>2 DEF Map, Pass
  <2>7. ASSUME NEW u \in Thread, fn[u] = "map", tpc[u] # "none", NEW a \in Alloc, a < n'[u]
        PROVE  slot'[u][a] \in {"mapped", "MAP_FAILED"}
    <3>1. CASE u = t
      BY Zenon, <2>3, <2>4, <2>5, <2>7, <3>1 DEF Slots
    <3>2. CASE u # t
      BY Zenon, <2>3, <2>4, <2>7, <3>2 DEF Slots
    <3> QED
      BY Zenon, <3>1, <3>2
  <2>8. \A u \in Thread : fn[u] = "unmap" => u # t
    BY Zenon, <2>1
  <2>9. \A u \in Thread : u # t => n'[u] = n[u] /\ \A a \in Alloc : slot'[u][a] = slot[u][a]
    BY Zenon, <2>3, <2>4
  <2> QED
    BY <2>1, <2>7, <2>8, <2>9 DEF Slots
<1>3. CASE Unmap(t)
  <2>1. /\ UNCHANGED <<arg, total, tpc, fn>> /\ fn[t] = "unmap" /\ n[t] \in Alloc
        /\ n' = [n EXCEPT ![t] = @ + 1] /\ Thread' = Thread /\ Alloc' = Alloc
    BY Zenon, <1>3 DEF Unmap, Pass, main, Thread, Alloc
  <2>2. \A u \in Thread, a \in Alloc :
          slot'[u][a] = IF u = t /\ a = n[t] /\ slot[t][n[t]] = "mapped" THEN "unmapped"
                        ELSE slot[u][a]
    BY Zenon, <1>3, <2>1 DEF Unmap, TypeOK
  <2>3. \A u \in Thread : n'[u] = IF u = t THEN n[t] + 1 ELSE n[u]
    BY Zenon, <2>1 DEF TypeOK
  <2>4. /\ \A a \in Alloc : a < n[t] + 1 <=> a < n[t] \/ a = n[t]
        /\ ~(n[t] < n[t])
    BY <1>0, <2>1 DEF Alloc
  <2>5. ASSUME NEW u \in Thread, fn[u] = "unmap", total["map"] # GarbageTime, NEW a \in Alloc
        PROVE  slot'[u][a] \in IF a < n'[u] THEN {"unmapped", "MAP_FAILED"}
                               ELSE {"mapped", "MAP_FAILED"}
    <3>1. slot[u][a] \in IF a < n[u] THEN {"unmapped", "MAP_FAILED"} ELSE {"mapped", "MAP_FAILED"}
      BY Zenon, <2>5 DEF Slots
    <3>2. CASE u = t
      BY Zenon, <2>2, <2>3, <2>4, <3>1, <3>2
    <3>3. CASE u # t
      BY Zenon, <2>2, <2>3, <3>1, <3>3
    <3> QED
      BY Zenon, <3>2, <3>3
  <2>6. \A u \in Thread : fn[u] = "map" => u # t
    BY Zenon, <2>1
  <2>7. \A u \in Thread : u # t => n'[u] = n[u] /\ \A a \in Alloc : slot'[u][a] = slot[u][a]
    BY Zenon, <2>2, <2>3
  <2> QED
    BY <2>1, <2>5, <2>6, <2>7 DEF Slots
<1> QED
  BY Zenon, <1>1, <1>2, <1>3 DEF Step

\* Every step keeps what is said of the mappings.
LEMMA SlotsNext == TypeOK /\ Barrier /\ Joins /\ Slots /\ [Next]_vars => Slots'
<1>1. Slots /\ UNCHANGED vars => Slots'
  BY Zenon DEF vars, main, thread, Slots, Thread, Alloc
<1> QED
  BY Zenon, <1>1, SlotsMain, SlotsStep DEF Next, Ended, Spin

\* If every thread could be created, the totals that are printed account for
\* every pass of every thread, and no mapping is left: main adds each time once,
\* and only when its thread has ended.
THEOREM TotalsCorrect == Spec => []TotalsComplete
<1>1. Init => Joins /\ Totals /\ Slots
  <2> SUFFICES ASSUME Init PROVE Joins /\ Totals /\ Slots
    BY Zenon
  <2>0. arg.threads \in Nat
    BY Zenon, TypeInit, ArgTypes
  <2>1. Measured = [t \in Thread |-> 0]
    BY Zenon DEF Init, Measured, Started
  <2>2. Sums([k \in 0..arg.threads |-> 0], Measured, arg.threads)
    BY <2>0, <2>1 DEF Sums, Thread
  <2>3. /\ spent["map"] = [k \in 0..arg.threads |-> 0][arg.threads]
        /\ total["map"] = [k \in 0..arg.threads |-> 0][Counted]
    BY <2>0 DEF Init, Counted, Phase
  <2>4. phase = "map" /\ total["unmap"] = 0 /\ spent["unmap"] = 0 /\ total["map"] # GarbageTime
    BY DEF Init, Phase, GarbageTime
  <2>5. Totals
    BY Zenon, <2>2, <2>3, <2>4 DEF Totals
  <2>6. Joins
    BY <2>0 DEF Init, Joins, Started, Counted, Thread, Garbage
  <2>7. Slots
    BY Zenon DEF Init, Slots, Phase
  <2> QED
    BY Zenon, <2>5, <2>6, <2>7
<1>2. TypeOK /\ Joins /\ Totals /\ Slots => TotalsComplete
  <2> SUFFICES ASSUME TypeOK, Joins, Totals, Slots, mpc = "done",
                      \A p \in Phase : total[p] # GarbageTime
               PROVE  /\ \A p \in Phase : total[p] = spent[p]
                      /\ \A t \in Thread, a \in Alloc : slot[t][a] \in {"unmapped", "MAP_FAILED"}
    BY Zenon DEF TotalsComplete
  <2>0. arg.threads \in Nat /\ arg.allocs \in Nat
    BY Zenon, ArgTypes
  <2>1. Counted = arg.threads
    BY Zenon DEF Counted
  <2>2. \A p \in Phase : total[p] = spent[p]
    BY Zenon, <2>1 DEF Totals, Phase, TypeOK
  <2>3. ASSUME NEW t \in Thread, NEW a \in Alloc
        PROVE  slot[t][a] \in {"unmapped", "MAP_FAILED"}
    <3>1. Started(t) /\ tpc[t] = "exit"
      BY <2>0, <2>1 DEF Joins, Thread, TypeOK
    <3> QED
      BY Zenon, <3>1, AllPasses DEF Joins, Slots, Started, Phase
  <2> QED
    BY Zenon, <2>2, <2>3
<1> QED
  BY <1>1, <1>2, TypeInit, InitBarrier, TypeNext, BarrierNext, JoinsNext, TotalsNext, SlotsNext,
     PTL DEF Spec
=============================================================================
