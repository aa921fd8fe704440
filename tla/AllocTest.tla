------------------------------ MODULE AllocTest ------------------------------
(***************************************************************************)
(* The mmap benchmark of bmks/alloc_test.c.                                *)
(*                                                                         *)
(* main starts one thread per core that maps memory, waits for all, then   *)
(* starts as many that unmap it.  In each phase the threads spin on the    *)
(* flag `begin' until all of them exist, so that they run at the same      *)
(* time.  With a single thread main calls the two functions itself.        *)
(***************************************************************************)
EXTENDS Integers

CONSTANTS
  Args,    \* the arguments the program is started with
  Cycles,  \* bound: what one pass of a loop may take on the TSC
  Faults   \* which calls may fail: "mmap", "create"

\* num_threads, num_allocations, the pages of one mapping, and touch.
ASSUME ArgsAssumption ==
  /\ Args \subseteq [threads : Nat, allocs : Nat, pages : Nat \ {0}, touch : BOOLEAN]
  /\ Cycles \subseteq Nat /\ Faults \subseteq {"mmap", "create"}

VARIABLES
  arg,       \* the arguments of this run
  mpc,       \* where main is
  phase,     \* which of the two functions it runs
  i,         \* the loop counter of its loop over the threads
  begin,     \* the flag the threads spin on
  total,     \* total_map_time and total_unmap_time
  handle,    \* threads[]: an uninitialised, a live or an already joined thread
  tpc,       \* where each thread is
  fn,        \* the function it was started with
  n,         \* its loop counter
  time,      \* map_time and unmap_time, its result
  slot,      \* addr[][]: what became of each mapping
  missed,    \* the pages of its last mapping each thread did not write to
  spent      \* history: what the passes of each phase took altogether

main == <<arg, mpc, phase, i, begin, total, handle>>
thread == <<tpc, fn, n, time, slot, missed, spent>>
vars == <<main, thread>>

Thread == 1..arg.threads
Alloc == 1..arg.allocs
Pages == 0..(arg.pages - 1)
Garbage == "garbage"
GarbageTime == -1
Phase == {"map", "unmap"}

Init ==
  /\ arg \in Args
  /\ mpc = "create" /\ phase = "map" /\ i = 1 /\ begin = 0
  /\ total = [p \in Phase |-> 0]
  /\ handle = [t \in Thread |-> Garbage]
  /\ tpc = [t \in Thread |-> "none"] /\ fn = [t \in Thread |-> "map"]
  /\ n = [t \in Thread |-> 1] /\ time = [t \in Thread |-> 0]
  /\ slot = [t \in Thread |-> [a \in Alloc |-> Garbage]]
  /\ missed = [t \in Thread |-> {}]
  /\ spent = [p \in Phase |-> 0]

-----------------------------------------------------------------------------
(***************************************************************************)
(* main                                                                    *)
(***************************************************************************)

\* Thread t enters map_thread or unmap_thread.
Enter(t) ==
  /\ tpc' = [tpc EXCEPT ![t] = "spin"] /\ fn' = [fn EXCEPT ![t] = phase]
  /\ n' = [n EXCEPT ![t] = 1] /\ time' = [time EXCEPT ![t] = 0]
  /\ UNCHANGED <<slot, missed, spent>>

\* pthread_create; its result is not looked at.
Create ==
  /\ mpc = "create" /\ arg.threads # 1 /\ i \in Thread
  /\ i' = i + 1
  /\ \/ Enter(i) /\ handle' = [handle EXCEPT ![i] = "live"]
     \/ "create" \in Faults /\ UNCHANGED <<handle, thread>>
  /\ UNCHANGED <<arg, mpc, phase, begin, total>>

\* num_threads == 1: begin = 1, and the function is called.
Call ==
  /\ mpc = "create" /\ arg.threads = 1
  /\ begin' = 1 /\ Enter(1) /\ mpc' = "call"
  /\ UNCHANGED <<arg, phase, i, total, handle>>

Return ==
  /\ mpc = "call" /\ tpc[1] = "exit"
  /\ total' = [total EXCEPT ![phase] = time[1]] /\ mpc' = "begin"
  /\ UNCHANGED <<arg, phase, i, begin, handle, thread>>

\* Mutant: the threads are not let go.
BeginForgotten ==
  /\ \/ mpc = "begin"
     \/ mpc = "create" /\ arg.threads # 1 /\ i \notin Thread
  /\ mpc' = "join" /\ i' = 1
  /\ UNCHANGED <<arg, phase, begin, total, handle, thread>>

Begin ==
  /\ \/ mpc = "begin"
     \/ mpc = "create" /\ arg.threads # 1 /\ i \notin Thread
  /\ begin' = 1 /\ mpc' = "join" /\ i' = 1
  /\ UNCHANGED <<arg, phase, total, handle, thread>>

\* Mutant: the time of a thread replaces the ones before it.
JoinLastOnly ==
  /\ mpc = "join" /\ arg.threads > 1 /\ i \in Thread
  /\ handle[i] = "live" => tpc[i] = "exit"
  /\ i' = i + 1 /\ handle' = [handle EXCEPT ![i] = "joined"]
  /\ total' = [total EXCEPT ![phase] = IF handle[i] = "live" THEN time[i] ELSE GarbageTime]
  /\ UNCHANGED <<arg, mpc, phase, begin, thread>>

\* Mutant: main goes on before the thread has ended.
JoinWithoutWaiting ==
  /\ mpc = "join" /\ arg.threads > 1 /\ i \in Thread
  /\ i' = i + 1 /\ handle' = [handle EXCEPT ![i] = "joined"]
  /\ total' = [total EXCEPT ![phase] = IF handle[i] = "live" /\ @ # GarbageTime
                                       THEN @ + time[i] ELSE GarbageTime]
  /\ UNCHANGED <<arg, mpc, phase, begin, thread>>

\* A thread that was never created cannot be joined: that crashes, or it fails
\* and the time it should have returned is uninitialised.
Join ==
  /\ mpc = "join" /\ arg.threads > 1 /\ i \in Thread
  /\ \/ /\ handle[i] = "live" /\ tpc[i] = "exit" /\ i' = i + 1
        /\ handle' = [handle EXCEPT ![i] = "joined"]
        /\ total' = [total EXCEPT ![phase] = IF @ = GarbageTime THEN @ ELSE @ + time[i]]
        /\ UNCHANGED mpc
     \/ /\ handle[i] # "live" /\ i' = i + 1
        /\ total' = [total EXCEPT ![phase] = GarbageTime]
        /\ UNCHANGED <<mpc, handle>>
     \/ handle[i] # "live" /\ mpc' = "crash" /\ UNCHANGED <<i, total, handle>>
  /\ UNCHANGED <<arg, phase, begin, thread>>

\* Mutant: begin is still set when the unmap threads are created.
NextPhaseBegun ==
  /\ mpc = "join" /\ (arg.threads <= 1 \/ i \notin Thread) /\ phase = "map"
  /\ phase' = "unmap" /\ mpc' = "create" /\ i' = 1
  /\ UNCHANGED <<arg, begin, total, handle, thread>>

\* All map threads are joined: begin = 0 and the other half.
NextPhase ==
  /\ mpc = "join" /\ (arg.threads <= 1 \/ i \notin Thread) /\ phase = "map"
  /\ begin' = 0 /\ phase' = "unmap" /\ mpc' = "create" /\ i' = 1
  /\ UNCHANGED <<arg, total, handle, thread>>

Exit ==
  /\ mpc = "join" /\ (arg.threads <= 1 \/ i \notin Thread) /\ phase = "unmap"
  /\ mpc' = "done"
  /\ UNCHANGED <<arg, phase, i, begin, total, handle, thread>>

-----------------------------------------------------------------------------
(***************************************************************************)
(* map_thread and unmap_thread                                             *)
(***************************************************************************)

\* while (!begin) {}
Spin(t) == tpc[t] = "spin" /\ begin = 0 /\ UNCHANGED vars

Go(t) ==
  /\ tpc[t] = "spin" /\ begin = 1 /\ mpc # "crash"
  /\ tpc' = [tpc EXCEPT ![t] = "run"]
  /\ UNCHANGED <<main, fn, n, time, slot, missed, spent>>

\* One pass of the loop of function f ends.
Pass(t, f) ==
  /\ tpc[t] = "run" /\ fn[t] = f /\ n[t] \in Alloc /\ mpc # "crash"
  /\ n' = [n EXCEPT ![t] = @ + 1]
  /\ \E d \in Cycles : /\ time' = [time EXCEPT ![t] = @ + d]
                       /\ spent' = [spent EXCEPT ![f] = @ + d]
  /\ UNCHANGED <<main, tpc, fn>>

\* The int j << PAGE_SHIFT, in pages: a 32-bit int holds the offsets of 2^20
\* pages, half of them negative.  No other j reaches a page p that j = p misses.
TouchedPage(j) == ((j + 2^19) % 2^20) - 2^19

\* mmap, whose result is not looked at, and the touch loop.
Map(t) ==
  /\ Pass(t, "map")
  /\ \/ /\ slot' = [slot EXCEPT ![t][n[t]] = "mapped"]
        /\ missed' = [missed EXCEPT ![t] =
                         IF arg.touch THEN {p \in Pages : TouchedPage(p) # p} ELSE Pages]
     \/ /\ "mmap" \in Faults /\ ~arg.touch
        /\ slot' = [slot EXCEPT ![t][n[t]] = "MAP_FAILED"]
        /\ UNCHANGED missed

\* The touch loop writes below the mapping, or through MAP_FAILED; or munmap is
\* given an uninitialised address and takes away what the program needs.
Segfault(t) ==
  /\ tpc[t] = "run" /\ n[t] \in Alloc /\ mpc # "crash"
  /\ \/ /\ fn[t] = "map" /\ arg.touch
        /\ "mmap" \in Faults \/ \E j \in Pages : TouchedPage(j) < 0
     \/ fn[t] = "unmap" /\ slot[t][n[t]] = Garbage
  /\ mpc' = "crash"
  /\ UNCHANGED <<arg, phase, i, begin, total, handle, thread>>

\* munmap refuses MAP_FAILED, and mostly an uninitialised address.
Unmap(t) ==
  /\ Pass(t, "unmap")
  /\ slot' = [slot EXCEPT ![t][n[t]] = IF @ = "mapped" THEN "unmapped" ELSE @]
  /\ UNCHANGED missed

ThreadExit(t) ==
  /\ tpc[t] = "run" /\ n[t] \notin Alloc /\ mpc # "crash"
  /\ tpc' = [tpc EXCEPT ![t] = "exit"]
  /\ UNCHANGED <<main, fn, n, time, slot, missed, spent>>

Main == Create \/ Call \/ Return \/ Begin \/ Join \/ NextPhase \/ Exit

Step(t) == Go(t) \/ Map(t) \/ Segfault(t) \/ Unmap(t) \/ ThreadExit(t)

Ended == mpc \in {"done", "crash"} /\ UNCHANGED vars

Next == Main \/ (\E t \in Thread : Step(t) \/ Spin(t)) \/ Ended

Spec == Init /\ [][Next]_vars

\* Every thread has a core of its own: the driver pins as many cores as there
\* are threads, so a spinning thread does not keep main from running.
FairSpec ==
  /\ Spec /\ WF_vars(Main)
  /\ \A t \in UNION {1..a.threads : a \in Args} : WF_vars(t \in Thread /\ Step(t))

-----------------------------------------------------------------------------
\* The values the variables range over.
TypeOK ==
  /\ arg \in Args /\ mpc \in {"create", "call", "begin", "join", "done", "crash"}
  /\ phase \in Phase /\ i \in 1..(arg.threads + 1) /\ begin \in {0, 1}
  /\ total \in [Phase -> Nat \cup {GarbageTime}]
  /\ handle \in [Thread -> {Garbage, "live", "joined"}]
  /\ tpc \in [Thread -> {"none", "spin", "run", "exit"}] /\ fn \in [Thread -> Phase]
  /\ n \in [Thread -> 1..(arg.allocs + 1)] /\ time \in [Thread -> Nat]
  /\ slot \in [Thread -> [Alloc -> {Garbage, "mapped", "MAP_FAILED", "unmapped"}]]
  /\ missed \in [Thread -> SUBSET Pages]
  /\ spent \in [Phase -> Nat]

\* No thread works before main is done creating the threads of its phase: the
\* measured calls run at the same time on all cores, in both phases.
StartTogether == \A t \in Thread : tpc[t] = "run" => mpc # "create" /\ fn[t] = phase

\* Nothing is unmapped while a thread is still to map, so neither measurement
\* disturbs the other.
PhasesApart ==
  \A t \in Thread : fn[t] = "unmap" =>
    \A u \in Thread : fn[u] = "map" => tpc[u] \in {"none", "exit"}

\* If all threads could be created and joined, the totals printed at the end
\* account for every pass of every thread, and no mapping is left.
TotalsComplete ==
  mpc = "done" /\ (\A p \in Phase : total[p] # GarbageTime) =>
    /\ \A p \in Phase : total[p] = spent[p]
    /\ \A t \in Thread, a \in Alloc : slot[t][a] \in {"unmapped", "MAP_FAILED"}

\* The program ends: no thread spins for ever and none is waited for in vain.
Terminates == <>(mpc \in {"done", "crash"})

\* --touch faults in every page of a mapping.
TouchReachesEveryPage ==
  \A t \in Thread : arg.touch /\ arg.allocs > 0 /\ tpc[t] = "exit" /\ fn[t] = "map"
    => missed[t] = {}
=============================================================================
