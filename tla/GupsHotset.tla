---------------------------- MODULE GupsHotset ----------------------------
(***************************************************************************)
(* bmks/gups/gups-hotset-move.c: worker threads that update random         *)
(* elements of their regions, a thread that moves the hot set and stops    *)
(* the workers by the clock, a thread that adds up the workers' counters   *)
(* once a second, and main, which reports the sum when the workers are     *)
(* done.  They share plain variables without any synchronisation but the   *)
(* joins; the build does not optimise, so every access is one to memory.   *)
(*                                                                         *)
(* A random number is any number; an access is the bytes it touches.       *)
(***************************************************************************)
EXTENDS Integers

CONSTANTS
  Threads,     \* [threads]
  Updates,     \* [updates per thread], after rounding
  Size,        \* bytes of the field
  EltSize,     \* [data size (bytes)]
  HotBytes,    \* tot_hot_size
  MoveHotset,  \* [move hotset]
  HalfInt,     \* 2^31, the first number an int does not hold
  Chunk,       \* updates between two changes of thread_gups (10000)
  MoveTic,     \* the window of tics in which the hot set moves (150) ...
  MoveEnd,     \* ... and its end (300)
  StopTic      \* the tic at which the workers are stopped (600)

Tids == 0 .. Threads - 1
nelems == (Size \div Threads) \div EltSize
hotsize == (HotBytes \div Threads) \div EltSize

ASSUME GupsAssumption ==
  /\ Threads \in Nat \ {0} /\ EltSize \in Nat \ {0}
  /\ {Updates, Size, HotBytes} \subseteq Nat
  /\ nelems > 0 /\ hotsize > 0 /\ Chunk \in Nat \ {0} /\ HalfInt \in Nat \ {0}
  /\ MoveHotset \in BOOLEAN /\ {MoveTic, MoveEnd, StopTic} \subseteq Nat

iters == Updates * 2

VARIABLES
  main,          \* where main is: "spawn", "join", "report", "reset", "munmap", "done"
  worker,        \* where each worker is: "none", "access", "count", "done"
  i,             \* iterations each worker has made
  bytes,         \* the bytes touched by its last access
  thread_gups, move_hotset1, stop, tot_updates,   \* the shared variables
  tic,           \* the timer's: tics so far, -1 before the first
  printer,       \* the printer's: next thread to add, tot_gups, tot_last_second_gups
  crashed,       \* has the process died?
  reported,      \* tot_updates as main reported it, -1: not yet
  stoppedAt      \* history: the counters when stop was set

shared == <<thread_gups, move_hotset1, stop, tot_updates>>
vars == <<main, worker, i, bytes, shared, tic, printer, crashed, reported, stoppedAt>>

\* The sum of f over all threads.
Sum(f) == LET s[t \in 0 .. Threads] == IF t = 0 THEN 0 ELSE s[t - 1] + f[t - 1] IN s[Threads]

Init ==
  /\ main = "spawn"
  /\ worker = [t \in Tids |-> "none"]
  /\ i = [t \in Tids |-> 0]
  /\ bytes = [t \in Tids |-> {}]
  /\ thread_gups = [t \in Tids |-> 0]
  /\ move_hotset1 = FALSE /\ stop = FALSE /\ tot_updates = 0
  /\ tic = -1
  /\ printer = [next |-> -1, tot |-> 0, last |-> 0]
  /\ crashed = FALSE /\ reported = -1
  /\ stoppedAt = [t \in Tids |-> iters]

Running == ~ crashed /\ main # "done"

(***************************************************************************)
(* do_gups.                                                                *)
(***************************************************************************)

\* field is a pointer to 8 bytes whatever the size of the elements is.
Stride == IF EltSize = 8 THEN 8 ELSE EltSize * 8
Start(t) == t * nelems * EltSize

\* Where an element is.
Bytes(t, index) == (Start(t) + index * Stride) .. (Start(t) + index * Stride + EltSize - 1)

\* Mutant: moves one more.
HotIndexMore(n) == IF move_hotset1 /\ n <= hotsize \div 4 THEN n + hotsize ELSE n

\* An element of the hot set, the first quarter of which moves behind it.  The
\* region may have no room there: neither main nor the driver compares the sizes.
HotIndex(n) == IF move_hotset1 /\ n < hotsize \div 4 THEN n + hotsize ELSE n

\* Behind the field there may be nothing, which is SIGSEGV, or something else.
Access(t) ==
  /\ Running /\ worker[t] = "access"
  /\ IF i[t] < iters
     THEN /\ \/ \E n \in 0 .. hotsize - 1 : bytes' = [bytes EXCEPT ![t] = Bytes(t, HotIndex(n))]
             \/ \E n \in 0 .. nelems - 1 : bytes' = [bytes EXCEPT ![t] = Bytes(t, n)]
          /\ crashed' \in IF bytes'[t] \subseteq 0 .. Size - 1 THEN {FALSE} ELSE BOOLEAN
          /\ worker' = [worker EXCEPT ![t] = "count"]
     ELSE UNCHANGED <<bytes, crashed>> /\ worker' = [worker EXCEPT ![t] = "done"]
  /\ UNCHANGED <<main, i, shared, tic, printer, reported, stoppedAt>>

\* Mutant: does not look at stop.
CountOn(t) ==
  /\ Running /\ worker[t] = "count"
  /\ thread_gups' = [thread_gups EXCEPT ![t] = @ + (IF i[t] % Chunk = 0 THEN Chunk ELSE 0)]
  /\ worker' = [worker EXCEPT ![t] = "access"]
  /\ i' = [i EXCEPT ![t] = @ + 1]
  /\ UNCHANGED <<main, bytes, move_hotset1, stop, tot_updates, tic, printer, crashed,
                 reported, stoppedAt>>

\* Mutant: i is the counter of the updates, and counts only chunks.
CountChunks(t) ==
  /\ Running /\ worker[t] = "count"
  /\ thread_gups' = [thread_gups EXCEPT ![t] = IF i[t] % Chunk = 0 THEN Chunk ELSE @]
  /\ worker' = [worker EXCEPT ![t] = IF stop THEN "done" ELSE "access"]
  /\ UNCHANGED <<main, i, bytes, move_hotset1, stop, tot_updates, tic, printer, crashed,
                 reported, stoppedAt>>

\* The end of an iteration.
Count(t) ==
  /\ Running /\ worker[t] = "count"
  /\ thread_gups' = [thread_gups EXCEPT ![t] = @ + (IF i[t] % Chunk = 0 THEN Chunk ELSE 0)]
  /\ worker' = [worker EXCEPT ![t] = IF stop THEN "done" ELSE "access"]
  /\ i' = [i EXCEPT ![t] = @ + 1]
  /\ UNCHANGED <<main, bytes, move_hotset1, stop, tot_updates, tic, printer, crashed,
                 reported, stoppedAt>>

(***************************************************************************)
(* timing_thread.                                                          *)
(***************************************************************************)

Tic ==
  /\ Running /\ tic < StopTic        \* later tics change nothing
  /\ tic' = tic + 1
  /\ move_hotset1' = (move_hotset1 \/ (MoveHotset /\ tic' >= MoveTic /\ tic' < MoveEnd))
  /\ stop' = (tic' >= StopTic)
  /\ stoppedAt' = IF stop' THEN i ELSE stoppedAt
  /\ UNCHANGED <<main, worker, i, bytes, thread_gups, tot_updates, printer, crashed, reported>>

(***************************************************************************)
(* print_instantaneous_gups.                                               *)
(***************************************************************************)

\* Without its file, perror and then fprintf to a null pointer.
OpenTotals ==
  /\ Running /\ printer.next = -1
  /\ \/ printer' = [printer EXCEPT !.next = 0] /\ crashed' = FALSE
     \/ printer' = printer /\ crashed' = TRUE
  /\ UNCHANGED <<main, worker, i, bytes, shared, tic, reported, stoppedAt>>

AddThread ==
  /\ Running /\ printer.next \in Tids
  /\ printer' = [printer EXCEPT !.next = @ + 1, !.tot = @ + thread_gups[printer.next]]
  /\ UNCHANGED <<main, worker, i, bytes, shared, tic, crashed, reported, stoppedAt>>

\* A number of 64 bits as an int, and abs of that; abs(INT_MIN) is INT_MIN.
ToInt(n) == ((n + HalfInt) % (2 * HalfInt)) - HalfInt
Abs(n) == IF ToInt(n) < 0 /\ ToInt(n) # -HalfInt THEN -ToInt(n) ELSE ToInt(n)

\* Mutant: takes the sum for the difference to the last second.
AddSecondAgain ==
  /\ Running /\ printer.next = Threads
  /\ tot_updates' = tot_updates + Abs(printer.tot)
  /\ printer' = [next |-> 0, tot |-> 0, last |-> printer.tot]
  /\ UNCHANGED <<main, worker, i, bytes, thread_gups, move_hotset1, stop, tic, crashed,
                 reported, stoppedAt>>

\* The end of a second; abs is the one of ints.  A tot_updates below 0 stands for a
\* number as far below 2^64.
AddSecond ==
  /\ Running /\ printer.next = Threads
  /\ tot_updates' = tot_updates + Abs(printer.tot - printer.last)
  /\ printer' = [next |-> 0, tot |-> 0, last |-> printer.tot]
  /\ UNCHANGED <<main, worker, i, bytes, thread_gups, move_hotset1, stop, tic, crashed,
                 reported, stoppedAt>>

(***************************************************************************)
(* main, from the creation of the threads on.                              *)
(***************************************************************************)

Spawn ==
  /\ Running /\ main = "spawn"
  /\ LET t == CHOOSE u \in Tids : worker[u] = "none" /\ \A v \in 0 .. u - 1 : worker[v] # "none"
     IN worker' = [worker EXCEPT ![t] = "access"]
  /\ main' = IF \A t \in Tids : worker'[t] # "none" THEN "join" ELSE "spawn"
  /\ UNCHANGED <<i, bytes, shared, tic, printer, crashed, reported, stoppedAt>>

\* A pthread_create that fails is the end: assert(r == 0).
SpawnFails ==
  /\ Running /\ main = "spawn"
  /\ crashed' = TRUE
  /\ UNCHANGED <<main, worker, i, bytes, shared, tic, printer, reported, stoppedAt>>

Join ==
  /\ Running /\ main = "join"
  /\ \A t \in Tids : worker[t] = "done"
  /\ main' = "report"
  /\ UNCHANGED <<worker, i, bytes, shared, tic, printer, crashed, reported, stoppedAt>>

Report ==
  /\ Running /\ main = "report"
  /\ reported' = tot_updates
  /\ main' = "reset"
  /\ UNCHANGED <<worker, i, bytes, shared, tic, printer, crashed, stoppedAt>>

\* memset, under the eyes of the printer.
Reset ==
  /\ Running /\ main = "reset"
  /\ thread_gups' = [t \in Tids |-> 0]
  /\ main' = "munmap"
  /\ UNCHANGED <<worker, i, bytes, move_hotset1, stop, tot_updates, tic, printer, crashed,
                 reported, stoppedAt>>

\* The field is unmapped, and main returns: the other threads end.
Return ==
  /\ Running /\ main = "munmap"
  /\ main' = "done"
  /\ UNCHANGED <<worker, i, bytes, shared, tic, printer, crashed, reported, stoppedAt>>

Worker(t) == Access(t) \/ Count(t)
Main == Spawn \/ SpawnFails \/ Join \/ Report \/ Reset \/ Return
Next == Main \/ Tic \/ OpenTotals \/ AddThread \/ AddSecond \/ \E t \in Tids : Worker(t)

Spec == Init /\ [][Next]_vars

\* The threads of the program are scheduled.
FairSpec == Spec /\ WF_vars(Main) /\ \A t \in Tids : WF_vars(Worker(t))

-----------------------------------------------------------------------------
(***************************************************************************)
(* Properties.                                                             *)
(***************************************************************************)

\* Every variable has a value of its kind.
TypeOK ==
  /\ main \in {"spawn", "join", "report", "reset", "munmap", "done"}
  /\ worker \in [Tids -> {"none", "access", "count", "done"}]
  /\ i \in [Tids -> 0 .. iters]
  /\ thread_gups \in [Tids -> Nat] /\ tot_updates \in Int
  /\ move_hotset1 \in BOOLEAN /\ stop \in BOOLEAN /\ crashed \in BOOLEAN
  /\ tic \in -1 .. StopTic /\ printer.next \in -1 .. Threads /\ reported \in Int

\* How many elements a worker can reach: those of its region or of the hot set
\* and, once it has moved, of the quarter behind that.
Reach == LET hot == IF move_hotset1 THEN hotsize + hotsize \div 4 ELSE hotsize
         IN IF hot < nelems THEN nelems ELSE hot

\* Nothing but the sizes keeps the workers apart (ga[i]->field, ga[i]->size).  With
\* elements of 8 bytes a worker is in its own region until the hot set moves, and
\* after that too if there is room behind it; else it exceeds the region, into
\* the next worker's or behind the field, by what there is no room for.
ExceedsByQuarter ==
  \A t \in Tids : bytes[t] \subseteq Start(t) .. (Start(t) + (Reach - 1) * Stride + EltSize - 1)

\* What main reports was done: the printer's sum of differences, read while the
\* printer is in the middle of a second, exceeds the updates made by less than
\* a chunk for each worker.  Seconds of 2^31 or more updates are counted short,
\* never long, unless abs(INT_MIN) makes the sum negative.
ReportedWasDone ==
  reported >= 0 => reported <= Sum([t \in Tids |-> i[t] + Chunk - 1])

\* A worker makes at most one more update after the timer has set stop.
StopsWithinOne == \A t \in Tids : i[t] <= stoppedAt[t] + 1

\* The program ends, with or without a report.
Ends == <>(crashed \/ main = "done")
=============================================================================
