---------------------------- MODULE FaultTracker ----------------------------
(***************************************************************************)
(* scripts/mm_fault_tracker.py: BPF programs on the entry and the return   *)
(* of the kernel's fault, allocation and zeroing functions, a program on   *)
(* the exit of a thread, and the loop that prints what they found.         *)
(*                                                                         *)
(* A time span is the pair of the call whose entry it was started at and   *)
(* the call whose return it was ended at; a sum of time spans is the set   *)
(* of them.  Calls are numbered.  The two functions attached to each       *)
(* program (say __handle_mm_fault and hugetlb_fault) are one.              *)
(***************************************************************************)
EXTENDS Naturals, Sequences, FiniteSets

CONSTANTS
  Tids,         \* the thread ids the kernel gives out, again and again
  MaxCalls,     \* bound: calls of the traced functions
  MapSize,      \* the entries a BPF_HASH holds
  MaxLive,      \* bound: threads alive at the same time
  BufferSize,   \* the events the perf buffer holds
  Setups        \* how the script is used: see below

ASSUME FaultTrackerAssumption ==
  /\ MaxCalls \in Nat /\ MapSize \in Nat /\ MaxLive \in Nat /\ BufferSize \in Nat
  /\ Setups \subseteq [name : Nat, early : BOOLEAN, misses : BOOLEAN]

Fn == {"fault", "alloc", "zero"}

\* The order of the attach calls.
Probes == << <<"fault", "entry">>, <<"fault", "return">>, <<"zero", "entry">>,
             <<"zero", "return">>, <<"alloc", "entry">>, <<"alloc", "return">> >>

VARIABLES
  setup,       \* the length of the name given with -c; may the target run before
               \* the probes are attached, may a kretprobe miss a return because
               \* all its instances are in use?
  attached,    \* how many probes are attached
  calls,       \* calls made so far
  alive,       \* the threads that exist
  named,       \* the threads whose comm is that of the target
  stack,       \* the traced functions each thread is in, innermost first
  start,       \* fault_start, alloc_start and zero_start
  stats,       \* fault_stats
  events,      \* fault_events, the perf buffer
  printed,     \* what handle_fault_event printed
  polling,     \* is the loop at the end of the script running? "no", "yes", "stopped"
  divided,     \* did it divide by zero?
  truth        \* history: the calls of each thread that can be measured

maps == <<start, stats>>
report == <<events, printed, polling, divided>>
vars == <<setup, attached, calls, alive, named, stack, maps, report, truth>>

Put(map, k, v) == [x \in DOMAIN map \cup {k} |-> IF x = k THEN v ELSE map[x]]
Remove(map, k) == [x \in DOMAIN map \ {k} |-> map[x]]

\* map.update: a new key is refused when the map is full.
Update(map, k, v) ==
  IF k \in DOMAIN map \/ Cardinality(DOMAIN map) < MapSize THEN Put(map, k, v) ELSE map

NoStats == [f \in Fn |-> {}]
Empty == [x \in {} |-> 0]

Init ==
  /\ setup \in Setups
  /\ attached = 0 /\ calls = 0
  /\ alive = {} /\ named = {} /\ stack = [t \in Tids |-> <<>>]
  /\ start = [f \in Fn |-> Empty] /\ stats = Empty
  /\ events = <<>> /\ printed = {} /\ polling = "no" /\ divided = FALSE
  /\ truth = [t \in Tids |-> NoStats]

-----------------------------------------------------------------------------
(***************************************************************************)
(* The filter on the process name.                                         *)
(***************************************************************************)

\* The kernel keeps the first 15 characters of a name, the script the first 15
\* of a name of more than 16; strequals compares up to the end of both.
CommLen == IF setup.name > 15 THEN 15 ELSE setup.name
TargetLen == IF setup.name > 16 THEN 15 ELSE setup.name

Tracked(t) == t \in named /\ CommLen = TargetLen

(***************************************************************************)
(* The BPF programs, run by thread t.                                      *)
(***************************************************************************)

Attached(f, at) == \E k \in 1..attached : Probes[k] = <<f, at>>

\* pf_start
FaultStart(t, c) ==
  /\ stats' = IF t \in DOMAIN stats THEN stats ELSE Update(stats, t, NoStats)
  /\ start' = [start EXCEPT !["fault"] = Update(@, t, c)]

\* pf_end
FaultEnd(t, c) ==
  IF t \in DOMAIN start["fault"] \cap DOMAIN stats
  THEN /\ stats' = [stats EXCEPT ![t]["fault"] = @ \cup {<<start["fault"][t], c>>}]
       /\ start' = [start EXCEPT !["fault"] = Remove(@, t)]
  ELSE UNCHANGED maps

\* Mutant: insert, which leaves an entry that is there alone.
SpanStartInserts(t, f, c) ==
  /\ start' = [start EXCEPT ![f] = IF t \in DOMAIN @ THEN @ ELSE Update(@, t, c)]
  /\ UNCHANGED stats

\* alloc_page_start and zero_page_start
SpanStart(t, f, c) == start' = [start EXCEPT ![f] = Update(@, t, c)] /\ UNCHANGED stats

\* alloc_page_end and zero_page_end, which do not delete the start.
SpanEnd(t, f, c) ==
  /\ stats' = IF t \in DOMAIN start[f] \cap DOMAIN stats
              THEN [stats EXCEPT ![t][f] = @ \cup {<<start[f][t], c>>}] ELSE stats
  /\ UNCHANGED start

\* Mutant: the statistics of the thread stay in the map.
ThreadExitKeepsStats(t) ==
  /\ events' = IF t \in DOMAIN stats /\ polling = "yes" /\ Len(events) < BufferSize
               THEN Append(events, stats[t]) ELSE events
  /\ UNCHANGED <<start, stats, printed, polling, divided>>

\* sched_process_exit; a perf buffer that is full or not open drops the event.
ThreadExit(t) ==
  /\ events' = IF t \in DOMAIN stats /\ polling = "yes" /\ Len(events) < BufferSize
               THEN Append(events, stats[t]) ELSE events
  /\ stats' = Remove(stats, t)
  /\ UNCHANGED <<start, printed, polling, divided>>

-----------------------------------------------------------------------------
(***************************************************************************)
(* The threads of the host.                                                *)
(***************************************************************************)

\* The driver starts the script before a batch workload, but after a server.
TargetMayRun == setup.early \/ polling # "no"

\* A new thread keeps the name of its creator, the target or another program.
Fork(t) ==
  /\ t \notin alive /\ Cardinality(alive) < MaxLive /\ alive' = alive \cup {t}
  /\ named' = named \/ (TargetMayRun /\ named' = named \cup {t})
  /\ UNCHANGED <<setup, attached, calls, stack, maps, report, truth>>

\* sudo, taskset and the wrappers of the command prefix exec the target.
Exec(t) ==
  /\ t \in alive \ named /\ stack[t] = <<>> /\ TargetMayRun /\ named' = named \cup {t}
  /\ UNCHANGED <<setup, attached, calls, alive, stack, maps, report, truth>>

\* A fault allocates and zeroes pages, and allocating the blocks of a file may
\* zero them; both also happen outside of faults.
Callers == [fault |-> {}, alloc |-> {"fault"}, zero |-> {"fault", "alloc"}]

MayCall(t, f) ==
  /\ t \in alive /\ calls < MaxCalls
  /\ stack[t] # <<>> => Head(stack[t]).fn \in Callers[f]

\* Thread t enters f: the entry program runs, and the return is hooked.
Enter(t, f) ==
  /\ MayCall(t, f)
  /\ calls' = calls + 1
  /\ \E hooked \in IF Attached(f, "return")
                    THEN {TRUE} \cup (IF setup.misses THEN {FALSE} ELSE {}) ELSE {FALSE} :
       stack' = [stack EXCEPT ![t] = <<[fn |-> f, call |-> calls', hooked |-> hooked]>> \o @]
  /\ IF ~Attached(f, "entry") \/ ~Tracked(t) THEN UNCHANGED maps
     ELSE IF f = "fault" THEN FaultStart(t, calls') ELSE SpanStart(t, f, calls')
  /\ UNCHANGED <<setup, attached, alive, named, report, truth>>

\* Thread t returns from the innermost function.
Leave(t) ==
  /\ t \in alive /\ stack[t] # <<>>
  /\ LET top == Head(stack[t])
     IN  /\ IF ~top.hooked \/ ~Tracked(t) \/ polling = "stopped" THEN UNCHANGED maps
            ELSE IF top.fn = "fault" THEN FaultEnd(t, top.call)
            ELSE SpanEnd(t, top.fn, top.call)
         /\ truth' = IF top.hooked /\ t \in named
                     THEN [truth EXCEPT ![t][top.fn] = @ \cup {top.call}] ELSE truth
  /\ stack' = [stack EXCEPT ![t] = Tail(@)]
  /\ UNCHANGED <<setup, attached, calls, alive, named, report>>

Exit(t) ==
  /\ t \in alive /\ stack[t] = <<>>
  /\ alive' = alive \ {t} /\ named' = named \ {t}
  /\ truth' = [truth EXCEPT ![t] = NoStats]
  /\ IF polling = "stopped" THEN UNCHANGED <<maps, report>> ELSE ThreadExit(t)
  /\ UNCHANGED <<setup, attached, calls, stack>>

(***************************************************************************)
(* The script.                                                             *)
(***************************************************************************)

Attach ==
  /\ polling = "no" /\ attached < Len(Probes) /\ attached' = attached + 1
  /\ UNCHANGED <<setup, calls, alive, named, stack, maps, report, truth>>

\* open_perf_buffer
OpenBuffer ==
  /\ polling = "no" /\ attached = Len(Probes) /\ polling' = "yes"
  /\ UNCHANGED <<setup, attached, calls, alive, named, stack, maps, events, printed, divided, truth>>

\* handle_fault_event, called by perf_buffer_poll: dividing by number_faults
\* raises an exception if it is 0.
HandleEvent ==
  /\ polling = "yes" /\ events # <<>> /\ events' = Tail(events)
  /\ IF Head(events)["fault"] = {} THEN divided' = TRUE /\ UNCHANGED printed
     ELSE printed' = printed \cup {Head(events)} /\ UNCHANGED divided
  /\ UNCHANGED <<setup, attached, calls, alive, named, stack, maps, polling, truth>>

\* KeyboardInterrupt, or the stop file: the script ends and its probes go.
Stop ==
  /\ polling = "yes" /\ polling' = "stopped" /\ attached' = 0
  /\ UNCHANGED <<setup, calls, alive, named, stack, maps, events, printed, divided, truth>>

Next ==
  \/ Attach \/ OpenBuffer \/ HandleEvent \/ Stop
  \/ \E t \in Tids : Fork(t) \/ Exec(t) \/ (\E f \in Fn : Enter(t, f)) \/ Leave(t) \/ Exit(t)

Spec == Init /\ [][Next]_vars

-----------------------------------------------------------------------------
\* While the script runs, and if it was there before the target and no return is
\* missed, what it has for a thread of the target are exactly the faults of that
\* thread, each with its own duration: however many threads came and went before
\* it, and although thread ids are given out again.
FaultsExact ==
  polling # "stopped" /\ ~setup.early /\ ~setup.misses =>
    \A t \in named :
      (IF t \in DOMAIN stats THEN stats[t]["fault"] ELSE {})
        = {<<c, c>> : c \in truth[t]["fault"]}

\* No time span ever starts at one call and ends at another, or belongs to
\* another thread, although the starts of allocations and zeroings are left in
\* their maps and returns may be missed.
SpansMatch ==
  \A t \in DOMAIN stats, f \in Fn : \A s \in stats[t][f] :
    s[1] = s[2] /\ (t \in named /\ polling # "stopped" => s[1] \in truth[t][f])

\* Each event can be printed: the average is never taken over no fault.
NoDivisionByZero == ~divided
=============================================================================
