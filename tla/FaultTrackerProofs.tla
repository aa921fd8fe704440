------------------------- MODULE FaultTrackerProofs -------------------------
(***************************************************************************)
(* What the page fault tracker records, for any number of threads, calls   *)
(* and map entries.                                                        *)
(***************************************************************************)
EXTENDS FaultTracker, FiniteSetTheorems, TLAPS

Frame == [fn : Fn, call : Nat, hooked : BOOLEAN]

\* A map, and the maps of the script.
Map(m) == m = [x \in DOMAIN m |-> m[x]]

Kinds ==
  /\ setup \in Setups /\ attached \in 0..6 /\ calls \in Nat
  /\ alive \subseteq Tids /\ named \subseteq alive
  /\ stack \in [Tids -> Seq(Frame)]
  /\ start = [f \in Fn |-> start[f]] /\ \A f \in Fn : Map(start[f])
  /\ Map(stats) /\ \A t \in DOMAIN stats : stats[t] = [f \in Fn |-> stats[t][f]]
  /\ truth = [t \in Tids |-> truth[t]] /\ \A t \in Tids : truth[t] = [f \in Fn |-> truth[t][f]]
  /\ polling \in {"no", "yes", "stopped"}
  /\ polling = "yes" => attached = 6
  /\ polling = "stopped" => attached = 0

\* A function of the kernel does not call itself, and a thread that is gone is
\* in none of them.
Inside(f, g) == <<f, g>> \in {<<"fault", "alloc">>, <<"fault", "zero">>, <<"alloc", "zero">>}
Nested(t) ==
  /\ \A k, l \in DOMAIN stack[t] : k < l => Inside(stack[t][l].fn, stack[t][k].fn)
  /\ stack[t] # <<>> => t \in alive

\* If there is a start for a call whose return will be noticed, it is that call's.
Started(t) ==
  Tracked(t) => \A k \in DOMAIN stack[t] :
    LET f == stack[t][k].fn
    IN  stack[t][k].hooked /\ t \in DOMAIN start[f] => start[f][t] = stack[t][k].call

SpanSteps ==
  /\ Kinds /\ (\A t \in Tids : Nested(t)) /\ SpansMatch
  /\ polling # "stopped" => DOMAIN stats \subseteq named /\ \A t \in Tids : Started(t)

-----------------------------------------------------------------------------
(***************************************************************************)
(* Maps, stacks and probes.                                                *)
(***************************************************************************)

\* map.update changes one key, and the key has the new value if it is there.
LEMMA UpdateFacts ==
  ASSUME NEW m, Map(m), NEW k, NEW v
  PROVE  /\ Map(Update(m, k, v))
         /\ DOMAIN m \subseteq DOMAIN Update(m, k, v)
         /\ DOMAIN Update(m, k, v) \subseteq DOMAIN m \cup {k}
         /\ \A x \in DOMAIN m : x # k => Update(m, k, v)[x] = m[x]
         /\ k \in DOMAIN Update(m, k, v) => Update(m, k, v)[k] = v
BY Zenon DEF Update, Put, Map

\* map.delete takes one key away.
LEMMA RemoveFacts ==
  ASSUME NEW m, Map(m), NEW k
  PROVE  /\ Map(Remove(m, k)) /\ DOMAIN Remove(m, k) = DOMAIN m \ {k}
         /\ \A x \in DOMAIN m \ {k} : Remove(m, k)[x] = m[x]
BY Zenon DEF Remove, Map

\* Adding a time span to the statistics of a thread.
Stats(m) == Map(m) /\ \A r \in DOMAIN m : m[r] = [f \in Fn |-> m[r][f]]

Grown(m, n, t, f, x) ==
  /\ Stats(n) /\ DOMAIN n = DOMAIN m
  /\ \A r \in DOMAIN m, g \in Fn : \A s \in n[r][g] :
       s \in m[r][g] \/ (r = t /\ g = f /\ s = x)

\* Only that time span is new.
LEMMA AddFacts ==
  ASSUME NEW m, Stats(m), NEW t \in DOMAIN m, NEW f \in Fn, NEW x,
         NEW n, n = [m EXCEPT ![t][f] = @ \cup {x}]
  PROVE  Grown(m, n, t, f, x)
<1>1. /\ Map(n) /\ DOMAIN n = DOMAIN m /\ \A r \in DOMAIN m \ {t} : n[r] = m[r]
      /\ n[t] = [m[t] EXCEPT ![f] = @ \cup {x}]
  BY Zenon DEF Stats, Map
<1> DEFINE old == m[t]
           new == n[t]
<1>2. DOMAIN old = Fn /\ new = [old EXCEPT ![f] = @ \cup {x}]
  BY Zenon, <1>1 DEF Stats
<1> HIDE DEF old, new
<1>3. new = [g \in Fn |-> IF g = f THEN old[f] \cup {x} ELSE old[g]]
  BY ZenonT(40), <1>2
<1>4. \A g \in Fn : \A s \in new[g] : s \in old[g] \/ (g = f /\ s = x)
  BY Zenon, <1>3
<1>5. \A r \in DOMAIN m : n[r] = [g \in Fn |-> n[r][g]]
  <2>1. new = [g \in Fn |-> new[g]]
    BY Zenon, <1>3
  <2> QED
    BY Zenon, <1>1, <2>1 DEF new, Stats
<1>6. \A r \in DOMAIN m, g \in Fn : \A s \in n[r][g] :
        s \in m[r][g] \/ (r = t /\ g = f /\ s = x)
  BY Zenon, <1>1, <1>4 DEF old, new
<1> QED
  BY Zenon, <1>1, <1>5, <1>6 DEF Grown, Stats

\* Entering a function.
LEMMA PushFacts ==
  ASSUME NEW s \in Seq(Frame), NEW x \in Frame
  PROVE  /\ <<x>> \o s \in Seq(Frame) /\ DOMAIN (<<x>> \o s) = 1..(Len(s) + 1)
         /\ (<<x>> \o s)[1] = x /\ DOMAIN s = 1..Len(s) /\ Len(s) \in Nat
         /\ \A k \in 1..Len(s) : (<<x>> \o s)[k + 1] = s[k]
OBVIOUS

\* Leaving one.
LEMMA PopFacts ==
  ASSUME NEW s \in Seq(Frame), s # <<>>
  PROVE  /\ Tail(s) \in Seq(Frame) /\ DOMAIN Tail(s) = 1..(Len(s) - 1) /\ Len(s) \in Nat \ {0}
         /\ DOMAIN s = 1..Len(s) /\ Head(s) = s[1] /\ s[1] \in Frame
         /\ \A k \in 1..(Len(s) - 1) : Tail(s)[k] = s[k + 1]
OBVIOUS

\* What is on a stack.
LEMMA FrameAt ==
  ASSUME NEW s \in Seq(Frame), NEW k \in DOMAIN s
  PROVE  s[k] \in Frame /\ s[k].fn \in Fn /\ s[k].call \in Nat
<1>1. s[k] \in Frame
  OBVIOUS
<1> QED
  BY Zenon, <1>1 DEF Frame

\* The script attaches the entry of a function before its return.
LEMMA EntryFirst ==
  ASSUME attached \in 0..6, NEW f \in Fn, Attached(f, "return") PROVE Attached(f, "entry")
<1>1. PICK k \in 1..attached : Probes[k] = <<f, "return">>
  BY Zenon DEF Attached
<1>2. k \in {2, 4, 6} /\ k - 1 \in 1..attached
  BY <1>1 DEF Probes, Fn
<1>3. Probes[k - 1] = <<f, "entry">>
  BY <1>1, <1>2 DEF Probes, Fn
<1> QED
  BY Zenon, <1>2, <1>3 DEF Attached

\* No probe is attached when none is.
LEMMA NoneAttached == ASSUME attached = 0, NEW f, NEW e PROVE ~ Attached(f, e)
BY DEF Attached

-----------------------------------------------------------------------------
(***************************************************************************)
(* Time spans.                                                             *)
(***************************************************************************)

\* What the entry program does to the maps.
LEMMA EnterMaps ==
  ASSUME Kinds, NEW t \in Tids, NEW f \in Fn, Enter(t, f)
  PROVE  \/ UNCHANGED maps /\ (~ Attached(f, "entry") \/ ~ Tracked(t))
         \/ /\ Tracked(t) /\ Attached(f, "entry")
            /\ start' = [start EXCEPT ![f] = Update(start[f], t, calls')]
            /\ \/ stats' = stats /\ (f = "fault" => t \in DOMAIN stats)
               \/ stats' = Update(stats, t, NoStats) /\ t \notin DOMAIN stats
<1>1. CASE ~ Attached(f, "entry") \/ ~ Tracked(t)
  BY Zenon, <1>1 DEF Enter
<1>2. CASE Attached(f, "entry") /\ Tracked(t)
  <2>1. IF f = "fault" THEN FaultStart(t, calls') ELSE SpanStart(t, f, calls')
    BY Zenon, <1>2 DEF Enter
  <2> QED
    BY Zenon, <1>2, <2>1 DEF FaultStart, SpanStart
<1> QED
  BY Zenon, <1>1, <1>2

\* What the return program does to the maps.
LEMMA LeaveMaps ==
  ASSUME Kinds, NEW t \in Tids, Leave(t)
  PROVE  LET top == Head(stack[t])
             f == top.fn
         IN  \/ /\ UNCHANGED maps
                /\ \/ ~ top.hooked \/ ~ Tracked(t) \/ polling = "stopped"
                   \/ t \notin DOMAIN start[f] \/ t \notin DOMAIN stats
             \/ /\ top.hooked /\ Tracked(t) /\ polling # "stopped"
                /\ t \in DOMAIN start[f] /\ t \in DOMAIN stats
                /\ stats' = [stats EXCEPT ![t][f] = @ \cup {<<start[f][t], top.call>>}]
                /\ IF f = "fault"
                   THEN start' = [start EXCEPT !["fault"] = Remove(start["fault"], t)]
                   ELSE start' = start
<1> DEFINE top == Head(stack[t])
           f == top.fn
<1>1. CASE ~ top.hooked \/ ~ Tracked(t) \/ polling = "stopped"
  BY Zenon, <1>1 DEF Leave
<1>2. CASE ~ (~ top.hooked \/ ~ Tracked(t) \/ polling = "stopped")
  <2>1. IF f = "fault" THEN FaultEnd(t, top.call) ELSE SpanEnd(t, f, top.call)
    BY Zenon, <1>2 DEF Leave
  <2>2. CASE f = "fault"
    BY Zenon, <1>2, <2>1, <2>2 DEF FaultEnd
  <2>3. CASE f # "fault"
    BY Zenon, <1>2, <2>1, <2>3 DEF SpanEnd, maps
  <2> QED
    BY Zenon, <2>2, <2>3
<1> QED
  BY Zenon, <1>1, <1>2

\* What the call pushes.
LEMMA EnterStack ==
  ASSUME Kinds, NEW t \in Tids, NEW f \in Fn, Enter(t, f)
  PROVE  \E x \in Frame :
           /\ x.fn = f /\ x.call = calls' /\ (x.hooked => Attached(f, "return"))
           /\ Attached(f, "return") /\ ~ setup.misses => x.hooked
           /\ stack' \in [Tids -> Seq(Frame)]
           /\ stack'[t] = <<x>> \o stack[t] /\ \A r \in Tids \ {t} : stack'[r] = stack[r]
<1>1. PICK hooked \in IF Attached(f, "return")
                      THEN {TRUE} \cup (IF setup.misses THEN {FALSE} ELSE {}) ELSE {FALSE} :
        stack' = [stack EXCEPT ![t] = <<[fn |-> f, call |-> calls', hooked |-> hooked]>> \o @]
  BY Zenon DEF Enter
<1>2. /\ hooked \in BOOLEAN /\ (hooked => Attached(f, "return"))
      /\ Attached(f, "return") /\ ~ setup.misses => hooked
  <2>1. CASE Attached(f, "return") /\ setup.misses
    BY Zenon, <1>1, <2>1
  <2>2. CASE Attached(f, "return") /\ ~ setup.misses
    BY Zenon, <1>1, <2>2
  <2>3. CASE ~ Attached(f, "return")
    BY Zenon, <1>1, <2>3
  <2> QED
    BY Zenon, <2>1, <2>2, <2>3
<1> DEFINE x == [fn |-> f, call |-> calls', hooked |-> hooked]
<1>3. calls' \in Nat
  BY DEF Kinds, Enter
<1>4. x \in Frame /\ x.fn = f /\ x.call = calls' /\ x.hooked = hooked
  BY Zenon, <1>2, <1>3 DEF Frame
<1>5. stack' = [stack EXCEPT ![t] = <<x>> \o stack[t]] /\ stack \in [Tids -> Seq(Frame)]
  BY Zenon, <1>1 DEF Kinds
<1> HIDE DEF x
<1>6. /\ stack' \in [Tids -> Seq(Frame)]
      /\ stack'[t] = <<x>> \o stack[t] /\ \A r \in Tids \ {t} : stack'[r] = stack[r]
  BY <1>4, <1>5
<1> QED
  BY Zenon, <1>2, <1>4, <1>6

\* A thread in a function of the kernel goes into another one only.
LEMMA NestedEnter ==
  ASSUME Kinds, NEW t \in Tids, NEW f \in Fn, Enter(t, f), Nested(t)
  PROVE  Nested(t)'
<1>1. PICK x \in Frame : x.fn = f /\ stack'[t] = <<x>> \o stack[t]
  BY Zenon, EnterStack
<1>2. t \in alive /\ alive' = alive
  BY Zenon DEF Enter, MayCall
<1>3. stack[t] \in Seq(Frame)
  BY Zenon DEF Kinds
<1>4. ASSUME NEW l \in DOMAIN stack[t] PROVE Inside(stack[t][l].fn, f)
  <2>1. stack[t] # <<>> /\ 1 \in DOMAIN stack[t] /\ Head(stack[t]) = stack[t][1] /\ l \in Nat
        /\ (l = 1 \/ 1 < l)
    BY <1>3, <1>4
  <2>2. stack[t][1].fn \in Callers[f]
    BY Zenon, <2>1 DEF Enter, MayCall
  <2>3. Inside(stack[t][1].fn, f)
    BY <2>2 DEF Inside, Callers, Fn
  <2>4. CASE 1 < l
    <3>1. Inside(stack[t][l].fn, stack[t][1].fn)
      BY Zenon, <2>1, <2>4 DEF Nested
    <3> QED
      BY Zenon, <2>3, <3>1 DEF Inside
  <2> QED
    BY Zenon, <2>1, <2>3, <2>4
<1>5. ASSUME NEW k \in DOMAIN stack'[t], NEW l \in DOMAIN stack'[t], k < l
      PROVE  Inside(stack'[t][l].fn, stack'[t][k].fn)
  <2>1. l - 1 \in DOMAIN stack[t] /\ stack'[t][l] = stack[t][l - 1]
    <3>1. l - 1 \in 1..Len(stack[t])
      BY <1>1, <1>3, <1>5, PushFacts
    <3> QED
      BY <1>1, <1>3, <1>5, <3>1, PushFacts
  <2>2. CASE k = 1
    BY <1>1, <1>3, <1>4, <2>1, <2>2, PushFacts
  <2>3. CASE k # 1
    <3>1. k - 1 \in 1..Len(stack[t]) /\ k - 1 < l - 1
      BY <1>1, <1>3, <1>5, <2>3, PushFacts
    <3>2. k - 1 \in DOMAIN stack[t] /\ stack'[t][k] = stack[t][k - 1]
      BY <1>1, <1>3, <1>5, <3>1, PushFacts
    <3> QED
      BY Zenon, <2>1, <3>1, <3>2 DEF Nested
  <2> QED
    BY Zenon, <2>2, <2>3
<1> QED
  BY Zenon, <1>2, <1>5 DEF Nested

\* The start of the call that is entered is its own; those of the others stay.
LEMMA StartedEnter ==
  ASSUME SpanSteps, polling # "stopped", NEW t \in Tids, NEW f \in Fn, Enter(t, f)
  PROVE  \A r \in Tids : Started(r)'
<1>1. PICK x \in Frame :
        /\ x.fn = f /\ x.call = calls' /\ (x.hooked => Attached(f, "return"))
        /\ stack'[t] = <<x>> \o stack[t] /\ \A r \in Tids \ {t} : stack'[r] = stack[r]
  BY Zenon, EnterStack DEF SpanSteps
<1>2. \A r : Tracked(r)' <=> Tracked(r)
  BY Zenon DEF Enter, Tracked, CommLen, TargetLen
<1>3. /\ \A g \in Fn, r \in Tids :
           r # t \/ g # f => /\ r \in DOMAIN start'[g] => r \in DOMAIN start[g]
                             /\ r \in DOMAIN start[g] => start'[g][r] = start[g][r]
      /\ Tracked(t) /\ Attached(f, "entry") /\ t \in DOMAIN start'[f] => start'[f][t] = calls'
  <2>1. CASE UNCHANGED maps /\ (~ Attached(f, "entry") \/ ~ Tracked(t))
    BY Zenon, <2>1 DEF maps
  <2>2. CASE start' = [start EXCEPT ![f] = Update(start[f], t, calls')]
    <3>1. start'[f] = Update(start[f], t, calls') /\ \A g \in Fn \ {f} : start'[g] = start[g]
      BY Zenon, <2>2 DEF SpanSteps, Kinds
    <3>2. Map(start[f])
      BY Zenon DEF SpanSteps, Kinds
    <3>3. /\ DOMAIN start'[f] \subseteq DOMAIN start[f] \cup {t}
          /\ \A r \in DOMAIN start[f] : r # t => start'[f][r] = start[f][r]
          /\ t \in DOMAIN start'[f] => start'[f][t] = calls'
      BY <3>1, <3>2, UpdateFacts
    <3> QED
      BY <3>1, <3>3
  <2> QED
    BY Zenon, <2>1, <2>2, EnterMaps DEF SpanSteps
<1>4. ASSUME NEW r \in Tids, r # t PROVE Started(r)'
  <2>1. Started(r) /\ stack[r] \in Seq(Frame)
    BY Zenon DEF SpanSteps, Kinds
  <2> SUFFICES ASSUME Tracked(r), NEW k \in DOMAIN stack[r], stack[r][k].hooked,
                      r \in DOMAIN start'[stack[r][k].fn]
               PROVE  start'[stack[r][k].fn][r] = stack[r][k].call
    BY Zenon, <1>1, <1>2, <1>4 DEF Started
  <2>2. stack[r][k].fn \in Fn
    BY Zenon, <2>1, FrameAt
  <2>3. r \in DOMAIN start[stack[r][k].fn]
    BY Zenon, <1>3, <1>4, <2>2
  <2>4. start[stack[r][k].fn][r] = stack[r][k].call
    BY Zenon, <2>1, <2>3 DEF Started
  <2> QED
    BY Zenon, <1>3, <1>4, <2>2, <2>3, <2>4
<1>5. Started(t)'
  <2> SUFFICES ASSUME Tracked(t), NEW k \in DOMAIN stack'[t], stack'[t][k].hooked,
                      t \in DOMAIN start'[stack'[t][k].fn]
               PROVE  start'[stack'[t][k].fn][t] = stack'[t][k].call
    BY Zenon, <1>2 DEF Started
  <2>1. Started(t) /\ stack[t] \in Seq(Frame) /\ Nested(t)' /\ attached \in 0..6
    BY Zenon, NestedEnter DEF SpanSteps, Kinds
  <2>2. CASE k = 1
    <3>1. stack'[t][k] = x
      BY <1>1, <2>1, <2>2, PushFacts
    <3> QED
      BY Zenon, <1>1, <1>3, <2>1, <3>1, EntryFirst
  <2>3. CASE k # 1
    <3>1. k - 1 \in 1..Len(stack[t]) /\ 1 < k /\ 1 \in DOMAIN stack'[t]
      BY <1>1, <2>1, <2>3, PushFacts
    <3>2. k - 1 \in DOMAIN stack[t] /\ stack'[t][k] = stack[t][k - 1] /\ stack'[t][1] = x
      BY <1>1, <2>1, <3>1, PushFacts
    <3>3. Inside(stack'[t][k].fn, f)
      BY Zenon, <1>1, <2>1, <3>1, <3>2 DEF Nested
    <3>4. stack'[t][k].fn \in Fn \ {f}
      BY Zenon, <3>3 DEF Inside, Fn
    <3>5. t \in DOMAIN start[stack[t][k - 1].fn]
      BY Zenon, <1>3, <3>2, <3>4
    <3>6. start[stack[t][k - 1].fn][t] = stack[t][k - 1].call
      BY Zenon, <2>1, <3>2, <3>5 DEF Started
    <3> QED
      BY <1>3, <3>2, <3>4, <3>5, <3>6
  <2> QED
    BY Zenon, <2>2, <2>3
<1> QED
  BY Zenon, <1>4, <1>5

\* Entering a function.
LEMMA SpanEnter ==
  ASSUME SpanSteps, NEW t \in Tids, NEW f \in Fn, Enter(t, f) PROVE SpanSteps'
<1>1. Kinds /\ UNCHANGED <<setup, attached, alive, named, polling, truth>>
  BY Zenon DEF SpanSteps, Enter, report
<1>2. /\ stack' \in [Tids -> Seq(Frame)] /\ \A r \in Tids \ {t} : stack'[r] = stack[r]
  BY Zenon, <1>1, EnterStack
<1>3. /\ Map(stats') /\ DOMAIN stats \subseteq DOMAIN stats'
      /\ \A r \in DOMAIN stats : stats'[r] = stats[r]
      /\ \A r \in DOMAIN stats' \ DOMAIN stats : r = t /\ Tracked(t) /\ stats'[r] = NoStats
  <2>1. CASE stats' = stats
    BY Zenon, <1>1, <2>1 DEF Kinds
  <2>2. CASE stats' = Update(stats, t, NoStats) /\ t \notin DOMAIN stats /\ Tracked(t)
    BY <1>1, <2>2, UpdateFacts DEF Kinds
  <2> QED
    BY Zenon, <1>1, <2>1, <2>2, EnterMaps DEF maps
<1>4. start' = [g \in Fn |-> start'[g]] /\ \A g \in Fn : Map(start'[g])
  <2>1. CASE start' = start
    BY Zenon, <1>1, <2>1 DEF Kinds
  <2>2. CASE start' = [start EXCEPT ![f] = Update(start[f], t, calls')]
    <3>1. Map(Update(start[f], t, calls'))
      BY Zenon, <1>1, UpdateFacts DEF Kinds
    <3>2. /\ start' = [g \in Fn |-> start'[g]] /\ start'[f] = Update(start[f], t, calls')
          /\ \A g \in Fn \ {f} : start'[g] = start[g]
      BY Zenon, <1>1, <2>2 DEF Kinds
    <3> QED
      BY Zenon, <1>1, <3>1, <3>2 DEF Kinds
  <2> QED
    BY Zenon, <1>1, <2>1, <2>2, EnterMaps DEF maps
<1>5. Kinds'
  <2>1. calls' \in Nat
    BY <1>1 DEF Kinds, Enter
  <2>2. \A r \in DOMAIN stats' : stats'[r] = [g \in Fn |-> stats'[r][g]]
    BY Zenon, <1>1, <1>3 DEF Kinds, NoStats
  <2> QED
    BY Zenon, <1>1, <1>2, <1>3, <1>4, <2>1, <2>2 DEF Kinds
<1>6. ASSUME NEW r \in Tids PROVE Nested(r)'
  <2>1. CASE r = t
    BY Zenon, <1>1, <2>1, NestedEnter DEF SpanSteps
  <2>2. CASE r # t
    BY Zenon, <1>1, <1>2, <2>2 DEF SpanSteps, Nested
  <2> QED
    BY Zenon, <2>1, <2>2
<1>7. SpansMatch'
  <2> SUFFICES ASSUME NEW r \in DOMAIN stats', NEW g \in Fn, NEW s \in stats'[r][g]
               PROVE  s[1] = s[2] /\ (r \in named /\ polling # "stopped" => s[1] \in truth[r][g])
    BY Zenon, <1>1 DEF SpansMatch
  <2>1. r \in DOMAIN stats /\ s \in stats[r][g]
    BY Zenon, <1>3 DEF NoStats
  <2> QED
    BY Zenon, <2>1 DEF SpanSteps, SpansMatch
<1>8. ASSUME polling' # "stopped"
      PROVE  DOMAIN stats' \subseteq named' /\ \A r \in Tids : Started(r)'
  BY Zenon, <1>1, <1>3, <1>8, StartedEnter DEF SpanSteps, Tracked
<1> QED
  BY Zenon, <1>5, <1>6, <1>7, <1>8 DEF SpanSteps

\* Leaving a function: the span that is recorded starts and ends at the same call.
LEMMA SpanLeave ==
  ASSUME SpanSteps, NEW t \in Tids, Leave(t) PROVE SpanSteps'
<1> DEFINE top == Head(stack[t])
           f == top.fn
<1>1. /\ Kinds /\ UNCHANGED <<setup, attached, calls, alive, named, polling>>
      /\ t \in alive /\ stack[t] # <<>> /\ stack[t] \in Seq(Frame)
  BY Zenon DEF SpanSteps, Leave, report, Kinds
<1>2. /\ stack' \in [Tids -> Seq(Frame)] /\ stack'[t] = Tail(stack[t])
      /\ \A r \in Tids \ {t} : stack'[r] = stack[r]
  <2>1. stack' = [stack EXCEPT ![t] = Tail(stack[t])] /\ Tail(stack[t]) \in Seq(Frame)
    BY Zenon, <1>1, PopFacts DEF Leave
  <2> QED
    BY Zenon, <1>1, <2>1 DEF Kinds
<1>3. top = stack[t][1] /\ 1 \in DOMAIN stack[t] /\ f \in Fn
  <2>1. top = stack[t][1] /\ 1 \in DOMAIN stack[t]
    BY <1>1, PopFacts
  <2> QED
    BY Zenon, <1>1, <2>1, FrameAt
<1>4. \A k \in DOMAIN stack'[t] : k + 1 \in DOMAIN stack[t] /\ stack'[t][k] = stack[t][k + 1]
  BY <1>1, <1>2, PopFacts
<1> HIDE DEF top
<1>5. /\ truth' = [r \in Tids |-> truth'[r]]
      /\ \A r \in Tids : truth'[r] = [g \in Fn |-> truth'[r][g]]
      /\ \A r \in Tids, g \in Fn : truth[r][g] \subseteq truth'[r][g]
      /\ top.hooked /\ t \in named => top.call \in truth'[t][f]
  <2>1. CASE truth' = truth /\ ~ (top.hooked /\ t \in named)
    BY Zenon, <1>1, <2>1 DEF Kinds
  <2>2. CASE truth' = [truth EXCEPT ![t][f] = @ \cup {top.call}]
    BY Zenon, <1>1, <1>3, <2>2 DEF Kinds
  <2> QED
    BY Zenon, <2>1, <2>2 DEF Leave, top
<1>6. /\ start' = [g \in Fn |-> start'[g]] /\ \A g \in Fn : Map(start'[g])
      /\ \A g \in Fn : /\ DOMAIN start'[g] \subseteq DOMAIN start[g]
                       /\ \A r \in DOMAIN start'[g] : start'[g][r] = start[g][r]
  <2>1. CASE start' = start
    BY Zenon, <1>1, <2>1 DEF Kinds
  <2>2. CASE start' = [start EXCEPT !["fault"] = Remove(start["fault"], t)]
    <3>1. /\ start' = [g \in Fn |-> start'[g]] /\ start'["fault"] = Remove(start["fault"], t)
          /\ \A g \in Fn \ {"fault"} : start'[g] = start[g]
      BY Zenon, <1>1, <2>2 DEF Kinds, Fn
    <3>2. "fault" \in Fn
      BY Zenon DEF Fn
    <3>3. /\ Map(start'["fault"]) /\ DOMAIN start'["fault"] \subseteq DOMAIN start["fault"]
          /\ \A r \in DOMAIN start'["fault"] : start'["fault"][r] = start["fault"][r]
      <4>1. Map(start["fault"])
        BY Zenon, <1>1, <3>2 DEF Kinds
      <4> DEFINE m == start["fault"]
      <4>2. Map(m) /\ start'["fault"] = Remove(m, t)
        BY Zenon, <3>1, <4>1
      <4> HIDE DEF m
      <4>3. /\ Map(Remove(m, t)) /\ DOMAIN Remove(m, t) = DOMAIN m \ {t}
            /\ \A r \in DOMAIN m \ {t} : Remove(m, t)[r] = m[r]
        BY Zenon, <4>2, RemoveFacts
      <4> QED
        BY Zenon, <4>2, <4>3 DEF m
    <3>4. \A g \in Fn \ {"fault"} : Map(start'[g])
      BY Zenon, <1>1, <3>1 DEF Kinds
    <3> QED
      BY Zenon, <3>1, <3>3, <3>4
  <2> QED
    BY Zenon, <1>1, <2>1, <2>2, LeaveMaps DEF maps
<1>7. /\ Map(stats') /\ DOMAIN stats' = DOMAIN stats
      /\ \A r \in DOMAIN stats : stats'[r] = [g \in Fn |-> stats'[r][g]]
      /\ \A r \in DOMAIN stats, g \in Fn : \A s \in stats'[r][g] :
           \/ s \in stats[r][g]
           \/ /\ r = t /\ g = f /\ s = <<start[f][t], top.call>> /\ top.hooked /\ Tracked(t)
              /\ polling # "stopped" /\ t \in DOMAIN start[f]
  <2>1. CASE stats' = stats
    BY Zenon, <1>1, <2>1 DEF Kinds
  <2>2. CASE /\ top.hooked /\ Tracked(t) /\ polling # "stopped"
             /\ t \in DOMAIN start[f] /\ t \in DOMAIN stats
             /\ stats' = [stats EXCEPT ![t][f] = @ \cup {<<start[f][t], top.call>>}]
    <3>1. Stats(stats)
      BY Zenon, <1>1 DEF Kinds, Stats
    <3>2. Grown(stats, stats', t, f, <<start[f][t], top.call>>)
      BY Zenon, <1>3, <2>2, <3>1, AddFacts
    <3> QED
      BY Zenon, <2>2, <3>2 DEF Grown, Stats
  <2> QED
    BY Zenon, <1>1, <2>1, <2>2, LeaveMaps DEF maps, top
<1>8. Kinds'
  BY Zenon, <1>1, <1>2, <1>5, <1>6, <1>7 DEF Kinds
<1>9. ASSUME NEW r \in Tids PROVE Nested(r)'
  <2>1. Nested(r)
    BY Zenon DEF SpanSteps
  <2>2. CASE r = t
    <3>1. ASSUME NEW k \in DOMAIN stack'[t], NEW l \in DOMAIN stack'[t], k < l
          PROVE  Inside(stack'[t][l].fn, stack'[t][k].fn)
      <4>1. k + 1 < l + 1
        BY <1>1, <1>2, <3>1, PopFacts
      <4> QED
        BY Zenon, <1>4, <2>1, <2>2, <4>1 DEF Nested
    <3> QED
      BY Zenon, <1>1, <2>2, <3>1 DEF Nested
  <2>3. CASE r # t
    BY Zenon, <1>1, <1>2, <2>1, <2>3 DEF Nested
  <2> QED
    BY Zenon, <2>2, <2>3
<1>10. \A r : Tracked(r)' <=> Tracked(r)
  BY Zenon, <1>1 DEF Tracked, CommLen, TargetLen
<1>11. SpansMatch'
  <2> SUFFICES ASSUME NEW r \in DOMAIN stats', NEW g \in Fn, NEW s \in stats'[r][g]
               PROVE  s[1] = s[2] /\ (r \in named /\ polling # "stopped" => s[1] \in truth'[r][g])
    BY Zenon, <1>1 DEF SpansMatch
  <2>1. CASE s \in stats[r][g]
    <3>1. s[1] = s[2] /\ (r \in named /\ polling # "stopped" => s[1] \in truth[r][g])
      BY Zenon, <1>7, <2>1 DEF SpanSteps, SpansMatch
    <3> QED
      BY Zenon, <1>1, <1>5, <3>1 DEF Kinds
  <2>2. CASE /\ r = t /\ g = f /\ s = <<start[f][t], top.call>> /\ top.hooked /\ Tracked(t)
             /\ polling # "stopped" /\ t \in DOMAIN start[f]
    <3>1. Started(t)
      BY Zenon, <2>2 DEF SpanSteps
    <3>2. start[f][t] = top.call
      BY Zenon, <1>3, <2>2, <3>1 DEF Started
    <3>3. top.call \in truth'[t][f]
      BY Zenon, <1>5, <2>2 DEF Tracked
    <3> QED
      BY Zenon, <2>2, <3>2, <3>3
  <2> QED
    BY Zenon, <1>7, <2>1, <2>2
<1>12. ASSUME polling' # "stopped"
       PROVE  DOMAIN stats' \subseteq named' /\ \A r \in Tids : Started(r)'
  <2>1. DOMAIN stats \subseteq named
    BY Zenon, <1>1, <1>12 DEF SpanSteps
  <2>2. ASSUME NEW r \in Tids, Tracked(r), NEW k \in DOMAIN stack'[r], stack'[r][k].hooked,
               r \in DOMAIN start'[stack'[r][k].fn]
        PROVE  start'[stack'[r][k].fn][r] = stack'[r][k].call
    <3>1. PICK l \in DOMAIN stack[r] : stack'[r][k] = stack[r][l]
      BY Zenon, <1>2, <1>4, <2>2
    <3>2. stack'[r][k].fn \in Fn /\ Started(r)
      <4>1. stack[r] \in Seq(Frame)
        BY Zenon, <1>1 DEF Kinds
      <4> QED
        BY Zenon, <1>1, <1>12, <3>1, <4>1, FrameAt DEF SpanSteps
    <3>3. start[stack[r][l].fn][r] = stack[r][l].call
      BY Zenon, <1>6, <2>2, <3>1, <3>2 DEF Started
    <3> QED
      BY <1>6, <2>2, <3>1, <3>2, <3>3
  <2> QED
    BY Zenon, <1>1, <1>7, <1>10, <2>1, <2>2 DEF Started
<1> QED
  BY Zenon, <1>8, <1>9, <1>11, <1>12 DEF SpanSteps

\* The exit of a thread.
LEMMA SpanExit ==
  ASSUME SpanSteps, NEW t \in Tids, Exit(t) PROVE SpanSteps'
<1>1. /\ Kinds /\ UNCHANGED <<setup, attached, calls, stack, start, polling>>
      /\ alive' = alive \ {t} /\ named' = named \ {t} /\ stack[t] = <<>>
  BY Zenon DEF SpanSteps, Exit, ThreadExit, maps, report
<1>2. /\ truth' = [r \in Tids |-> truth'[r]] /\ truth'[t] = NoStats
      /\ \A r \in Tids \ {t} : truth'[r] = truth[r]
  BY Zenon, <1>1 DEF Exit, Kinds
<1>3. /\ Stats(stats') /\ DOMAIN stats' \subseteq DOMAIN stats
      /\ \A r \in DOMAIN stats' : stats'[r] = stats[r]
      /\ polling # "stopped" => t \notin DOMAIN stats'
  <2>1. Stats(stats)
    BY Zenon, <1>1 DEF Kinds, Stats
  <2>2. CASE polling = "stopped" /\ stats' = stats
    BY Zenon, <2>1, <2>2
  <2>3. CASE stats' = Remove(stats, t)
    <3>1. /\ Map(Remove(stats, t)) /\ DOMAIN Remove(stats, t) = DOMAIN stats \ {t}
          /\ \A r \in DOMAIN stats \ {t} : Remove(stats, t)[r] = stats[r]
      BY Zenon, <2>1, RemoveFacts DEF Stats
    <3> QED
      BY Zenon, <2>1, <2>3, <3>1 DEF Stats
  <2> QED
    BY Zenon, <2>2, <2>3 DEF Exit, ThreadExit, maps
<1>4. Kinds'
  <2>1. \A r \in Tids : truth'[r] = [g \in Fn |-> truth'[r][g]]
    BY Zenon, <1>1, <1>2 DEF Kinds, NoStats
  <2>2. alive' \subseteq Tids /\ named' \subseteq alive'
    BY Zenon, <1>1 DEF Kinds
  <2> QED
    BY Zenon, <1>1, <1>2, <1>3, <2>1, <2>2 DEF Kinds, Stats
<1>5. ASSUME NEW r \in Tids PROVE Nested(r)'
  BY Zenon, <1>1 DEF SpanSteps, Nested
<1>6. SpansMatch'
  <2> SUFFICES ASSUME NEW r \in DOMAIN stats', NEW g \in Fn, NEW s \in stats'[r][g]
               PROVE  s[1] = s[2] /\ (r \in named' /\ polling # "stopped" => s[1] \in truth'[r][g])
    BY Zenon, <1>1 DEF SpansMatch
  <2>1. s[1] = s[2] /\ (r \in named /\ polling # "stopped" => s[1] \in truth[r][g])
    BY Zenon, <1>3 DEF SpanSteps, SpansMatch
  <2>2. ASSUME r \in named' PROVE r \in named /\ truth'[r] = truth[r]
    BY Zenon, <1>1, <1>2, <2>2 DEF Kinds
  <2> QED
    BY Zenon, <2>1, <2>2
<1>7. ASSUME polling' # "stopped"
      PROVE  DOMAIN stats' \subseteq named' /\ \A r \in Tids : Started(r)'
  <2>1. DOMAIN stats \subseteq named /\ \A r \in Tids : Started(r)
    BY Zenon, <1>1, <1>7 DEF SpanSteps
  <2>2. DOMAIN stats' \subseteq named'
    BY Zenon, <1>1, <1>3, <1>7, <2>1
  <2>3. \A r : Tracked(r)' => Tracked(r)
    BY Zenon, <1>1 DEF Tracked, CommLen, TargetLen
  <2> QED
    BY Zenon, <1>1, <2>1, <2>2, <2>3 DEF Started
<1> QED
  BY Zenon, <1>4, <1>5, <1>6, <1>7 DEF SpanSteps

\* A thread takes the name of the target only when it is in none of the functions
\* and has no statistics.
LEMMA SpanName ==
  ASSUME SpanSteps, NEW t \in Tids, Fork(t) \/ Exec(t) PROVE SpanSteps'
<1>1. /\ Kinds /\ UNCHANGED <<setup, attached, calls, stack, maps, report, truth>>
      /\ t \notin named /\ stack[t] = <<>>
      /\ alive' = alive \cup {t} /\ named \subseteq named' /\ named' \subseteq named \cup {t}
  <2>1. Kinds /\ UNCHANGED <<setup, attached, calls, stack, maps, report, truth>>
    BY Zenon DEF SpanSteps, Fork, Exec
  <2>2. t \notin named /\ stack[t] = <<>>
    BY Zenon, <2>1 DEF SpanSteps, Kinds, Nested, Fork, Exec
  <2>3. alive' = alive \cup {t} /\ named \subseteq named' /\ named' \subseteq named \cup {t}
    BY Zenon DEF Fork, Exec
  <2> QED
    BY Zenon, <2>1, <2>2, <2>3
<1>2. UNCHANGED <<start, stats, polling>>
  BY Zenon, <1>1 DEF maps, report
<1>3. Kinds'
  <2>1. alive' \subseteq Tids /\ named' \subseteq alive'
    BY Zenon, <1>1 DEF Kinds
  <2> QED
    BY Zenon, <1>1, <1>2, <2>1 DEF Kinds
<1>4. ASSUME NEW r \in Tids PROVE Nested(r)'
  BY Zenon, <1>1 DEF SpanSteps, Nested
<1>5. polling # "stopped" => DOMAIN stats \subseteq named /\ \A r \in Tids : Started(r)
  BY Zenon DEF SpanSteps
<1>6. SpansMatch'
  <2> SUFFICES ASSUME NEW r \in DOMAIN stats, NEW g \in Fn, NEW s \in stats[r][g]
               PROVE  s[1] = s[2] /\ (r \in named' /\ polling # "stopped" => s[1] \in truth[r][g])
    BY Zenon, <1>1, <1>2 DEF SpansMatch
  <2>1. s[1] = s[2] /\ (r \in named /\ polling # "stopped" => s[1] \in truth[r][g])
    BY Zenon DEF SpanSteps, SpansMatch
  <2> QED
    BY Zenon, <1>5, <2>1
<1>7. ASSUME polling' # "stopped", NEW r \in Tids PROVE Started(r)'
  <2>1. CASE r = t
    <3>1. DOMAIN stack'[t] = {}
      BY <1>1
    <3> QED
      BY Zenon, <2>1, <3>1 DEF Started
  <2>2. CASE r # t
    <3>1. Started(r) /\ (Tracked(r)' => Tracked(r))
      BY Zenon, <1>1, <1>2, <1>5, <1>7, <2>2 DEF Tracked, CommLen, TargetLen
    <3> QED
      BY Zenon, <1>1, <1>2, <3>1 DEF Started
  <2> QED
    BY Zenon, <2>1, <2>2
<1>8. polling' # "stopped" => DOMAIN stats' \subseteq named'
  BY Zenon, <1>1, <1>2, <1>5
<1> QED
  BY Zenon, <1>3, <1>4, <1>6, <1>7, <1>8 DEF SpanSteps

\* The script, whose end only weakens what is claimed.
LEMMA SpanScript ==
  ASSUME SpanSteps, Attach \/ OpenBuffer \/ HandleEvent \/ Stop PROVE SpanSteps'
<1>1. /\ Kinds /\ UNCHANGED <<setup, calls, alive, named, stack, start, stats, truth>>
      /\ polling' # "stopped" => polling # "stopped"
  BY Zenon DEF SpanSteps, Attach, OpenBuffer, HandleEvent, Stop, maps, report
<1>2. /\ attached' \in 0..6 /\ polling' \in {"no", "yes", "stopped"}
      /\ polling' = "yes" => attached' = 6
      /\ polling' = "stopped" => attached' = 0
  BY <1>1 DEF Kinds, Attach, OpenBuffer, HandleEvent, Stop, report, Probes
<1>3. Kinds'
  BY Zenon, <1>1, <1>2 DEF Kinds
<1>4. ASSUME NEW r \in Tids PROVE Nested(r)'
  BY Zenon, <1>1 DEF SpanSteps, Nested
<1>5. SpansMatch'
  BY Zenon, <1>1 DEF SpanSteps, SpansMatch
<1>6. ASSUME polling' # "stopped"
      PROVE  DOMAIN stats' \subseteq named' /\ \A r \in Tids : Started(r)'
  BY Zenon, <1>1, <1>6 DEF SpanSteps, Started, Tracked, CommLen, TargetLen
<1> QED
  BY Zenon, <1>3, <1>4, <1>5, <1>6 DEF SpanSteps

\* Before the first fault there are no time spans.
LEMMA SpanInit == Init => SpanSteps
<1> SUFFICES ASSUME Init PROVE SpanSteps
  BY Zenon
<1>1. /\ stack = [t \in Tids |-> <<>>] /\ start = [f \in Fn |-> Empty] /\ stats = Empty
      /\ truth = [t \in Tids |-> NoStats] /\ polling = "no" /\ alive = {} /\ named = {}
      /\ setup \in Setups /\ attached = 0 /\ calls = 0
  BY Zenon DEF Init
<1>2. Map(Empty) /\ DOMAIN Empty = {}
  BY Zenon DEF Map, Empty
<1>3. stack \in [Tids -> Seq(Frame)] /\ \A t \in Tids : stack[t] = <<>> /\ DOMAIN stack[t] = {}
  BY <1>1
<1>4. \A t \in Tids : Nested(t) /\ Started(t)
  BY Zenon, <1>3 DEF Nested, Started
<1>5. Kinds
  <2>1. attached \in 0..6 /\ calls \in Nat /\ alive \subseteq Tids /\ named \subseteq alive
    BY <1>1
  <2>2. /\ truth = [t \in Tids |-> truth[t]]
        /\ \A t \in Tids : truth[t] = [f \in Fn |-> truth[t][f]]
    BY Zenon, <1>1 DEF NoStats
  <2>3. start = [f \in Fn |-> start[f]] /\ \A f \in Fn : Map(start[f])
    BY Zenon, <1>1, <1>2
  <2>4. polling \in {"no", "yes", "stopped"} /\ polling # "yes" /\ polling # "stopped"
    BY Zenon, <1>1
  <2> QED
    BY Zenon, <1>1, <1>2, <1>3, <2>1, <2>2, <2>3, <2>4 DEF Kinds
<1> QED
  BY Zenon, <1>1, <1>2, <1>4, <1>5 DEF SpanSteps, SpansMatch

\* Every step keeps what the tracker knows of each thread.
LEMMA SpanNext == SpanSteps /\ [Next]_vars => SpanSteps'
<1> SUFFICES ASSUME SpanSteps, [Next]_vars PROVE SpanSteps'
  BY Zenon
<1>1. CASE UNCHANGED vars
  <2>1. /\ setup' = setup /\ attached' = attached /\ calls' = calls /\ alive' = alive /\ named' = named
        /\ stack' = stack /\ start' = start /\ stats' = stats /\ truth' = truth /\ polling' = polling
    BY Zenon, <1>1 DEF vars, maps, report
  <2>2. Kinds'
    BY Zenon, <2>1 DEF SpanSteps, Kinds
  <2>3. SpansMatch' /\ (polling' # "stopped" => DOMAIN stats' \subseteq named')
    BY Zenon, <2>1 DEF SpanSteps, SpansMatch
  <2>4. ASSUME NEW t \in Tids PROVE Nested(t)'
    BY Zenon, <2>1 DEF SpanSteps, Nested
  <2>5. ASSUME NEW t \in Tids, polling # "stopped" PROVE Started(t)'
    <3>1. Started(t)
      BY Zenon, <2>5 DEF SpanSteps
    <3>2. Tracked(t)' = Tracked(t)
      BY Zenon, <2>1 DEF Tracked, CommLen, TargetLen
    <3> QED
      BY Zenon, <2>1, <3>1, <3>2 DEF Started
  <2> QED
    BY Zenon, <2>1, <2>2, <2>3, <2>4, <2>5 DEF SpanSteps
<1>2. ASSUME NEW t \in Tids,
             Fork(t) \/ Exec(t) \/ (\E f \in Fn : Enter(t, f)) \/ Leave(t) \/ Exit(t)
      PROVE  SpanSteps'
  BY Zenon, <1>2, SpanName, SpanEnter, SpanLeave, SpanExit
<1> QED
  BY Zenon, <1>1, <1>2, SpanScript DEF Next

\* mm_fault_tracker.py never records a time span that starts at one call and ends
\* at another, or at a call of another thread: whatever the number of threads, the
\* size of the maps and the returns that are missed.
THEOREM SpansCorrect == Spec => []SpansMatch
<1>1. SpanSteps => SpansMatch
  BY Zenon DEF SpanSteps
<1> QED
  BY SpanInit, SpanNext, <1>1, PTL DEF Spec

-----------------------------------------------------------------------------
(***************************************************************************)
(* Faults.                                                                 *)
(***************************************************************************)

\* The maps hold the threads the host can have, and the script finds the target.
Suitable == MaxLive <= MapSize /\ \A s \in Setups : s.name # 16

\* The script is there before the target, and no return is missed.
Orderly == polling # "stopped" /\ ~setup.early /\ ~setup.misses

InFault(t) == \E k \in DOMAIN stack[t] : stack[t][k].fn = "fault"

\* Every call of the target is noticed, and a fault it is in has its entries.
Recorded(t) ==
  /\ \A k \in DOMAIN stack[t] : stack[t][k].hooked
  /\ InFault(t) => t \in DOMAIN start["fault"] /\ t \in DOMAIN stats

Faults(t) == IF t \in DOMAIN stats THEN stats[t]["fault"] ELSE {}

Living == IsFiniteSet(alive) /\ Cardinality(alive) <= MaxLive
Fresh == \A t \in Tids \ named : truth[t] = NoStats

\* A start of a fault is there for the time of the fault only: it cannot be left
\* to another thread with the same id.
Followed ==
  /\ named # {} => polling = "yes"
  /\ \A t \in named : Recorded(t) /\ Faults(t) = {<<c, c>> : c \in truth[t]["fault"]}
  /\ \A t \in DOMAIN start["fault"] : t \in named /\ InFault(t)

ExactSteps == Living /\ Fresh /\ (Orderly => Followed)

\* A thread of the target is tracked.
LEMMA TargetTracked ==
  ASSUME Suitable, setup \in Setups PROVE \A t : Tracked(t) <=> t \in named
<1>1. setup.name \in Nat /\ setup.name # 16
  BY Zenon, FaultTrackerAssumption DEF Suitable
<1> QED
  BY <1>1 DEF Tracked, CommLen, TargetLen

\* There is room for a thread of the target in a map with only such threads.
LEMMA RoomFor ==
  ASSUME Suitable, Living, named \subseteq alive, NEW t \in named, NEW m,
         DOMAIN m \subseteq named, NEW v
  PROVE  t \in DOMAIN Update(m, t, v)
<1>1. CASE t \in DOMAIN m
  BY Zenon, <1>1 DEF Update, Put
<1>2. CASE t \notin DOMAIN m
  <2> DEFINE rest == alive \ {t}
  <2>1. IsFiniteSet(rest) /\ Cardinality(rest) = Cardinality(alive) - 1
    BY Zenon, FS_RemoveElement DEF Living
  <2>2. DOMAIN m \in SUBSET rest
    BY Zenon, <1>2
  <2> HIDE DEF rest
  <2>3. Cardinality(DOMAIN m) <= Cardinality(rest) /\ IsFiniteSet(DOMAIN m)
    BY Zenon, <2>1, <2>2, FS_Subset
  <2>4. Cardinality(alive) \in Nat /\ Cardinality(DOMAIN m) \in Nat
    BY Zenon, <2>3, FS_CardinalityType DEF Living
  <2>5. Cardinality(DOMAIN m) < MapSize
    BY <2>1, <2>3, <2>4, FaultTrackerAssumption DEF Suitable, Living
  <2> QED
    BY Zenon, <2>5 DEF Update, Put
<1> QED
  BY Zenon, <1>1, <1>2

\* Entering a function.
LEMMA FollowedEnter ==
  ASSUME Suitable, SpanSteps, Living, Orderly, Followed,
         NEW t \in Tids, NEW f \in Fn, Enter(t, f)
  PROVE  Followed'
<1>1. /\ UNCHANGED <<setup, attached, alive, named, polling, truth>>
      /\ Kinds /\ DOMAIN stats \subseteq named
  BY Zenon DEF SpanSteps, Orderly, Enter, report
<1>2. PICK x \in Frame :
        /\ x.fn = f /\ x.call = calls' /\ (x.hooked => Attached(f, "return"))
        /\ Attached(f, "return") /\ ~ setup.misses => x.hooked
        /\ stack' \in [Tids -> Seq(Frame)]
        /\ stack'[t] = <<x>> \o stack[t] /\ \A r \in Tids \ {t} : stack'[r] = stack[r]
  <2> HIDE DEF Frame
  <2> QED
    BY Zenon, <1>1, EnterStack
<1>3. stack[t] \in Seq(Frame)
  BY Zenon, <1>1 DEF Kinds
<1>4. /\ 1 \in DOMAIN stack'[t] /\ stack'[t][1] = x
      /\ \A k \in DOMAIN stack[t] : k + 1 \in DOMAIN stack'[t] /\ stack'[t][k + 1] = stack[t][k]
      /\ \A k \in DOMAIN stack'[t] :
           k = 1 \/ (k - 1 \in DOMAIN stack[t] /\ stack'[t][k] = stack[t][k - 1])
  <2>1. DOMAIN stack[t] = 1..Len(stack[t]) /\ Len(stack[t]) \in Nat
    BY <1>3
  <2>2. /\ DOMAIN stack'[t] = 1..(Len(stack[t]) + 1) /\ stack'[t][1] = x
        /\ \A k \in 2..(Len(stack[t]) + 1) : stack'[t][k] = stack[t][k - 1]
    BY <1>2, <1>3, PushFacts
  <2>3. ASSUME NEW k \in DOMAIN stack[t]
        PROVE  k + 1 \in DOMAIN stack'[t] /\ stack'[t][k + 1] = stack[t][k]
    <3>1. k \in Nat /\ k + 1 \in 2..(Len(stack[t]) + 1) /\ (k + 1) - 1 = k
      BY <2>1, <2>3
    <3> QED
      BY <2>1, <2>2, <3>1
  <2>4. ASSUME NEW k \in DOMAIN stack'[t], k # 1
        PROVE  k - 1 \in DOMAIN stack[t] /\ stack'[t][k] = stack[t][k - 1]
    <3>1. k \in 2..(Len(stack[t]) + 1) /\ k - 1 \in 1..Len(stack[t])
      BY <2>1, <2>2, <2>4
    <3> QED
      BY Zenon, <2>1, <2>2, <3>1
  <2>5. 1 \in DOMAIN stack'[t]
    BY <2>1, <2>2
  <2> QED
    BY Zenon, <2>2, <2>3, <2>4, <2>5
<1>5. \A r \in Tids : (InFault(r)' <=> InFault(r) \/ (r = t /\ f = "fault"))
  <2>1. InFault(t)' <=> InFault(t) \/ f = "fault"
    <3>1. ASSUME InFault(t) PROVE InFault(t)'
      <4>1. PICK k \in DOMAIN stack[t] : stack[t][k].fn = "fault"
        BY Zenon, <3>1 DEF InFault
      <4>2. k + 1 \in DOMAIN stack'[t] /\ stack'[t][k + 1].fn = "fault"
        BY Zenon, <1>4, <4>1
      <4> QED
        BY Zenon, <4>2 DEF InFault
    <3>2. ASSUME InFault(t)', f # "fault" PROVE InFault(t)
      <4>1. PICK k \in DOMAIN stack'[t] : stack'[t][k].fn = "fault"
        BY Zenon, <3>2 DEF InFault
      <4>2. k - 1 \in DOMAIN stack[t] /\ stack[t][k - 1].fn = "fault"
        BY Zenon, <1>2, <1>4, <3>2, <4>1
      <4> QED
        BY Zenon, <4>2 DEF InFault
    <3>3. f = "fault" => InFault(t)'
      BY Zenon, <1>2, <1>4 DEF InFault
    <3> QED
      BY Zenon, <3>1, <3>2, <3>3
  <2> QED
    BY Zenon, <1>2, <2>1 DEF InFault
<1>6. \A r \in named : r \in Tids
  BY Zenon, <1>1 DEF Kinds
<1>7. CASE t \notin named
  <2>1. UNCHANGED maps
    BY Zenon, <1>1, <1>7, EnterMaps DEF Tracked
  <2>2. \A r \in named : r # t /\ stack'[r] = stack[r]
    BY Zenon, <1>2, <1>6, <1>7
  <2> QED
    BY Zenon, <1>1, <1>5, <1>6, <2>1, <2>2 DEF Followed, Recorded, Faults, maps
<1>8. CASE t \in named
  <2>1. attached = 6 /\ polling = "yes"
    BY Zenon, <1>1, <1>8 DEF Followed, Kinds
  <2>2. Attached(f, "entry") /\ Attached(f, "return")
    <3>1. Attached(f, "return")
      <4>1. f = "fault" => Probes[2] = <<f, "return">>
        BY Zenon DEF Probes
      <4>2. f = "zero" => Probes[4] = <<f, "return">>
        BY Zenon DEF Probes
      <4>3. f = "alloc" => Probes[6] = <<f, "return">>
        BY Zenon DEF Probes
      <4> QED
        BY <2>1, <4>1, <4>2, <4>3 DEF Attached, Fn
    <3> QED
      BY Zenon, <1>1, <3>1, EntryFirst DEF Kinds
  <2>3. x.hooked
    BY Zenon, <1>2, <2>2 DEF Orderly
  <2>4. /\ start' = [start EXCEPT ![f] = Update(start[f], t, calls')]
        /\ \/ stats' = stats /\ (f = "fault" => t \in DOMAIN stats)
           \/ stats' = Update(stats, t, NoStats) /\ t \notin DOMAIN stats
    BY Zenon, <1>1, <1>8, <2>2, EnterMaps, TargetTracked DEF Kinds
  <2>5. /\ Map(stats') /\ DOMAIN stats \subseteq DOMAIN stats'
        /\ \A r \in DOMAIN stats : stats'[r] = stats[r]
        /\ \A r \in DOMAIN stats' \ DOMAIN stats : r = t /\ stats'[r] = NoStats
        /\ f = "fault" => t \in DOMAIN stats'
    <3>1. CASE stats' = stats /\ (f = "fault" => t \in DOMAIN stats)
      BY Zenon, <1>1, <3>1 DEF Kinds
    <3>2. CASE stats' = Update(stats, t, NoStats) /\ t \notin DOMAIN stats
      <4>1. t \in DOMAIN Update(stats, t, NoStats)
        BY Zenon, <1>1, <1>8, RoomFor DEF Kinds
      <4> QED
        BY <1>1, <3>2, <4>1, UpdateFacts DEF Kinds
    <3> QED
      BY Zenon, <2>4, <3>1, <3>2
  <2>6. /\ DOMAIN start["fault"] \subseteq DOMAIN start'["fault"]
        /\ \A r \in DOMAIN start'["fault"] : r \in DOMAIN start["fault"] \/ (r = t /\ f = "fault")
        /\ f = "fault" => t \in DOMAIN start'["fault"]
    <3>1. CASE f = "fault"
      <4> DEFINE m == start["fault"]
      <4>1. start'["fault"] = Update(m, t, calls') /\ Map(m) /\ DOMAIN m \subseteq named
        BY Zenon, <1>1, <2>4, <3>1 DEF Kinds, Followed, Fn
      <4> HIDE DEF m
      <4>2. t \in DOMAIN Update(m, t, calls')
        BY Zenon, <1>1, <1>8, <4>1, RoomFor DEF Kinds
      <4>3. /\ DOMAIN m \subseteq DOMAIN Update(m, t, calls')
            /\ DOMAIN Update(m, t, calls') \subseteq DOMAIN m \cup {t}
        BY Zenon, <4>1, UpdateFacts
      <4> QED
        BY Zenon, <3>1, <4>1, <4>2, <4>3 DEF m
    <3>2. CASE f # "fault"
      <4>1. start'["fault"] = start["fault"]
        BY Zenon, <1>1, <2>4, <3>2 DEF Kinds, Fn
      <4> QED
        BY Zenon, <3>2, <4>1
    <3> QED
      BY Zenon, <3>1, <3>2
  <2>7. ASSUME NEW r \in named PROVE Recorded(r)'
    <3>1. Recorded(r)
      BY Zenon DEF Followed
    <3>2. \A k \in DOMAIN stack'[r] : stack'[r][k].hooked
      <4>1. CASE r = t
        BY Zenon, <1>4, <2>3, <3>1, <4>1 DEF Recorded
      <4>2. CASE r # t
        BY Zenon, <1>2, <1>6, <3>1, <4>2 DEF Recorded
      <4> QED
        BY Zenon, <4>1, <4>2
    <3>3. InFault(r)' => r \in DOMAIN start'["fault"] /\ r \in DOMAIN stats'
      BY Zenon, <1>5, <1>6, <2>5, <2>6, <3>1 DEF Recorded
    <3> QED
      BY Zenon, <3>2, <3>3 DEF Recorded
  <2>8. ASSUME NEW r \in named PROVE Faults(r)' = {<<c, c>> : c \in truth'[r]["fault"]}
    <3>1. Faults(r)' = Faults(r)
      <4>1. CASE r \in DOMAIN stats
        BY Zenon, <2>5, <4>1 DEF Faults
      <4>2. CASE r \notin DOMAIN stats /\ r \in DOMAIN stats'
        <5>1. stats'[r] = NoStats
          BY Zenon, <2>5, <4>2
        <5>2. NoStats["fault"] = {}
          BY Zenon DEF NoStats, Fn
        <5> QED
          BY Zenon, <4>2, <5>1, <5>2 DEF Faults
      <4>3. CASE r \notin DOMAIN stats /\ r \notin DOMAIN stats'
        BY Zenon, <4>3 DEF Faults
      <4> QED
        BY Zenon, <4>1, <4>2, <4>3
    <3>2. Faults(r) = {<<c, c>> : c \in truth[r]["fault"]}
      BY Zenon DEF Followed
    <3> QED
      BY Zenon, <1>1, <3>1, <3>2
  <2>9. ASSUME NEW r \in DOMAIN start'["fault"] PROVE r \in named /\ InFault(r)'
    <3>1. CASE r \in DOMAIN start["fault"]
      BY Zenon, <1>5, <1>6, <3>1 DEF Followed
    <3>2. CASE r = t /\ f = "fault"
      BY Zenon, <1>5, <1>8, <3>2
    <3> QED
      BY Zenon, <2>6, <3>1, <3>2
  <2> QED
    BY Zenon, <1>1, <2>1, <2>7, <2>8, <2>9 DEF Followed
<1> QED
  BY Zenon, <1>7, <1>8

\* Leaving one.  The start of a fault belongs to that fault, which is the only one
\* the thread is in.
LEMMA FollowedLeave ==
  ASSUME Suitable, SpanSteps, Orderly, Followed, NEW t \in Tids, Leave(t)
  PROVE  Followed'
<1> DEFINE top == Head(stack[t])
           f == top.fn
<1>1. /\ UNCHANGED <<setup, alive, named, polling>> /\ polling # "stopped"
      /\ Kinds /\ stack[t] # <<>> /\ stack[t] \in Seq(Frame)
      /\ Nested(t) /\ Started(t)
  BY Zenon DEF SpanSteps, Orderly, Leave, report, Kinds
<1>2. stack'[t] = Tail(stack[t]) /\ \A r \in Tids \ {t} : stack'[r] = stack[r]
  BY Zenon DEF SpanSteps, Kinds, Leave
<1>3. top = stack[t][1] /\ 1 \in DOMAIN stack[t] /\ f \in Fn
  <2>1. top = stack[t][1] /\ 1 \in DOMAIN stack[t]
    BY <1>1, PopFacts
  <2> QED
    BY Zenon, <1>1, <2>1, FrameAt
<1>4. /\ \A k \in DOMAIN stack'[t] :
           k + 1 \in DOMAIN stack[t] /\ 1 < k + 1 /\ stack'[t][k] = stack[t][k + 1]
      /\ \A k \in DOMAIN stack[t] :
           k # 1 => k - 1 \in DOMAIN stack'[t] /\ stack'[t][k - 1] = stack[t][k]
  <2>1. /\ DOMAIN stack[t] = 1..Len(stack[t]) /\ Len(stack[t]) \in Nat
        /\ DOMAIN stack'[t] = 1..(Len(stack[t]) - 1)
        /\ \A k \in 1..(Len(stack[t]) - 1) : stack'[t][k] = stack[t][k + 1]
    BY Zenon, <1>1, <1>2, PopFacts
  <2>2. ASSUME NEW k \in DOMAIN stack[t], k # 1
        PROVE  k - 1 \in DOMAIN stack'[t] /\ stack'[t][k - 1] = stack[t][k]
    <3>1. k - 1 \in 1..(Len(stack[t]) - 1) /\ (k - 1) + 1 = k
      BY <2>1, <2>2
    <3> QED
      BY Zenon, <2>1, <3>1
  <2>3. ASSUME NEW k \in DOMAIN stack'[t]
        PROVE  k + 1 \in DOMAIN stack[t] /\ 1 < k + 1 /\ stack'[t][k] = stack[t][k + 1]
    BY <2>1, <2>3
  <2> QED
    BY Zenon, <2>2, <2>3
<1>5. /\ \A r \in Tids \ {t} : InFault(r)' <=> InFault(r)
      /\ f # "fault" => (InFault(t)' <=> InFault(t))
      /\ f = "fault" => InFault(t) /\ ~ InFault(t)'
  <2>1. \A r \in Tids \ {t} : InFault(r)' <=> InFault(r)
    BY Zenon, <1>2 DEF InFault
  <2>2. f # "fault" => (InFault(t)' <=> InFault(t))
    BY <1>3, <1>4 DEF InFault
  <2>3. ASSUME f = "fault" PROVE InFault(t) /\ ~ InFault(t)'
    <3>1. InFault(t)
      BY Zenon, <1>3, <2>3 DEF InFault
    <3>2. ASSUME NEW k \in DOMAIN stack'[t] PROVE stack'[t][k].fn # "fault"
      <4>1. Inside(stack[t][k + 1].fn, "fault")
        BY Zenon, <1>1, <1>3, <1>4, <2>3, <3>2 DEF Nested
      <4> QED
        BY Zenon, <4>1 DEF Inside
    <3> QED
      BY Zenon, <3>1, <3>2 DEF InFault
  <2> QED
    BY Zenon, <2>1, <2>2, <2>3
<1>6. \A r \in named : r \in Tids
  BY Zenon, <1>1 DEF Kinds
<1>7. CASE t \notin named
  <2>1. UNCHANGED maps /\ UNCHANGED truth
    BY Zenon, <1>7 DEF Leave, Tracked
  <2>2. \A r \in named : r # t /\ stack'[r] = stack[r] /\ (InFault(r)' <=> InFault(r))
    BY Zenon, <1>2, <1>5, <1>6, <1>7
  <2> QED
    BY Zenon, <1>1, <1>6, <2>1, <2>2 DEF Followed, Recorded, Faults, maps
<1>8. CASE t \in named
  <2>1. Recorded(t) /\ Faults(t) = {<<c, c>> : c \in truth[t]["fault"]} /\ polling = "yes"
    BY Zenon, <1>8 DEF Followed
  <2>2. top.hooked /\ Tracked(t)
    BY Zenon, <1>1, <1>3, <1>8, <2>1, TargetTracked DEF Recorded, Kinds
  <2>3. truth' = [truth EXCEPT ![t][f] = @ \cup {top.call}]
    BY Zenon, <1>8, <2>2 DEF Leave
  <2>4. /\ \A r \in Tids \ {t} : truth'[r] = truth[r]
        /\ truth'[t]["fault"] = IF f = "fault" THEN truth[t]["fault"] \cup {top.call}
                                ELSE truth[t]["fault"]
    <3> HIDE DEF top
    <3>1. /\ truth = [r \in Tids |-> truth[r]] /\ truth[t] = [g \in Fn |-> truth[t][g]]
          /\ "fault" \in Fn
      BY Zenon, <1>1 DEF Kinds, Fn
    <3>2. /\ \A r \in Tids \ {t} : truth'[r] = truth[r]
          /\ truth'[t] = [truth[t] EXCEPT ![f] = @ \cup {top.call}]
      BY Zenon, <2>3, <3>1
    <3> QED
      BY Zenon, <1>3, <3>1, <3>2
  <2>5. CASE f = "fault"
    <3>1. t \in DOMAIN start["fault"] /\ t \in DOMAIN stats
      BY Zenon, <1>5, <2>1, <2>5 DEF Recorded
    <3>2. start["fault"][t] = top.call
      BY Zenon, <1>1, <1>3, <2>2, <2>5, <3>1 DEF Started
    <3>3. /\ stats' = [stats EXCEPT ![t]["fault"] = @ \cup {<<top.call, top.call>>}]
          /\ start' = [start EXCEPT !["fault"] = Remove(start["fault"], t)]
      BY Zenon, <1>1, <2>2, <2>5, <3>1, <3>2, LeaveMaps
    <3> HIDE DEF top
    <3>4. /\ DOMAIN stats' = DOMAIN stats /\ \A r \in DOMAIN stats \ {t} : stats'[r] = stats[r]
          /\ stats'[t]["fault"] = stats[t]["fault"] \cup {<<top.call, top.call>>}
      <4>1. /\ stats = [r \in DOMAIN stats |-> stats[r]] /\ stats[t] = [g \in Fn |-> stats[t][g]]
            /\ "fault" \in Fn
        BY Zenon, <1>1, <3>1 DEF Kinds, Map, Fn
      <4>2. /\ DOMAIN stats' = DOMAIN stats /\ \A r \in DOMAIN stats \ {t} : stats'[r] = stats[r]
            /\ stats'[t] = [stats[t] EXCEPT !["fault"] = @ \cup {<<top.call, top.call>>}]
        BY Zenon, <3>1, <3>3, <4>1
      <4> QED
        BY Zenon, <4>1, <4>2
    <3>5. DOMAIN start'["fault"] = DOMAIN start["fault"] \ {t}
      <4>1. start'["fault"] = Remove(start["fault"], t)
        BY Zenon, <1>1, <3>3 DEF Kinds, Fn
      <4> QED
        BY Zenon, <4>1 DEF Remove
    <3>6. ASSUME NEW r \in named PROVE Recorded(r)'
      <4>1. CASE r = t
        BY Zenon, <1>4, <1>5, <2>1, <2>5, <4>1 DEF Recorded
      <4>2. CASE r # t
        <5>1. Recorded(r) /\ stack'[r] = stack[r] /\ (InFault(r)' <=> InFault(r))
          BY Zenon, <1>2, <1>5, <1>6, <4>2 DEF Followed
        <5> QED
          BY Zenon, <3>4, <3>5, <4>2, <5>1 DEF Recorded
      <4> QED
        BY Zenon, <4>1, <4>2
    <3>7. ASSUME NEW r \in named PROVE Faults(r)' = {<<c, c>> : c \in truth'[r]["fault"]}
      <4>1. CASE r = t
        <5>1. Faults(t)' = stats[t]["fault"] \cup {<<top.call, top.call>>}
          BY Zenon, <3>1, <3>4 DEF Faults
        <5>2. stats[t]["fault"] = {<<c, c>> : c \in truth[t]["fault"]}
          BY Zenon, <2>1, <3>1 DEF Faults
        <5>3. truth'[t]["fault"] = truth[t]["fault"] \cup {top.call}
          BY Zenon, <2>4, <2>5
        <5> QED
          BY Zenon, <4>1, <5>1, <5>2, <5>3
      <4>2. CASE r # t
        <5>1. Faults(r)' = Faults(r) /\ truth'[r] = truth[r]
          BY Zenon, <1>6, <2>4, <3>4, <4>2 DEF Faults
        <5>2. Faults(r) = {<<c, c>> : c \in truth[r]["fault"]}
          BY Zenon DEF Followed
        <5> QED
          BY Zenon, <5>1, <5>2
      <4> QED
        BY Zenon, <4>1, <4>2
    <3>8. ASSUME NEW r \in DOMAIN start'["fault"] PROVE r \in named /\ InFault(r)'
      BY Zenon, <1>5, <1>6, <3>5 DEF Followed
    <3> QED
      BY Zenon, <1>1, <2>1, <3>6, <3>7, <3>8 DEF Followed
  <2>6. CASE f # "fault"
    <3> DEFINE g == top.fn
               x == <<start[g][t], top.call>>
    <3>1. /\ start' = start
          /\ stats' = stats \/ (t \in DOMAIN stats /\ stats' = [stats EXCEPT ![t][g] = @ \cup {x}])
          /\ g \in Fn /\ g # "fault"
      BY Zenon, <1>1, <1>3, <2>6, LeaveMaps DEF maps
    <3> HIDE DEF top, x
    <3>2. /\ DOMAIN stats' = DOMAIN stats
          /\ \A r \in DOMAIN stats : stats'[r]["fault"] = stats[r]["fault"]
      <4>1. CASE stats' = stats
        BY Zenon, <4>1
      <4>2. CASE t \in DOMAIN stats /\ stats' = [stats EXCEPT ![t][g] = @ \cup {x}]
        <5>1. /\ stats = [r \in DOMAIN stats |-> stats[r]] /\ stats[t] = [h \in Fn |-> stats[t][h]]
              /\ "fault" \in Fn
          BY Zenon, <1>1, <4>2 DEF Kinds, Map, Fn
        <5>2. /\ DOMAIN stats' = DOMAIN stats /\ \A r \in DOMAIN stats \ {t} : stats'[r] = stats[r]
              /\ stats'[t] = [stats[t] EXCEPT ![g] = @ \cup {x}]
          BY Zenon, <4>2, <5>1
        <5>3. stats'[t]["fault"] = stats[t]["fault"]
          BY Zenon, <3>1, <5>1, <5>2
        <5> QED
          BY Zenon, <5>2, <5>3
      <4> QED
        BY Zenon, <3>1, <4>1, <4>2
    <3>3. ASSUME NEW r \in named PROVE Recorded(r)'
      <4>1. Recorded(r) /\ (InFault(r)' <=> InFault(r))
        BY Zenon, <1>5, <1>6, <2>6 DEF Followed
      <4>2. \A k \in DOMAIN stack'[r] : stack'[r][k].hooked
        <5>1. CASE r = t
          BY Zenon, <1>4, <4>1, <5>1 DEF Recorded
        <5>2. CASE r # t
          BY Zenon, <1>2, <1>6, <4>1, <5>2 DEF Recorded
        <5> QED
          BY Zenon, <5>1, <5>2
      <4> QED
        BY Zenon, <3>1, <3>2, <4>1, <4>2 DEF Recorded
    <3>4. ASSUME NEW r \in named PROVE Faults(r)' = {<<c, c>> : c \in truth'[r]["fault"]}
      <4>1. Faults(r)' = Faults(r)
        BY Zenon, <3>2 DEF Faults
      <4>2. truth'[r]["fault"] = truth[r]["fault"]
        BY Zenon, <1>6, <2>4, <2>6
      <4>3. Faults(r) = {<<c, c>> : c \in truth[r]["fault"]}
        BY Zenon DEF Followed
      <4> QED
        BY Zenon, <4>1, <4>2, <4>3
    <3>5. ASSUME NEW r \in DOMAIN start'["fault"] PROVE r \in named /\ InFault(r)'
      BY Zenon, <1>5, <1>6, <2>6, <3>1 DEF Followed
    <3> QED
      BY Zenon, <1>1, <2>1, <3>3, <3>4, <3>5 DEF Followed
  <2> QED
    BY Zenon, <2>5, <2>6
<1> QED
  BY Zenon, <1>7, <1>8

\* The exit of a thread, which is in no fault.
LEMMA FollowedExit ==
  ASSUME SpanSteps, Orderly, Followed, NEW t \in Tids, Exit(t)
  PROVE  Followed'
<1>1. /\ Kinds /\ UNCHANGED <<stack, start, polling>> /\ named' = named \ {t} /\ stack[t] = <<>>
      /\ stats' = Remove(stats, t)
  BY Zenon DEF SpanSteps, Orderly, Exit, ThreadExit
<1>2. \A r \in Tids \ {t} : truth'[r] = truth[r]
  BY Zenon, <1>1 DEF Exit, Kinds
<1>3. DOMAIN stats' = DOMAIN stats \ {t} /\ \A r \in DOMAIN stats \ {t} : stats'[r] = stats[r]
  <2>1. /\ DOMAIN Remove(stats, t) = DOMAIN stats \ {t}
        /\ \A r \in DOMAIN stats \ {t} : Remove(stats, t)[r] = stats[r]
    BY Zenon, <1>1, RemoveFacts DEF Kinds
  <2> QED
    BY Zenon, <1>1, <2>1
<1>4. \A r \in named' : r \in named /\ r # t /\ r \in Tids
  BY Zenon, <1>1 DEF Kinds
<1>5. ASSUME NEW r \in named'
      PROVE  Recorded(r)' /\ Faults(r)' = {<<c, c>> : c \in truth'[r]["fault"]}
  <2>1. Recorded(r) /\ Faults(r) = {<<c, c>> : c \in truth[r]["fault"]} /\ r # t
    BY Zenon, <1>4 DEF Followed
  <2>2. truth'[r] = truth[r]
    BY Zenon, <1>2, <1>4
  <2>3. (r \in DOMAIN stats' <=> r \in DOMAIN stats) /\ Faults(r)' = Faults(r)
    BY Zenon, <1>3, <2>1 DEF Faults
  <2>4. Recorded(r)'
    BY Zenon, <1>1, <2>1, <2>3 DEF Recorded, InFault
  <2> QED
    BY Zenon, <2>1, <2>2, <2>3, <2>4
<1>6. ~ InFault(t)
  BY <1>1 DEF InFault
<1>7. ASSUME NEW r \in DOMAIN start'["fault"] PROVE r \in named' /\ InFault(r)'
  <2>1. r \in named /\ InFault(r)
    BY Zenon, <1>1 DEF Followed
  <2>2. InFault(r)'
    BY Zenon, <1>1, <2>1 DEF InFault
  <2> QED
    BY Zenon, <1>1, <1>6, <2>1, <2>2
<1>8. named' # {} => polling' = "yes"
  BY Zenon, <1>1, <1>4 DEF Followed
<1> QED
  BY Zenon, <1>5, <1>7, <1>8 DEF Followed

\* A new thread of the target finds nothing under its id.
LEMMA FollowedName ==
  ASSUME SpanSteps, Orderly, Followed, Fresh, NEW t \in Tids, Fork(t) \/ Exec(t)
  PROVE  Followed'
<1>1. /\ Kinds /\ UNCHANGED <<stack, start, stats, polling, truth>>
      /\ t \notin named /\ stack[t] = <<>> /\ DOMAIN stats \subseteq named
  <2>1. Kinds /\ UNCHANGED <<stack, start, stats, polling, truth>> /\ DOMAIN stats \subseteq named
    BY Zenon DEF SpanSteps, Fork, Exec, maps, report, Orderly
  <2> QED
    BY Zenon, <2>1 DEF SpanSteps, Kinds, Nested, Fork, Exec
<1>2. named' = named \/ (TargetMayRun /\ named' = named \cup {t})
  BY Zenon DEF Fork, Exec
<1>3. named' # {} => polling' = "yes"
  <2>1. CASE named' = named
    BY Zenon, <1>1, <2>1 DEF Followed
  <2>2. CASE TargetMayRun
    BY Zenon, <1>1, <2>2 DEF TargetMayRun, Orderly, Kinds
  <2> QED
    BY Zenon, <1>2, <2>1, <2>2
<1>4. ASSUME NEW r \in named'
      PROVE  Recorded(r)' /\ Faults(r)' = {<<c, c>> : c \in truth'[r]["fault"]}
  <2>1. CASE r \in named
    BY Zenon, <1>1, <2>1 DEF Followed, Recorded, InFault, Faults
  <2>2. CASE r = t
    <3>1. DOMAIN stack'[t] = {}
      BY <1>1
    <3>2. Recorded(t)'
      BY Zenon, <3>1 DEF Recorded, InFault
    <3>3. Faults(t)' = {}
      BY Zenon, <1>1 DEF Faults
    <3>4. truth'[t]["fault"] = {}
      BY Zenon, <1>1 DEF Fresh, NoStats, Fn
    <3> QED
      BY Zenon, <2>2, <3>2, <3>3, <3>4
  <2> QED
    BY Zenon, <1>2, <2>1, <2>2
<1>5. ASSUME NEW r \in DOMAIN start'["fault"] PROVE r \in named' /\ InFault(r)'
  BY Zenon, <1>1, <1>2 DEF Followed, InFault
<1> QED
  BY Zenon, <1>3, <1>4, <1>5 DEF Followed

\* Before the first fault nothing is missing.
LEMMA ExactInit == Init => ExactSteps
<1> SUFFICES ASSUME Init PROVE ExactSteps
  BY Zenon
<1>1. /\ start = [f \in Fn |-> Empty] /\ truth = [t \in Tids |-> NoStats]
      /\ alive = {} /\ named = {}
  BY Zenon DEF Init
<1>2. Living
  BY <1>1, FS_EmptySet, FaultTrackerAssumption DEF Living
<1>3. Fresh
  BY Zenon, <1>1 DEF Fresh
<1>4. Followed
  <2>1. DOMAIN start["fault"] = {}
    BY Zenon, <1>1 DEF Empty, Fn
  <2> QED
    BY Zenon, <1>1, <2>1 DEF Followed
<1> QED
  BY Zenon, <1>2, <1>3, <1>4 DEF ExactSteps

\* The number of threads that live is bounded in every step.
LEMMA LivingNext == SpanSteps /\ Living /\ [Next]_vars => Living'
<1> SUFFICES ASSUME SpanSteps, Living, [Next]_vars PROVE Living'
  BY Zenon
<1>1. Cardinality(alive) \in Nat
  BY Zenon, FS_CardinalityType DEF Living
<1>2. CASE UNCHANGED alive
  BY Zenon, <1>2 DEF Living
<1>3. ASSUME NEW t \in Tids, Fork(t) PROVE Living'
  <2>1. alive' = alive \cup {t} /\ t \notin alive /\ Cardinality(alive) < MaxLive
    BY Zenon, <1>3 DEF Fork
  <2>2. IsFiniteSet(alive') /\ Cardinality(alive') = Cardinality(alive) + 1
    BY Zenon, <2>1, FS_AddElement DEF Living
  <2> QED
    BY <1>1, <2>1, <2>2, FaultTrackerAssumption DEF Living
<1>4. ASSUME NEW t \in Tids, Exit(t) PROVE Living'
  <2>1. alive' = alive \ {t} /\ t \in alive
    BY Zenon, <1>4 DEF Exit
  <2>2. IsFiniteSet(alive') /\ Cardinality(alive') = Cardinality(alive) - 1
    BY Zenon, <2>1, FS_RemoveElement DEF Living
  <2> QED
    BY <1>1, <2>2, FaultTrackerAssumption DEF Living
<1>5. ASSUME NEW t \in Tids, Exec(t) \/ (\E f \in Fn : Enter(t, f)) \/ Leave(t) PROVE Living'
  BY Zenon, <1>2, <1>5 DEF Exec, Enter, Leave
<1>6. CASE Attach \/ OpenBuffer \/ HandleEvent \/ Stop
  BY Zenon, <1>2, <1>6 DEF Attach, OpenBuffer, HandleEvent, Stop
<1>7. CASE UNCHANGED vars
  BY Zenon, <1>2, <1>7 DEF vars
<1> QED
  BY Zenon, <1>3, <1>4, <1>5, <1>6, <1>7 DEF Next

\* A thread that is not named yet has no faults behind it.
LEMMA FreshNext == SpanSteps /\ Fresh /\ [Next]_vars => Fresh'
<1> SUFFICES ASSUME SpanSteps, Fresh, [Next]_vars PROVE Fresh'
  BY Zenon
<1>1. CASE named \subseteq named' /\ UNCHANGED truth
  BY Zenon, <1>1 DEF Fresh
<1>2. ASSUME NEW t \in Tids, Leave(t) PROVE Fresh'
  <2>1. CASE UNCHANGED <<named, truth>>
    BY Zenon, <1>1, <2>1
  <2>2. CASE t \in named /\ UNCHANGED named
    <3>1. \A r \in Tids \ {t} : truth'[r] = truth[r]
      BY Zenon, <1>2 DEF Leave, SpanSteps, Kinds
    <3> QED
      BY Zenon, <2>2, <3>1 DEF Fresh
  <2> QED
    BY Zenon, <1>2, <2>1, <2>2 DEF Leave
<1>3. ASSUME NEW t \in Tids, Exit(t) PROVE Fresh'
  <2>1. truth'[t] = NoStats /\ \A r \in Tids \ {t} : truth'[r] = truth[r]
    BY Zenon, <1>3 DEF Exit, SpanSteps, Kinds
  <2>2. named' = named \ {t}
    BY Zenon, <1>3 DEF Exit
  <2> QED
    BY Zenon, <2>1, <2>2 DEF Fresh
<1>4. ASSUME NEW t \in Tids, Fork(t) \/ Exec(t) \/ \E f \in Fn : Enter(t, f) PROVE Fresh'
  BY Zenon, <1>1, <1>4 DEF Fork, Exec, Enter
<1>5. CASE Attach \/ OpenBuffer \/ HandleEvent \/ Stop
  BY Zenon, <1>1, <1>5 DEF Attach, OpenBuffer, HandleEvent, Stop
<1>6. CASE UNCHANGED vars
  BY Zenon, <1>1, <1>6 DEF vars
<1> QED
  BY Zenon, <1>2, <1>3, <1>4, <1>5, <1>6 DEF Next

\* Every step of a tracker that is set up for it keeps the record complete.
LEMMA ExactNext == Suitable /\ SpanSteps /\ ExactSteps /\ [Next]_vars => ExactSteps'
<1> SUFFICES ASSUME Suitable, SpanSteps, ExactSteps, [Next]_vars PROVE ExactSteps'
  BY Zenon
<1>1. Living' /\ Fresh'
  BY Zenon, LivingNext, FreshNext DEF ExactSteps
<1>2. ASSUME Orderly' PROVE Followed'
  <2>1. Orderly
    <3>1. setup' = setup
      BY Zenon DEF Next, Attach, OpenBuffer, HandleEvent, Stop, Fork, Exec, Enter, Leave, Exit, vars
    <3>2. polling' = polling \/ polling \in {"no", "yes"}
      BY Zenon DEF Next, Attach, OpenBuffer, HandleEvent, Stop, Fork, Exec, Enter, Leave, Exit,
         ThreadExit, vars, report
    <3> QED
      BY Zenon, <1>2, <3>1, <3>2 DEF Orderly
  <2>2. Living /\ Fresh /\ Followed
    BY Zenon, <2>1 DEF ExactSteps
  <2>3. CASE UNCHANGED <<named, stack, maps, truth>> /\ (polling' = polling \/ polling' = "yes")
    BY Zenon, <2>2, <2>3 DEF Followed, Recorded, InFault, Faults, maps
  <2>4. CASE Attach \/ OpenBuffer \/ HandleEvent
    BY Zenon, <2>3, <2>4 DEF Attach, OpenBuffer, HandleEvent, report
  <2>5. CASE Stop
    BY Zenon, <1>2, <2>5 DEF Stop, Orderly
  <2>6. CASE UNCHANGED vars
    BY Zenon, <2>3, <2>6 DEF vars, report
  <2>7. ASSUME NEW t \in Tids,
               Fork(t) \/ Exec(t) \/ (\E f \in Fn : Enter(t, f)) \/ Leave(t) \/ Exit(t)
        PROVE  Followed'
    BY Zenon, <2>1, <2>2, <2>7, FollowedName, FollowedEnter, FollowedLeave, FollowedExit
  <2> QED
    BY Zenon, <2>4, <2>5, <2>6, <2>7 DEF Next
<1> QED
  BY Zenon, <1>1, <1>2 DEF ExactSteps

\* While mm_fault_tracker.py runs, and if it was started before the target and no
\* return is missed, it has exactly the faults of each thread of the target, each
\* with its own duration: for any number of threads, as long as there are not
\* more of them at a time than a map has entries, and for any name but one of 16
\* characters, which never matches.
THEOREM FaultsCorrect ==
  ASSUME Suitable PROVE Spec => []FaultsExact
<1>1. Init => SpanSteps /\ ExactSteps
  BY Zenon, SpanInit, ExactInit
<1>2. SpanSteps /\ ExactSteps /\ [Next]_vars => (SpanSteps /\ ExactSteps)'
  BY Zenon, SpanNext, ExactNext
<1>3. SpanSteps /\ ExactSteps => FaultsExact
  BY Zenon DEF ExactSteps, Followed, Orderly, FaultsExact, Faults
<1> QED
  BY <1>1, <1>2, <1>3, PTL DEF Spec

-----------------------------------------------------------------------------
(***************************************************************************)
(* A name of 16 characters.                                                *)
(***************************************************************************)

\* "if len(args.comm) > 16" lets a name of 16 characters through whole, and the
\* kernel has only 15 of it: whatever the target does, however long the script
\* runs, no thread is recorded and nothing is printed.  FaultsCorrect cannot do
\* without its condition on names.
THEOREM SixteenIsSilent ==
  Spec => [](setup.name = 16 => stats = Empty /\ events = <<>> /\ printed = {})
<1> DEFINE Nothing == stats = Empty /\ events = <<>> /\ printed = {}
           Silent == setup.name = 16 => Nothing
<1>1. Init => Silent
  BY Zenon DEF Init
<1>2. ASSUME Silent, [Next]_vars PROVE Silent'
  <2>1. setup' = setup
    BY Zenon, <1>2 DEF Next, Attach, OpenBuffer, HandleEvent, Stop, Fork, Exec, Enter, Leave, Exit, vars
  <2> SUFFICES ASSUME setup.name = 16 PROVE Nothing'
    BY Zenon, <2>1
  <2>2. Nothing
    BY Zenon, <1>2
  <2>3. \A t : ~Tracked(t)
    BY DEF Tracked, CommLen, TargetLen
  <2>4. CASE UNCHANGED <<stats, events, printed>>
    BY Zenon, <2>2, <2>4
  <2>5. CASE Attach \/ OpenBuffer \/ Stop \/ UNCHANGED vars
    BY Zenon, <2>4, <2>5 DEF Attach, OpenBuffer, Stop, vars, maps, report
  <2>6. CASE HandleEvent
    BY Zenon, <2>2, <2>6 DEF HandleEvent
  <2>7. ASSUME NEW t \in Tids,
               Fork(t) \/ Exec(t) \/ (\E f \in Fn : Enter(t, f)) \/ Leave(t)
        PROVE  Nothing'
    BY Zenon, <2>3, <2>4, <2>7 DEF Fork, Exec, Enter, Leave, maps, report
  <2>8. ASSUME NEW t \in Tids, Exit(t) PROVE Nothing'
    <3>1. DOMAIN stats = {}
      BY Zenon, <2>2 DEF Empty
    <3>2. Remove(stats, t) = stats
      BY Zenon, <2>2 DEF Remove, Empty
    <3> QED
      BY Zenon, <2>2, <2>8, <3>1, <3>2 DEF Exit, ThreadExit, maps, report
  <2> QED
    BY Zenon, <1>2, <2>5, <2>6, <2>7, <2>8 DEF Next
<1> QED
  BY <1>1, <1>2, PTL DEF Spec
=============================================================================
