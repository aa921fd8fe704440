--------------------------- MODULE PageWalkProofs ---------------------------
(***************************************************************************)
(* Proofs about the page walk coherence benchmark, for any number of pages *)
(* and processors, wherever bigbuf lies in its first page table.           *)
(***************************************************************************)
EXTENDS PageWalk, WellFoundedInduction, TLAPS

-----------------------------------------------------------------------------
(***************************************************************************)
(* The inductive invariants.                                               *)
(***************************************************************************)

Seen == {"own", "table", "other", "absent"}

\* Where the tables are, where they are used, and the measurement proper.
Measuring == {"pass", "store2", "load2", "store1", "load1", "passed"}
Uses == {"backup", "fill", "shuffle", "preload", "preloaded", "touch", "init", "measured", "restore"}
        \cup Measuring
Between == {"check", "mapped", "fill", "preloaded", "pass", "passed", "measured", "unmapped", "done"}
OverPages == {"backup", "shuffle", "preload", "touch", "init", "store2", "load2", "store1", "load1",
              "restore"}

Setting ==
  /\ opts.asize \in Nat \ {0, 1} /\ opts.preload \in 0 .. 2 /\ opts.mode \in 0 .. 1
  /\ host.offset \in 0 .. PtePerPde - 1 /\ host.beyond \in {"absent", "other", "exits"}

\* The loop counter fits the loop.
Loops ==
  /\ \/ pc \in Between /\ i = 0
     \/ pc \in {"map", "unmap"} /\ i \in Window
     \/ pc \in OverPages /\ i \in Page
     \/ pc = "exit"
  /\ cpu \in Cpus

\* Which entries of the window are those of tables, and what TLBs hold of them:
\* while the window is used, nothing else.
InWindow(w) ==
  IF pc \in Uses \cup {"mapped"} \/ (pc = "map" /\ w < i) \/ (pc = "unmap" /\ w >= i)
  THEN Table(w) ELSE "own"

WindowSteps ==
  /\ window \in [Window -> Seen] /\ wtlb \in [Cpus -> [Window -> SUBSET Seen]]
  /\ \A w \in Window :
       /\ ~(pc = "exit" /\ host.beyond = "exits") => window[w] = InWindow(w)
       /\ pc \in Uses \cup {"mapped", "unmap"} \/ (pc = "map" /\ w < i) => old_pgmap_ptes[w] = "own"
       /\ pc \in Uses \cup {"check", "done"} \/ (pc = "exit" /\ host.beyond # "exits") =>
            \A c \in Cpus : wtlb[c][w] \subseteq {window[w]}

\* randindex is a permutation, of the elements it has so far while it is filled.
Shuffled == {"preload", "preloaded", "touch", "init"} \cup Measuring
ShuffleSteps ==
  /\ randindex \in [Page -> Page \cup {None}]
  /\ pc = "shuffle" =>
       /\ \A p \in 0 .. i - 1 : randindex[p] \in 0 .. i - 1
       /\ \A p, q \in 0 .. i - 1 : randindex[p] = randindex[q] => p = q
  /\ pc \in Shuffled => /\ \A p \in Page : randindex[p] \in Page
                        /\ \A p, q \in Page : randindex[p] = randindex[q] => p = q

Walks == Setting /\ Loops /\ WindowSteps /\ old_pgmap_ptes \in [Window -> Seen \cup {None}]

\* The entries of bigbuf: those it began with until they are all saved, and again
\* once they are restored; one of the first two pages in the measurement.
TableTypes ==
  /\ pte \in [Page -> Page] /\ tlb \in [Cpus -> [Page -> SUBSET Page]]
  /\ old_pagetable \in [Page -> Page \cup {None}]

Untouched == {"check", "map", "mapped", "backup", "fill", "shuffle", "exit", "done"}
Saved == Uses \ {"backup"}

Original(p) == pc \in Untouched \cup {"unmap", "unmapped"} \/ (pc = "restore" /\ p < i)
IsSaved(p) == pc \in Saved \/ (pc = "backup" /\ p < i)
IsTwo(p) ==
  \/ pc \in Measuring \cup {"preloaded", "touch"}
  \/ pc = "preload" /\ p < i
  \/ pc = "init" /\ (p < i \/ opts.preload # 0)
TlbIsTwo ==
  \/ pc = "touch"
  \/ pc \in Measuring \cup {"init"} /\ opts.preload # 0
  \/ pc \in Measuring \ {"pass"} /\ opts.mode = 0

TableSteps ==
  /\ pc \in {"preloaded", "touch"} => opts.preload # 0
  /\ \A p \in Page :
       /\ Original(p) => pte[p] = p
       /\ IsSaved(p) => old_pagetable[p] = p
       /\ IsTwo(p) => pte[p] \in {0, 1}
       /\ pc \in Untouched => \A c \in Cpus : tlb[c][p] \subseteq {p}
       /\ TlbIsTwo => \A c \in Cpus : tlb[c][p] \subseteq {0, 1}

Tables == TableTypes /\ TableSteps

\* What was read.
ReadSteps ==
  opts.mode = 0 \/ pc \notin (Measuring \cup {"measured", "restore", "unmap", "unmapped", "done"})
    => n \in {None, 1, 2}

\* The counts of the pass so far, in mode 0.
Row(f, expected2, expected1) ==
  f[2] + f[3] = expected2 /\ f[0] + f[1] = expected1

Measured == {"measured", "restore", "unmap", "unmapped", "done"}

CountSteps ==
  /\ j \in 0 .. ITS /\ k \in 0 .. inner_its - 1
  /\ lcounts \in [0 .. 3 -> Nat] /\ counts \in [0 .. ITS - 1 -> [0 .. 3 -> Nat]]
  /\ pc \in Measured <=> j = ITS
  /\ pc \notin Measuring \/ pc = "pass" => lcounts = NoCounts
  /\ pc \in {"store2", "load2"} => opts.mode = 0
  /\ opts.mode = 0 =>
       /\ \A r \in 0 .. ITS - 1 : r < j => Row(counts[r], opts.asize, opts.asize)
       /\ pc \in {"store2", "load2"} => Row(lcounts, i, i)
       /\ pc \in {"store1", "load1"} => Row(lcounts, i + 1, i)
       /\ pc = "passed" => Row(lcounts, opts.asize, opts.asize)

\* Without speculation, preload and --dont_remap, no TLB has an entry of the pages
\* to come, and the first page is never read for the second.
Clean == opts.mode = 0 /\ opts.preload = 0 /\ ~opts.dont_remap /\ ~host.speculates
NoneFrom(x) == \A c \in Cpus, m \in Page : m >= x => tlb[c][randindex[m]] = {}
CleanSteps ==
  Clean =>
    /\ pc = "load2" => pte[p_this] = 1
    /\ pc \in {"store2", "load2"} => NoneFrom(i)
    /\ pc \in {"store1", "load1"} => NoneFrom(i + 1)
    /\ lcounts[2] = 0 /\ \A r \in 0 .. ITS - 1 : counts[r][2] = 0

-----------------------------------------------------------------------------
(***************************************************************************)
(* Numbers.                                                                *)
(***************************************************************************)

\* A multiple of c is 0 or at least c away from it.
LEMMA Multiple ==
  ASSUME NEW c \in Nat \ {0}, NEW d \in Int
  PROVE  /\ d >= 1 => c * d >= c
         /\ d <= -1 => c * d <= -c
<1>1. ASSUME d >= 1 PROVE c * d >= c
  <2>1. c * d = c + c * (d - 1)
    OBVIOUS
  <2>2. c * (d - 1) >= 0
    BY <1>1
  <2> QED
    BY <2>1, <2>2
<1>2. ASSUME d <= -1 PROVE c * d <= -c
  <2>1. c * d = -c - c * (-d - 1)
    OBVIOUS
  <2>2. c * (-d - 1) >= 0
    BY <1>2
  <2> QED
    BY <2>1, <2>2
<1> QED
  BY Zenon, <1>1, <1>2

\* A quotient and its remainder are the only ones.
LEMMA Quotient ==
  ASSUME NEW c \in Nat \ {0}, NEW x \in Nat, NEW q \in Int, NEW r \in 0 .. c - 1, x = c * q + r
  PROVE  x \div c = q /\ x % c = r
<1> DEFINE Q == x \div c
           R == x % c
<1>1. Q \in Int /\ R \in 0 .. c - 1 /\ x = c * Q + R
  OBVIOUS
<1> HIDE DEF Q, R
<1>2. c * (Q - q) = r - R
  BY <1>1
<1>3. ~(Q - q <= -1) /\ ~(Q - q >= 1)
  BY <1>1, <1>2, Multiple
<1>4. Q = q
  BY <1>1, <1>3
<1> QED
  BY <1>1, <1>4 DEF Q, R

\* A larger number has no smaller quotient.
LEMMA QuotientGrows ==
  ASSUME NEW c \in Nat \ {0}, NEW x \in Nat, NEW y \in Nat, x <= y
  PROVE  x \div c <= y \div c /\ x \div c \in Nat /\ y \div c \in Nat
<1> DEFINE q == x \div c
           r == x % c
           Q == y \div c
           R == y % c
<1>1. q \in Nat /\ r \in 0 .. c - 1 /\ x = c * q + r
  OBVIOUS
<1>2. Q \in Nat /\ R \in 0 .. c - 1 /\ y = c * Q + R
  OBVIOUS
<1> HIDE DEF q, r, Q, R
<1>3. c * (q - Q) = x - y + R - r
  BY <1>1, <1>2
<1>4. ~(q - Q >= 1)
  BY <1>1, <1>2, <1>3, Multiple
<1>5. q <= Q
  BY <1>1, <1>2, <1>4
<1> QED
  BY Zenon, <1>1, <1>2, <1>5 DEF q, Q

\* The counter of a loop.
LEMMA Wraps ==
  ASSUME NEW size \in Nat \ {0}, NEW x \in 0 .. size - 1
  PROVE  (x + 1) % size = IF x + 1 = size THEN 0 ELSE x + 1
<1>1. CASE x + 1 = size
  <2>1. x + 1 = size * 1 + 0
    BY <1>1
  <2> QED
    BY <1>1, <2>1, Quotient
<1>2. CASE x + 1 # size
  <2>1. x + 1 = size * 0 + (x + 1) /\ x + 1 \in 0 .. size - 1
    BY <1>2
  <2> QED
    BY <1>2, <2>1, Quotient
<1> QED
  BY Zenon, <1>1, <1>2

\* The window has room for the entries of all pages, wherever in its first table
\* bigbuf begins, and they are in tables that map bigbuf.
LEMMA SlotsFit ==
  ASSUME Setting
  PROVE  /\ num_pde_to_map \in Nat \ {0}
         /\ \A p \in Page : p \in Nat /\ Slot(p) \in Window /\ Table(Slot(p)) = "table"
<1> DEFINE P == PtePerPde
           A == opts.asize
           off == host.offset
<1>1. P \in Nat \ {0} /\ A \in Nat \ {0, 1} /\ off \in 0 .. P - 1
  BY Zenon, PageWalkAssumption DEF Setting
<1> HIDE DEF P, A, off
<1>2. (A + P - 2) \div P \in Nat
  BY <1>1, QuotientGrows
<1>3. (A + 2 * P - 2) \div P = (A + P - 2) \div P + 1
  <2> DEFINE q == (A + P - 2) \div P
             r == (A + P - 2) % P
  <2>1. A + P - 2 \in Nat /\ q \in Int /\ r \in 0 .. P - 1 /\ A + P - 2 = P * q + r
    BY <1>1
  <2> HIDE DEF q, r
  <2>2. A + 2 * P - 2 = P * (q + 1) + r /\ A + 2 * P - 2 \in Nat
    BY <1>1, <2>1
  <2>3. (A + 2 * P - 2) \div P = q + 1
    BY <1>1, <2>1, <2>2, Quotient
  <2> QED
    BY Zenon, <2>3 DEF q
<1>4. num_pde_to_map = (A + P - 2) \div P + 1
  BY Zenon, <1>3 DEF num_pde_to_map, A, P
<1>5. ASSUME NEW p \in Page
      PROVE  p \in Nat /\ Slot(p) \in Window /\ Table(Slot(p)) = "table"
  <2>1. p \in Nat /\ p <= A - 1
    BY <1>1 DEF Page, A
  <2>2. off + p \in Nat /\ off + (A - 1) \in Nat /\ A + P - 2 \in Nat
        /\ off + p <= off + (A - 1) /\ off + (A - 1) <= A + P - 2
    BY <1>1, <2>1
  <2>3. (off + p) \div P <= (off + (A - 1)) \div P /\ (off + p) \div P \in Nat
    BY Zenon, <1>1, <2>2, QuotientGrows
  <2>4. (off + (A - 1)) \div P <= (A + P - 2) \div P /\ (off + (A - 1)) \div P \in Nat
    BY Zenon, <1>1, <2>2, QuotientGrows
  <2>5. Slot(p) = (off + p) \div P /\ Slot(opts.asize - 1) = (off + (A - 1)) \div P
    BY Zenon DEF Slot, off, P, A
  <2> QED
    BY <1>2, <1>4, <2>1, <2>3, <2>4, <2>5 DEF Window, Table
<1> QED
  BY <1>2, <1>4, <1>5

-----------------------------------------------------------------------------
(***************************************************************************)
(* The window.                                                             *)
(***************************************************************************)

\* A pass of a loop.
LEMMA LoopOn ==
  ASSUME NEW size \in Nat \ {0}, i \in 0 .. size - 1, Count(size)
  PROVE  i' = (IF i + 1 = size THEN 0 ELSE i + 1) /\ i' \in 0 .. size - 1 /\ i' \in Nat
<1>1. i' = IF i + 1 = size THEN 0 ELSE i + 1
  BY Zenon, Wraps DEF Count
<1> QED
  BY <1>1

\* Where the window is used, it shows the tables of bigbuf.
LEMMA SeesTable ==
  ASSUME Walks, pc \in Uses, NEW p \in Page
  PROVE  Sees(p) = {"table"}
<1>1. Slot(p) \in Window /\ Table(Slot(p)) = "table"
  BY Zenon, SlotsFit DEF Walks
<1>2. window[Slot(p)] = "table" /\ wtlb[cpu][Slot(p)] \subseteq {window[Slot(p)]}
  <2>1. pc # "exit"
    BY Zenon DEF Uses, Measuring
  <2> QED
    BY Zenon, <1>1, <2>1 DEF Walks, WindowSteps, InWindow, Loops
<1> QED
  BY Zenon, <1>1, <1>2 DEF Sees

\* No store is lost, and none kills the process.
LEMMA StoreIs ==
  ASSUME Walks, pc \in Uses, NEW p \in Page, NEW f, NEW l, Store(p, f, l)
  PROVE  /\ pte' = [pte EXCEPT ![p] = f] /\ tlb' = WalkedAhead(tlb, p, pte[p])
         /\ wtlb' = Walked(wtlb, Slot(p), "table") /\ pc' = l
<1>1. PICK v \in Sees(p) :
        /\ pte' = IF v = "table" THEN [pte EXCEPT ![p] = f] ELSE pte
        /\ tlb' = WalkedAhead(tlb, p, pte[p])
        /\ wtlb' = IF v = "absent" THEN wtlb ELSE Walked(wtlb, Slot(p), v)
        /\ pc' = IF Lost(v) THEN "killed" ELSE l
  BY Zenon DEF Store
<1>2. v = "table"
  BY <1>1, SeesTable
<1> QED
  BY Zenon, <1>1, <1>2 DEF Lost

\* The TLBs learn only what the window is.
WtlbGrows ==
  /\ wtlb' \in [Cpus -> [Window -> SUBSET Seen]]
  /\ \A c \in Cpus, w \in Window : wtlb'[c][w] \subseteq wtlb[c][w] \cup {window[w]}

\* A walk ...
LEMMA WtlbWalk ==
  ASSUME Walks, NEW w \in Window, wtlb' = Walked(wtlb, w, window[w])
  PROVE  WtlbGrows
BY DEF Walks, WindowSteps, Loops, Walked, WtlbGrows

\* ... a store ...
LEMMA WtlbStore ==
  ASSUME Walks, pc \in Uses, NEW p \in Page, wtlb' = Walked(wtlb, Slot(p), "table")
  PROVE  WtlbGrows
<1>1. Slot(p) \in Window /\ Table(Slot(p)) = "table"
  BY Zenon, SlotsFit DEF Walks
<1>2. window[Slot(p)] = "table"
  <2>1. pc # "exit"
    BY Zenon DEF Uses, Measuring
  <2> QED
    BY Zenon, <1>1, <2>1 DEF Walks, WindowSteps, InWindow
<1> QED
  BY Zenon, <1>1, <1>2, WtlbWalk

\* ... a flush, after which they hold nothing ...
LEMMA WtlbFlushed ==
  ASSUME Setting, pgmod_flush_tlb
  PROVE  WtlbGrows /\ \A c \in Cpus, w \in Window : wtlb'[c][w] = {}
BY Zenon DEF pgmod_flush_tlb, NoEntries, WtlbGrows

\* ... and no access at all.
LEMMA WtlbSame ==
  ASSUME Walks, wtlb' = wtlb
  PROVE  WtlbGrows
BY Zenon DEF Walks, WindowSteps, WtlbGrows

\* A step of the program that uses the window.
UseStep ==
  /\ UNCHANGED <<option, cpu, window, old_pgmap_ptes>> /\ WtlbGrows
  /\ \/ pc' \in Uses \cap Between /\ i' = 0
     \/ pc' \in OverPages /\ i' \in Page
     \/ pc' = "unmap" /\ i' = 0

\* It leaves the window as it is.
LEMMA UseStepKeeps ==
  ASSUME Walks, pc \in Uses, UseStep
  PROVE  Walks'
<1>1. pc # "exit" /\ (pc' \in Uses \/ (pc' = "unmap" /\ i' = 0))
  BY Zenon DEF UseStep, Uses, Measuring, OverPages
<1>2. pc' # "exit" /\ pc' # "map" /\ pc' # "done" /\ pc' # "check" /\ pc' # "mapped"
  BY Zenon, <1>1 DEF Uses, Measuring
<1>3. UNCHANGED <<opts, host>>
  BY Zenon DEF UseStep, option
<1>4. \A w \in Window : w \in Nat
  BY SlotsFit DEF Window, Walks
<1>5. Setting' /\ Window' = Window /\ Page' = Page /\ \A w \in Window : Table(w)' = Table(w)
  BY Zenon, <1>3 DEF Walks, Setting, Window, num_pde_to_map, Page, Table, Slot
<1>6. num_pde_to_map \in Nat \ {0} /\ 0 \in Window
  BY SlotsFit DEF Window, Walks
<1>7. Loops'
  BY Zenon, <1>5, <1>6 DEF UseStep, Loops, Walks
<1>8. \A w \in Window : window[w] = Table(w) /\ old_pgmap_ptes[w] = "own"
  BY Zenon, <1>1 DEF Walks, WindowSteps, InWindow
<1>9. \A w \in Window : InWindow(w)' = Table(w)
  BY <1>1, <1>2, <1>4, <1>5 DEF InWindow
<1>10. \A c \in Cpus, w \in Window : wtlb'[c][w] \subseteq {window[w]}
  BY Zenon DEF UseStep, WtlbGrows, Walks, WindowSteps
<1>11. UNCHANGED <<window, old_pgmap_ptes>> /\ wtlb' \in [Cpus -> [Window -> SUBSET Seen]]
  BY Zenon DEF UseStep, WtlbGrows
<1>12. WindowSteps'
  BY Zenon, <1>2, <1>5, <1>8, <1>9, <1>10, <1>11 DEF WindowSteps, Walks
<1> QED
  BY Zenon, <1>5, <1>7, <1>11, <1>12 DEF Walks

\* Every step but those that map and unmap the window is one.
LEMMA UseSteps ==
  ASSUME Walks, ShuffleSteps, pc \in Uses, Main
  PROVE  UseStep
<1>1. opts.asize \in Nat \ {0, 1} /\ Page = 0 .. opts.asize - 1 /\ 0 \in Page
  BY DEF Walks, Setting, Page
<1>2. pc \in OverPages => i \in Page
  BY Zenon DEF Walks, Loops, OverPages, Between
<1>3. pc \in Between => i = 0
  BY Zenon DEF Walks, Loops, OverPages, Between
<1>4. ASSUME pc \in OverPages, Count(opts.asize)
      PROVE  i' \in Page /\ (i + 1 = opts.asize => i' = 0)
  BY Zenon, <1>1, <1>2, <1>4, LoopOn
<1> USE DEF UseStep, saved, result, memory
<1>5. CASE Backup
  <2>1. pc = "backup" /\ Count(opts.asize) /\ UNCHANGED <<option, cpu, window, old_pgmap_ptes>>
    BY Zenon, <1>5 DEF Backup
  <2>2. pc \in OverPages /\ i \in Page
    BY Zenon, <1>2, <2>1 DEF OverPages
  <2>3. PICK v \in Sees(i) :
          /\ wtlb' = IF v = "absent" THEN wtlb ELSE Walked(wtlb, Slot(i), v)
          /\ pc' = IF Lost(v) THEN "killed" ELSE Again("backup", opts.asize, "fill")
    BY Zenon, <1>5 DEF Backup
  <2>4. v = "table"
    BY <2>2, <2>3, SeesTable
  <2>5. wtlb' = Walked(wtlb, Slot(i), "table") /\ pc' = Again("backup", opts.asize, "fill")
    BY Zenon, <2>3, <2>4 DEF Lost
  <2>6. WtlbGrows
    BY Zenon, <2>2, <2>5, WtlbStore
  <2> QED
    BY Zenon, <1>4, <2>1, <2>2, <2>5, <2>6 DEF Again, OverPages, Uses, Between
<1>6. CASE Fill
  BY Zenon, <1>3, <1>6, WtlbSame, <1>1 DEF Fill, Between, OverPages
<1>7. CASE Shuffle
  BY Zenon, <1>4, <1>7, WtlbSame DEF Shuffle, Between, OverPages, Again
<1>8. ASSUME NEW f, NEW l, NEW m, pc \in OverPages, Store(i, f, Again(l, opts.asize, m)),
             Count(opts.asize), UNCHANGED <<option, cpu, window, old_pgmap_ptes>>, l \in OverPages,
             m \in (Uses \cap Between) \cup {"unmap"}
      PROVE  UseStep
  <2>1. wtlb' = Walked(wtlb, Slot(i), "table") /\ pc' = Again(l, opts.asize, m)
    BY Zenon, <1>2, <1>8, StoreIs
  <2>2. WtlbGrows
    BY Zenon, <1>2, <1>8, <2>1, WtlbStore
  <2> QED
    BY Zenon, <1>4, <1>8, <2>1, <2>2 DEF Again
<1>9. CASE Preload
  <2>1. "preloaded" \in Uses \cap Between /\ "preload" \in OverPages
    BY Zenon DEF Uses, Between, OverPages
  <2> QED
    BY Zenon, <1>8, <1>9, <2>1 DEF Preload
<1>10. CASE InitPtes
  <2>1. "pass" \in Uses \cap Between /\ "init" \in OverPages
    BY Zenon DEF Uses, Between, OverPages, Measuring
  <2> QED
    BY Zenon, <1>8, <1>10, <2>1 DEF InitPtes
<1>11. CASE Restore
  <2>1. "restore" \in OverPages
    BY Zenon DEF OverPages
  <2> QED
    BY Zenon, <1>8, <1>11, <2>1 DEF Restore
<1>12. ASSUME NEW here, NEW l, FlushAt(here, l), l \in OverPages \/ l \in Uses \cap Between,
              here \in Between \cap Uses \/ i = 0
       PROVE  UseStep
  <2>1. pc = here /\ pc' = l /\ pgmod_flush_tlb /\ UNCHANGED <<option, i, cpu, window, old_pgmap_ptes>>
    BY Zenon, <1>12 DEF FlushAt
  <2>2. WtlbGrows
    BY Zenon, <2>1, WtlbFlushed DEF Walks
  <2> QED
    BY Zenon, <1>1, <1>3, <1>12, <2>1, <2>2
<1>13. CASE FlushAt("preloaded", "touch") \/ FlushAt("measured", "restore")
  BY Zenon, <1>12, <1>13 DEF Uses, Between, OverPages
<1>14. CASE NoPreload
  <2>1. FlushAt("preload", "init") /\ pc = "preload"
    BY Zenon, <1>14 DEF NoPreload, FlushAt
  <2>2. WtlbGrows
    BY Zenon, <2>1, WtlbFlushed DEF Walks, FlushAt
  <2> QED
    BY Zenon, <1>2, <2>1, <2>2 DEF FlushAt, OverPages
<1>15. CASE Touch
  BY Zenon, <1>4, <1>15, WtlbSame DEF Touch, OverPages, Again
<1>16. CASE BeginPass
  <2>1. CASE FlushAt("pass", "store2")
    BY Zenon, <1>12, <2>1 DEF Uses, Between, OverPages, Measuring
  <2>2. CASE GoOn("pass", IF opts.mode = 0 THEN "store2" ELSE "store1")
    BY Zenon, <1>1, <1>3, <2>2, WtlbSame DEF GoOn, Between, OverPages
  <2> QED
    BY Zenon, <1>16, <2>1, <2>2 DEF BeginPass
<1>17. CASE EndPass
  BY Zenon, <1>3, <1>17, WtlbSame DEF EndPass, Between, Uses, Measuring
<1>18. CASE Load2
  BY Zenon, <1>2, <1>18, WtlbSame DEF Load2, OverPages
<1>19. CASE Load1
  BY Zenon, <1>4, <1>19, WtlbSame DEF Load1, OverPages, Again, Uses, Between, Measuring
<1>20. ASSUME NEW f, NEW l \in OverPages, pc \in OverPages, Tinker(p_this, f, l), p_this \in Page,
              UNCHANGED <<option, i, cpu, window, old_pgmap_ptes>>
       PROVE  UseStep
  <2>1. pc' = l /\ (wtlb' = wtlb \/ wtlb' = Walked(wtlb, Slot(p_this), "table"))
    BY Zenon, <1>20, StoreIs DEF Tinker
  <2>2. WtlbGrows
    BY Zenon, <1>20, <2>1, WtlbSame, WtlbStore
  <2> QED
    BY Zenon, <1>2, <1>20, <2>1, <2>2
<1>21. pc \in {"store1", "store2"} => p_this \in Page /\ pc \in OverPages
  BY Zenon, <1>2 DEF p_this, ShuffleSteps, Shuffled, Measuring, OverPages
<1>22. CASE Store2 \/ Store1
  BY Zenon, <1>20, <1>21, <1>22 DEF Store2, Store1, OverPages
<1>23. ~(SanityCheck \/ MapWindow \/ FlushAt("mapped", "backup") \/ UnmapWindow \/ FlushAt("unmapped", "done"))
  BY Zenon DEF SanityCheck, MapWindow, FlushAt, UnmapWindow, Uses, Measuring
<1> QED
  BY Zenon, <1>5, <1>6, <1>7, <1>9, <1>10, <1>11, <1>13, <1>14, <1>15, <1>16, <1>17, <1>18, <1>19, <1>22,
     <1>23 DEF Main

\* The window while it is mapped ...
LEMMA MapSteps ==
  ASSUME Walks, MapWindow
  PROVE  Walks'
<1>1. num_pde_to_map \in Nat \ {0} /\ Window = 0 .. num_pde_to_map - 1
  BY Zenon, SlotsFit DEF Walks, Window
<1>2. pc = "map" /\ i \in Window /\ cpu \in Cpus /\ UNCHANGED <<opts, host, cpu>>
  BY Zenon DEF MapWindow, Walks, Loops, Between, OverPages, option
<1>3. Setting' /\ Window' = Window /\ \A w \in Window : Table(w)' = Table(w)
  BY Zenon, <1>2 DEF Walks, Setting, Window, num_pde_to_map, Table, Slot
<1>4. CASE Table(i) = "exits"
  <2>1. host.beyond = "exits" /\ pc' = "exit" /\ UNCHANGED <<window, wtlb, old_pgmap_ptes>>
    BY Zenon, <1>4 DEF MapWindow, Table
  <2>2. Loops'
    BY Zenon, <1>2, <2>1 DEF Loops
  <2>3. WindowSteps'
    BY Zenon, <1>2, <1>3, <2>1 DEF WindowSteps, Walks, Uses, Measuring
  <2> QED
    BY Zenon, <1>3, <2>1, <2>2, <2>3 DEF Walks
<1>5. CASE Table(i) # "exits"
  <2>1. /\ window' = [window EXCEPT ![i] = Table(i)]
        /\ wtlb' = WalkedAhead(wtlb, i, window[i])
        /\ old_pgmap_ptes' = [old_pgmap_ptes EXCEPT ![i] = window[i]]
        /\ pc' = Again("map", num_pde_to_map, "mapped") /\ Count(num_pde_to_map)
    BY Zenon, <1>5 DEF MapWindow
  <2>2. i' = (IF i + 1 = num_pde_to_map THEN 0 ELSE i + 1) /\ i' \in Window
    BY Zenon, <1>1, <1>2, <2>1, LoopOn
  <2>3. \A w \in Window : /\ w < i => window[w] = Table(w) /\ old_pgmap_ptes[w] = "own"
                          /\ w >= i => window[w] = "own"
    <3>1. \A w \in Window : window[w] = IF w < i THEN Table(w) ELSE "own"
      BY Zenon, <1>2 DEF Walks, WindowSteps, InWindow, Uses, Measuring
    <3>2. \A w \in Window : w < i => old_pgmap_ptes[w] = "own"
      BY Zenon, <1>2 DEF Walks, WindowSteps
    <3> QED
      BY <1>1, <1>2, <3>1, <3>2
  <2>4. Table(i) \in Seen /\ window[i] = "own"
    BY <1>2, <1>5, <2>3, <1>1 DEF Table, Seen, Walks, Setting
  <2>5. wtlb' \in [Cpus -> [Window -> SUBSET Seen]]
    BY <1>2, <2>1, <2>4 DEF WalkedAhead, Walked, Walks, WindowSteps, Seen
  <2>6. window' \in [Window -> Seen] /\ old_pgmap_ptes' \in [Window -> Seen \cup {None}]
    BY Zenon, <1>2, <2>1, <2>4 DEF Walks, WindowSteps, Seen
  <2>7. \A w \in Window : /\ w <= i => window'[w] = Table(w) /\ old_pgmap_ptes'[w] = "own"
                          /\ w > i => window'[w] = "own"
    BY <1>1, <1>2, <2>1, <2>3, <2>4 DEF Walks, WindowSteps
  <2>8. \/ pc' = "mapped" /\ i' = 0 /\ \A w \in Window : w <= i
        \/ pc' = "map" /\ i' = i + 1
    BY <1>1, <1>2, <2>1, <2>2 DEF Again
  <2>9. Loops'
    BY Zenon, <1>2, <1>3, <2>2, <2>8 DEF Loops, Between
  <2>10. \A w \in Window : window'[w] = InWindow(w)' /\ (pc' = "map" /\ w < i' => old_pgmap_ptes'[w] = "own")
    <3>1. CASE pc' = "mapped" /\ \A w \in Window : w <= i
      <4>1. \A w \in Window : InWindow(w)' = Table(w)
        BY Zenon, <1>3, <3>1 DEF InWindow
      <4> QED
        BY Zenon, <2>7, <3>1, <4>1
    <3>2. CASE pc' = "map" /\ i' = i + 1
      <4>1. \A w \in Window : w < i' <=> w <= i
        BY <1>1, <1>2, <3>2
      <4>2. \A w \in Window : ~(w < i') => w > i
        BY <1>1, <1>2, <3>2
      <4>3. pc' \notin Uses \cup {"mapped", "unmap"}
        BY Zenon, <3>2 DEF Uses, Measuring
      <4>4. \A w \in Window : InWindow(w)' = IF w < i' THEN Table(w) ELSE "own"
        BY Zenon, <1>3, <3>2, <4>3 DEF InWindow
      <4> QED
        BY Zenon, <2>7, <4>1, <4>2, <4>4
    <3> QED
      BY Zenon, <2>8, <3>1, <3>2
  <2>11. pc' \in {"map", "mapped"} /\ (pc' = "mapped" => \A w \in Window : old_pgmap_ptes'[w] = "own")
    BY Zenon, <2>7, <2>8
  <2>12. WindowSteps'
    BY Zenon, <1>3, <2>5, <2>6, <2>10, <2>11 DEF WindowSteps, Uses, Measuring
  <2> QED
    BY Zenon, <1>3, <2>6, <2>9, <2>12 DEF Walks
<1> QED
  BY Zenon, <1>4, <1>5

\* ... and while it is given back.
LEMMA UnmapSteps ==
  ASSUME Walks, UnmapWindow
  PROVE  Walks'
<1>1. num_pde_to_map \in Nat \ {0} /\ Window = 0 .. num_pde_to_map - 1
  BY Zenon, SlotsFit DEF Walks, Window
<1>2. pc = "unmap" /\ i \in Window /\ cpu \in Cpus /\ UNCHANGED <<opts, host, cpu, old_pgmap_ptes>>
  BY Zenon DEF UnmapWindow, Walks, Loops, Between, OverPages, option, saved
<1>3. Setting' /\ Window' = Window /\ \A w \in Window : Table(w)' = Table(w)
  BY Zenon, <1>2 DEF Walks, Setting, Window, num_pde_to_map, Table, Slot
<1>4. /\ window' = [window EXCEPT ![i] = old_pgmap_ptes[i]]
      /\ wtlb' = WalkedAhead(wtlb, i, window[i])
      /\ pc' = Again("unmap", num_pde_to_map, "unmapped") /\ Count(num_pde_to_map)
  BY Zenon DEF UnmapWindow
<1>5. i' = (IF i + 1 = num_pde_to_map THEN 0 ELSE i + 1) /\ i' \in Window
  BY Zenon, <1>1, <1>2, <1>4, LoopOn
<1>6. \A w \in Window : old_pgmap_ptes[w] = "own" /\ window[w] = IF w >= i THEN Table(w) ELSE "own"
  BY Zenon, <1>2 DEF Walks, WindowSteps, InWindow, Uses, Measuring
<1>7. window \in [Window -> Seen] /\ wtlb \in [Cpus -> [Window -> SUBSET Seen]]
  BY Zenon DEF Walks, WindowSteps
<1>8. window' \in [Window -> Seen]
  BY Zenon, <1>2, <1>4, <1>6, <1>7 DEF Seen
<1>9. wtlb' \in [Cpus -> [Window -> SUBSET Seen]]
  BY <1>2, <1>4, <1>7 DEF WalkedAhead, Walked
<1>10. \A w \in Window : window'[w] = IF w >= i + 1 THEN Table(w) ELSE "own"
  <2> SUFFICES ASSUME NEW w \in Window PROVE window'[w] = IF w >= i + 1 THEN Table(w) ELSE "own"
    BY Zenon
  <2>1. window'[w] = IF w = i THEN "own" ELSE window[w]
    BY Zenon, <1>2, <1>4, <1>6, <1>7
  <2> QED
    BY <1>1, <1>2, <1>6, <2>1
<1>11. \/ pc' = "unmapped" /\ i' = 0 /\ \A w \in Window : ~(w >= i + 1)
       \/ pc' = "unmap" /\ i' = i + 1
  BY <1>1, <1>2, <1>4, <1>5 DEF Again
<1>12. Loops'
  BY Zenon, <1>2, <1>3, <1>5, <1>11 DEF Loops, Between
<1>13. pc' \notin Uses \cup {"map", "mapped", "check", "done", "exit"}
  BY Zenon, <1>11 DEF Uses, Measuring
<1>14. \A w \in Window : window'[w] = InWindow(w)'
  <2>1. CASE pc' = "unmapped" /\ \A w \in Window : ~(w >= i + 1)
    <3>1. \A w \in Window : InWindow(w)' = "own"
      BY Zenon, <1>13, <2>1 DEF InWindow
    <3> QED
      BY Zenon, <1>10, <2>1, <3>1
  <2>2. CASE pc' = "unmap" /\ i' = i + 1
    <3>1. \A w \in Window : InWindow(w)' = IF w >= i' THEN Table(w) ELSE "own"
      BY Zenon, <1>3, <1>13, <2>2 DEF InWindow
    <3> QED
      BY Zenon, <1>10, <2>2, <3>1
  <2> QED
    BY Zenon, <1>11, <2>1, <2>2
<1>15. WindowSteps'
  BY Zenon, <1>2, <1>3, <1>6, <1>8, <1>9, <1>13, <1>14 DEF WindowSteps
<1> QED
  BY Zenon, <1>2, <1>3, <1>12, <1>15 DEF Walks

\* The other steps outside of the use of the window.
LEMMA OuterSteps ==
  ASSUME Walks, SanityCheck \/ FlushAt("mapped", "backup") \/ FlushAt("unmapped", "done")
  PROVE  Walks'
<1>1. UNCHANGED <<opts, host, cpu, i, window, old_pgmap_ptes>>
  BY Zenon DEF SanityCheck, FlushAt, option, memory, saved
<1>2. Setting' /\ Window' = Window /\ Page' = Page /\ \A w \in Window : Table(w)' = Table(w)
  BY Zenon, <1>1 DEF Walks, Setting, Window, num_pde_to_map, Table, Slot, Page
<1>3. num_pde_to_map \in Nat \ {0} /\ Window = 0 .. num_pde_to_map - 1
  BY Zenon, SlotsFit DEF Walks, Window
<1>4. 0 \in Page /\ 0 \in Window /\ \A w \in Window : ~(w < 0)
  BY <1>3 DEF Walks, Setting, Page
<1>5. pc \in {"check", "mapped", "unmapped"} /\ i = 0
  BY Zenon DEF SanityCheck, FlushAt, Walks, Loops, Between, OverPages
<1>6. pc \notin Uses \cup {"map", "unmap", "exit"}
  BY Zenon, <1>5 DEF Uses, Measuring
<1>7. \/ pc = "check" /\ pc' \in {"map", "exit"}
      \/ pc = "mapped" /\ pc' = "backup"
      \/ pc = "unmapped" /\ pc' = "done"
  BY Zenon DEF SanityCheck, FlushAt
<1>8. Loops'
  BY Zenon, <1>1, <1>2, <1>4, <1>5, <1>7 DEF Walks, Loops, Between, OverPages
<1>9. \A w \in Window : window[w] = IF pc = "mapped" THEN Table(w) ELSE "own"
  BY Zenon, <1>6 DEF Walks, WindowSteps, InWindow
<1>10. \A w \in Window : InWindow(w)' = IF pc = "mapped" THEN Table(w) ELSE "own"
  <2>1. pc' \in Uses \cup {"mapped"} <=> pc = "mapped"
    BY Zenon, <1>7 DEF Uses, Measuring
  <2>2. pc' # "unmap" /\ \A w \in Window : ~(pc' = "map" /\ w < i')
    BY Zenon, <1>1, <1>4, <1>5, <1>7
  <2> QED
    BY Zenon, <1>2, <2>1, <2>2 DEF InWindow
<1>11. wtlb' \in [Cpus -> [Window -> SUBSET Seen]]
       /\ \A c \in Cpus, w \in Window : wtlb'[c][w] \subseteq {window[w]} \/ pc' = "map"
  <2>1. CASE SanityCheck
    BY Zenon, <2>1 DEF SanityCheck, memory, Walks, WindowSteps
  <2>2. CASE pgmod_flush_tlb
    BY Zenon, <2>2, WtlbFlushed DEF Walks, WtlbGrows
  <2> QED
    BY Zenon, <2>1, <2>2 DEF FlushAt
<1>12. pc = "mapped" => \A w \in Window : old_pgmap_ptes[w] = "own"
  BY Zenon DEF Walks, WindowSteps
<1>13. window \in [Window -> Seen]
  BY Zenon DEF Walks, WindowSteps
<1>14. \A w \in Window :
         /\ window[w] = InWindow(w)'
         /\ pc' \in Uses \cup {"mapped", "unmap"} \/ (pc' = "map" /\ w < i) => old_pgmap_ptes[w] = "own"
         /\ pc' # "map" => \A c \in Cpus : wtlb'[c][w] \subseteq {window[w]}
  <2>1. pc' \in Uses \cup {"mapped", "unmap"} => pc = "mapped"
    BY Zenon, <1>7 DEF Uses, Measuring
  <2> QED
    BY Zenon, <1>4, <1>5, <1>9, <1>10, <1>11, <1>12, <2>1
<1>15. WindowSteps'
  BY Zenon, <1>1, <1>2, <1>7, <1>11, <1>13, <1>14 DEF WindowSteps, Uses, Measuring
<1> QED
  BY Zenon, <1>1, <1>2, <1>8, <1>15 DEF Walks

\* The process is moved.
LEMMA MigrateSteps ==
  ASSUME Walks, Migrate
  PROVE  Walks'
<1>1. UNCHANGED <<opts, host, pc, i, window, old_pgmap_ptes>> /\ cpu' \in Cpus /\ cpu \in Cpus
  BY Zenon DEF Migrate, option, saved, Walks, Loops
<1>2. Setting' /\ Window' = Window /\ Page' = Page /\ \A w \in Window : InWindow(w)' = InWindow(w)
  BY Zenon, <1>1 DEF Walks, Setting, Window, num_pde_to_map, Table, Slot, Page, InWindow
<1>3. Loops'
  BY Zenon, <1>1, <1>2 DEF Walks, Loops
<1>4. WtlbGrows
  <2>1. CASE wtlb' = wtlb
    BY Zenon, <2>1, WtlbSame
  <2>2. CASE wtlb' = [wtlb EXCEPT ![cpu] = [w \in Window |-> @[w] \cup {window[w]}]]
    BY <1>1, <2>2 DEF WtlbGrows, Walks, WindowSteps
  <2> QED
    BY Zenon, <2>1, <2>2 DEF Migrate
<1>5. WindowSteps'
  BY Zenon, <1>1, <1>2, <1>4 DEF Walks, WindowSteps, WtlbGrows
<1> QED
  BY Zenon, <1>1, <1>2, <1>3, <1>5 DEF Walks

\* Only Shuffle changes randindex, and nothing uses it before that is through.
LEMMA ShuffleFrame ==
  ASSUME Walks, ShuffleSteps, UNCHANGED <<opts, randindex>>, pc' \in Shuffled => pc \in Shuffled,
         pc' = "shuffle" => (pc = "shuffle" /\ i' = i) \/ i' = 0
  PROVE  ShuffleSteps'
<1>1. Page' = Page
  BY Zenon DEF Page
<1>2. ASSUME i' = 0 PROVE 0 .. i' - 1 = {}
  BY <1>2
<1> QED
  BY Zenon, <1>1, <1>2 DEF ShuffleSteps

\* The new element is put somewhere, and what was there last.
LEMMA ShuffleOne ==
  ASSUME Walks, ShuffleSteps, Shuffle
  PROVE  ShuffleSteps'
<1> DEFINE N == opts.asize
<1>1. N \in Nat \ {0} /\ Page = 0 .. N - 1
  BY Zenon DEF Walks, Setting, Page
<1>2. pc = "shuffle" /\ i \in Page /\ UNCHANGED opts /\ Count(N) /\ pc' = Again("shuffle", N, "preload")
  BY Zenon DEF Shuffle, Walks, Loops, Between, OverPages, option
<1>3. PICK r \in 0 .. i : randindex' = [[randindex EXCEPT ![i] = randindex[r]] EXCEPT ![r] = i]
  BY Zenon DEF Shuffle
<1>4. /\ randindex \in [Page -> Page \cup {None}]
      /\ \A p \in 0 .. i - 1 : randindex[p] \in 0 .. i - 1
      /\ \A p, q \in 0 .. i - 1 : randindex[p] = randindex[q] => p = q
  BY Zenon, <1>2 DEF ShuffleSteps
<1> HIDE DEF N
<1>5. r \in Page /\ i \in Nat /\ r \in Nat /\ 0 .. i \subseteq Page
  BY <1>1, <1>2
<1>6. randindex' \in [Page -> Page \cup {None}]
  BY Zenon, <1>2, <1>3, <1>4, <1>5
<1>7. \A p \in 0 .. i : randindex'[p] = IF p = r THEN i ELSE IF p = i THEN randindex[r] ELSE randindex[p]
  BY Zenon, <1>2, <1>3, <1>4, <1>5
<1>8. \A p \in 0 .. i : p # r => (IF p = i THEN r ELSE p) \in 0 .. i - 1
  BY <1>5
<1>9. \A p \in 0 .. i : randindex'[p] \in 0 .. i /\ (p # r => randindex'[p] \in 0 .. i - 1)
  <2> SUFFICES ASSUME NEW p \in 0 .. i
               PROVE  randindex'[p] \in 0 .. i /\ (p # r => randindex'[p] \in 0 .. i - 1)
    BY Zenon
  <2>1. CASE p = r
    BY <1>5, <1>7, <2>1
  <2>2. CASE p # r
    <3> DEFINE q == IF p = i THEN r ELSE p
    <3>1. q \in 0 .. i - 1 /\ randindex'[p] = randindex[q]
      BY Zenon, <1>7, <1>8, <2>2
    <3>2. randindex[q] \in 0 .. i - 1
      BY Zenon, <1>4, <3>1
    <3> HIDE DEF q
    <3> QED
      BY <1>5, <2>2, <3>1, <3>2
  <2> QED
    BY Zenon, <2>1, <2>2
<1>10. ASSUME NEW p \in 0 .. i, NEW q \in 0 .. i, randindex'[p] = randindex'[q] PROVE p = q
  <2>1. CASE p = r \/ q = r
    <3>1. randindex'[r] = i
      BY Zenon, <1>7
    <3>2. \A m \in 0 .. i : m # r => randindex'[m] # i
      BY <1>5, <1>9
    <3> QED
      BY Zenon, <1>10, <2>1, <3>1, <3>2
  <2>2. CASE p # r /\ q # r
    <3> DEFINE P == IF p = i THEN r ELSE p
               Q == IF q = i THEN r ELSE q
    <3>1. P \in 0 .. i - 1 /\ Q \in 0 .. i - 1
      BY Zenon, <1>8, <2>2
    <3>2. randindex'[p] = randindex[P] /\ randindex'[q] = randindex[Q]
      BY Zenon, <1>7, <2>2
    <3>3. P = Q
      BY Zenon, <1>4, <1>10, <3>1, <3>2
    <3> QED
      BY Zenon, <2>2, <3>3
  <2> QED
    BY Zenon, <2>1, <2>2
<1>11. i' = IF i + 1 = N THEN 0 ELSE i + 1
  BY Zenon, <1>1, <1>2, LoopOn
<1>12. \/ pc' = "shuffle" /\ i' - 1 = i
       \/ pc' = "preload" /\ Page = 0 .. i
  BY <1>1, <1>2, <1>5, <1>11 DEF Again
<1>13. Page' = Page
  BY Zenon, <1>2 DEF Page
<1>14. CASE pc' = "shuffle" /\ i' - 1 = i
  BY Zenon, <1>6, <1>9, <1>10, <1>13, <1>14 DEF ShuffleSteps, Shuffled, Measuring
<1>15. CASE pc' = "preload" /\ Page = 0 .. i
  BY Zenon, <1>6, <1>9, <1>10, <1>13, <1>15 DEF ShuffleSteps
<1> QED
  BY Zenon, <1>12, <1>14, <1>15

\* The window and the shuffle together.
LEMMA WalksNext == Walks /\ ShuffleSteps /\ [Next]_vars => (Walks /\ ShuffleSteps)'
<1> SUFFICES ASSUME Walks, ShuffleSteps, [Next]_vars PROVE Walks' /\ ShuffleSteps'
  BY Zenon
<1>1. Walks'
  <2>1. CASE Main /\ pc \in Uses
    BY Zenon, <2>1, UseSteps, UseStepKeeps
  <2>2. CASE Main /\ pc \notin Uses
    <3>1. MapWindow \/ UnmapWindow \/ SanityCheck \/ FlushAt("mapped", "backup")
          \/ FlushAt("unmapped", "done")
      BY Zenon, <2>2 DEF Main, Backup, Fill, Shuffle, Preload, FlushAt, Touch, NoPreload, InitPtes, BeginPass,
           GoOn, Store2, Load2, Store1, Load1, EndPass, Restore, Uses, Measuring
    <3> QED
      BY Zenon, <3>1, MapSteps, UnmapSteps, OuterSteps
  <2>3. CASE Migrate
    BY Zenon, <2>3, MigrateSteps
  <2>4. CASE UNCHANGED vars
    <3>1. UNCHANGED <<opts, host, pc, i, cpu, window, wtlb, old_pgmap_ptes>>
      BY Zenon, <2>4 DEF vars, option, memory, saved
    <3>2. Setting' /\ Window' = Window /\ Page' = Page /\ \A w \in Window : InWindow(w)' = InWindow(w)
      BY Zenon, <3>1 DEF Walks, Setting, Window, num_pde_to_map, Table, Slot, Page, InWindow
    <3> QED
      BY Zenon, <3>1, <3>2 DEF Walks, Loops, WindowSteps
  <2> QED
    BY Zenon, <2>1, <2>2, <2>3, <2>4 DEF Next
<1>2. ShuffleSteps'
  <2>1. CASE Shuffle
    BY Zenon, <2>1, ShuffleOne
  <2>2. CASE Fill
    BY Zenon, <2>2, ShuffleFrame DEF Fill, option, saved, Walks, Loops, Between, OverPages, Shuffled, Measuring
  <2>3. ASSUME UNCHANGED <<opts, randindex>>, pc' \notin Shuffled \cup {"shuffle"} PROVE ShuffleSteps'
    BY Zenon, <2>3, ShuffleFrame
  <2>4. ASSUME UNCHANGED <<opts, randindex>>, pc \in Shuffled, pc' # "shuffle" PROVE ShuffleSteps'
    BY Zenon, <2>4, ShuffleFrame
  <2>5. CASE SanityCheck \/ MapWindow \/ FlushAt("mapped", "backup") \/ Backup
             \/ FlushAt("measured", "restore") \/ Restore \/ UnmapWindow \/ FlushAt("unmapped", "done")
    BY Zenon, <2>3, <2>5 DEF SanityCheck, MapWindow, FlushAt, Backup, Restore, Store, UnmapWindow, Again, option,
         saved, Shuffled, Measuring
  <2>6. CASE Preload \/ FlushAt("preloaded", "touch") \/ Touch \/ NoPreload \/ InitPtes \/ BeginPass
    BY Zenon, <2>4, <2>6 DEF Preload, FlushAt, Touch, NoPreload, InitPtes, BeginPass, GoOn, Store, Again, option,
         saved, Shuffled, Measuring
  <2>7. CASE Store2 \/ Load2 \/ Store1 \/ Load1 \/ EndPass
    <3>1. pc \in Shuffled /\ UNCHANGED <<opts, randindex>>
      BY Zenon, <2>7 DEF Store2, Load2, Store1, Load1, EndPass, Store, option, saved, Shuffled, Measuring
    <3>2. CASE Store2 \/ Store1
      <4>1. pc' # "shuffle"
        BY Zenon, <3>2 DEF Store2, Store1, Tinker, Store
      <4> QED
        BY Zenon, <2>4, <3>1, <4>1
    <3>3. CASE Load2 \/ Load1 \/ EndPass
      <4>1. pc' # "shuffle"
        BY Zenon, <3>3 DEF Load2, Load1, EndPass, Again
      <4> QED
        BY Zenon, <2>4, <3>1, <4>1
    <3> QED
      BY Zenon, <2>7, <3>2, <3>3
  <2>8. CASE Migrate \/ UNCHANGED vars
    BY Zenon, <2>8, ShuffleFrame DEF Migrate, vars, option, saved
  <2> QED
    BY Zenon, <2>1, <2>2, <2>5, <2>6, <2>7, <2>8 DEF Next, Main
<1> QED
  BY Zenon, <1>1, <1>2

\* They hold in the beginning.
LEMMA WalksInit == Init => Walks /\ ShuffleSteps
<1> SUFFICES ASSUME Init PROVE Walks /\ ShuffleSteps
  BY Zenon
<1>1. Setting
  BY Zenon, PageWalkAssumption DEF Init, Setting
<1>2. Loops
  BY Zenon DEF Init, Loops, Between
<1>3. window \in [Window -> Seen] /\ wtlb \in [Cpus -> [Window -> SUBSET Seen]]
      /\ old_pgmap_ptes \in [Window -> Seen \cup {None}]
  BY Zenon DEF Init, Seen, NoEntries
<1>4. \A w \in Window : InWindow(w) = "own" /\ window[w] = "own" /\ \A c \in Cpus : wtlb[c][w] = {}
  BY Zenon DEF Init, InWindow, NoEntries, Uses, Measuring
<1>5. WindowSteps
  BY Zenon, <1>3, <1>4 DEF Init, WindowSteps, Uses, Measuring
<1>6. ShuffleSteps
  BY Zenon DEF Init, ShuffleSteps, Shuffled, Measuring
<1> QED
  BY Zenon, <1>1, <1>2, <1>3, <1>5, <1>6 DEF Walks

-----------------------------------------------------------------------------
(***************************************************************************)
(* The page tables of bigbuf.                                              *)
(***************************************************************************)

\* The TLBs learn only what the entries are.
TlbGrows ==
  /\ tlb' \in [Cpus -> [Page -> SUBSET Page]]
  /\ \A c \in Cpus, p \in Page : tlb'[c][p] \subseteq tlb[c][p] \cup {pte[p]}
Flushed == \A c \in Cpus, p \in Page : tlb'[c][p] = {}

\* A walk ...
LEMMA TlbWalk ==
  ASSUME Walks, TableTypes, NEW p \in Page, NEW f \in {pte[p]} \cup tlb[cpu][p], tlb' = Walked(tlb, p, f)
  PROVE  TlbGrows
BY DEF Walks, Loops, TableTypes, Walked, TlbGrows

\* ... one ahead ...
LEMMA TlbAhead ==
  ASSUME Walks, TableTypes, NEW p \in Page, tlb' = WalkedAhead(tlb, p, pte[p])
  PROVE  TlbGrows
<1>1. CASE host.speculates
  BY Zenon, <1>1, TlbWalk DEF WalkedAhead
<1>2. CASE ~host.speculates
  BY Zenon, <1>2 DEF WalkedAhead, TlbGrows, TableTypes
<1> QED
  BY Zenon, <1>1, <1>2

\* ... and a flush.
LEMMA TlbFlushed ==
  ASSUME pgmod_flush_tlb
  PROVE  TlbGrows /\ Flushed
BY Zenon DEF pgmod_flush_tlb, NoEntries, TlbGrows, Flushed

\* What a step has to keep.
LEMMA TablesFrame ==
  ASSUME Tables, UNCHANGED opts, TableTypes', TlbGrows,
         pc' \in {"preloaded", "touch"} => opts.preload # 0,
         \A p \in Page : Original(p)' => pte'[p] = p,
         \A p \in Page : IsSaved(p)' => old_pagetable'[p] = p,
         \A p \in Page : IsTwo(p)' => pte'[p] \in {0, 1},
         pc' \in Untouched => pc \in Untouched \/ Flushed,
         TlbIsTwo' => TlbIsTwo \/ Flushed
  PROVE  Tables'
<1>1. Page' = Page
  BY Zenon DEF Page
<1>2. ASSUME NEW p \in Page, NEW c \in Cpus, pc' \in Untouched PROVE tlb'[c][p] \subseteq {p}
  <2>1. CASE pc \in Untouched
    BY Zenon, <2>1 DEF Tables, TableSteps, Original, TlbGrows
  <2>2. CASE Flushed
    BY Zenon, <2>2 DEF Flushed
  <2> QED
    BY Zenon, <1>2, <2>1, <2>2
<1>3. ASSUME NEW p \in Page, NEW c \in Cpus, TlbIsTwo' PROVE tlb'[c][p] \subseteq {0, 1}
  <2>1. CASE TlbIsTwo
    <3>1. IsTwo(p)
      BY Zenon, <2>1 DEF IsTwo, TlbIsTwo
    <3> QED
      BY <2>1, <3>1 DEF Tables, TableSteps, TlbGrows
  <2>2. CASE Flushed
    BY Zenon, <2>2 DEF Flushed
  <2> QED
    BY Zenon, <1>3, <2>1, <2>2
<1>4. TableSteps'
  BY Zenon, <1>1, <1>2, <1>3 DEF TableSteps
<1> QED
  BY Zenon, <1>4 DEF Tables

\* A step that leaves the entries alone, and goes to where no more is known of them.
LEMMA TablesSame ==
  ASSUME Walks, Tables, UNCHANGED <<opts, pte, old_pagetable>>, TlbGrows,
         pc' \in {"preloaded", "touch"} => opts.preload # 0,
         \A p \in Page : (Original(p)' => Original(p)) /\ (IsSaved(p)' => IsSaved(p)) /\ (IsTwo(p)' => IsTwo(p)),
         pc' \in Untouched => pc \in Untouched \/ Flushed,
         TlbIsTwo' => TlbIsTwo \/ Flushed
  PROVE  Tables'
<1>1. Page' = Page
  BY Zenon DEF Page
<1>2. TableTypes'
  BY Zenon, <1>1 DEF Tables, TableTypes, TlbGrows
<1>3. /\ \A p \in Page : Original(p)' => pte'[p] = p
      /\ \A p \in Page : IsSaved(p)' => old_pagetable'[p] = p
      /\ \A p \in Page : IsTwo(p)' => pte'[p] \in {0, 1}
  BY Zenon DEF Tables, TableSteps
<1> QED
  BY Zenon, <1>2, <1>3, TablesFrame

\* The steps that store to no entry.
LEMMA TablesKept ==
  ASSUME Walks, ShuffleSteps, Tables, [Next]_vars,
         ~(Backup \/ Preload \/ InitPtes \/ Store2 \/ Store1 \/ Restore)
  PROVE  Tables'
<1> USE DEF option, saved, memory
<1>1. Page = 0 .. opts.asize - 1 /\ \A p \in Page : p \in Nat /\ ~(p < 0)
  BY DEF Walks, Setting, Page
<1>2. pc \in OverPages => i \in Page
  BY Zenon DEF Walks, Loops, OverPages, Between
<1>3. pc \in Between => i = 0
  BY Zenon DEF Walks, Loops, OverPages, Between
<1>4. tlb' = tlb => TlbGrows
  BY Zenon DEF TlbGrows, Tables, TableTypes
<1> USE DEF Original, IsSaved, IsTwo, TlbIsTwo, Untouched, Saved, Uses, Measuring
<1>5. CASE SanityCheck \/ MapWindow \/ UnmapWindow
  BY Zenon, <1>4, <1>5, TablesSame DEF SanityCheck, MapWindow, UnmapWindow, Again
<1>6. CASE FlushAt("mapped", "backup")
  BY Zenon, <1>1, <1>3, <1>6, TlbFlushed, TablesSame DEF FlushAt, Between
<1>7. CASE FlushAt("preloaded", "touch")
  <2>1. opts.preload # 0
    BY Zenon, <1>7 DEF FlushAt, Tables, TableSteps
  <2> QED
    BY Zenon, <1>7, <2>1, TlbFlushed, TablesSame DEF FlushAt
<1>8. CASE FlushAt("measured", "restore")
  BY Zenon, <1>1, <1>3, <1>8, TlbFlushed, TablesSame DEF FlushAt, Between
<1>9. CASE FlushAt("unmapped", "done")
  BY Zenon, <1>9, TlbFlushed, TablesSame DEF FlushAt
<1>10. CASE NoPreload
  BY Zenon, <1>10, TlbFlushed, TablesSame DEF FlushAt, NoPreload
<1>11. CASE Fill
  <2>1. TlbGrows
    <3>1. 0 \in Page /\ 1 \in Page /\ cpu \in Cpus
      BY DEF Walks, Setting, Page, Loops
    <3> DEFINE t == Walked(tlb, 0, pte[0])
    <3>2. t \in [Cpus -> [Page -> SUBSET Page]]
          /\ \A c \in Cpus, p \in Page : t[c][p] \subseteq tlb[c][p] \cup {pte[p]}
      BY <3>1 DEF Walked, Tables, TableTypes
    <3>3. tlb' = Walked(t, 1, pte[1]) /\ pte[1] \in Page
      BY Zenon, <1>11, <3>1 DEF Fill, Tables, TableTypes
    <3> HIDE DEF t
    <3>4. tlb' \in [Cpus -> [Page -> SUBSET Page]]
          /\ \A c \in Cpus, p \in Page : tlb'[c][p] \subseteq t[c][p] \cup {pte[p]}
      BY <3>1, <3>2, <3>3 DEF Walked
    <3> QED
      BY Zenon, <3>2, <3>4 DEF TlbGrows
  <2> QED
    BY Zenon, <1>1, <1>11, <2>1, TablesSame DEF Fill
<1>12. CASE Shuffle
  <2>1. i' = IF i + 1 = opts.asize THEN 0 ELSE i + 1
    BY Zenon, <1>1, <1>2, <1>12, LoopOn DEF Shuffle, OverPages, Walks, Setting
  <2> QED
    BY Zenon, <1>1, <1>4, <1>12, <2>1, TablesSame DEF Shuffle, Again
<1>13. ASSUME NEW q \in Page, Load(q) PROVE TlbGrows
  BY Zenon, <1>13, TlbWalk DEF Load, Finds, Tables
<1>14. pc \in {"touch", "load1", "load2"} => randindex[i] \in Page
  BY Zenon, <1>2 DEF ShuffleSteps, Shuffled, OverPages
<1>15. CASE Touch
  <2>1. opts.preload # 0
    BY Zenon, <1>15 DEF Touch, Tables, TableSteps
  <2>2. TlbGrows
    BY Zenon, <1>13, <1>14, <1>15 DEF Touch
  <2> QED
    BY Zenon, <1>15, <2>1, <2>2, TablesSame DEF Touch, Again
<1>16. CASE BeginPass
  <2>1. CASE FlushAt("pass", "store2")
    BY Zenon, <2>1, TlbFlushed, TablesSame DEF FlushAt
  <2>2. CASE GoOn("pass", IF opts.mode = 0 THEN "store2" ELSE "store1") /\ ~(opts.mode = 0 /\ opts.preload = 0)
    BY Zenon, <1>4, <2>2, TablesSame DEF GoOn
  <2> QED
    BY Zenon, <1>16, <2>1, <2>2 DEF BeginPass
<1>17. CASE Load2 \/ Load1
  <2>1. TlbGrows
    BY Zenon, <1>13, <1>14, <1>17 DEF Load2, Load1, p_this
  <2> QED
    BY Zenon, <1>17, <2>1, TablesSame DEF Load2, Load1, Again
<1>18. CASE EndPass
  BY Zenon, <1>4, <1>18, TablesSame DEF EndPass
<1>19. CASE Migrate
  <2>1. TlbGrows
    <3>1. CASE tlb' = tlb
      BY Zenon, <1>4, <3>1
    <3>2. CASE tlb' = [tlb EXCEPT ![cpu] = [p \in Page |-> @[p] \cup {pte[p]}]]
      BY <3>2 DEF TlbGrows, Tables, TableTypes, Walks, Loops
    <3> QED
      BY Zenon, <1>19, <3>1, <3>2 DEF Migrate
  <2>2. UNCHANGED <<opts, pc, i, pte, old_pagetable>>
    BY Zenon, <1>19 DEF Migrate
  <2>3. pc' \in {"preloaded", "touch"} => opts.preload # 0
    BY Zenon, <2>2 DEF Tables, TableSteps
  <2> QED
    BY Zenon, <2>1, <2>2, <2>3, TablesSame
<1>20. CASE UNCHANGED vars
  <2>1. UNCHANGED <<opts, pc, i, pte, old_pagetable, tlb>>
    BY Zenon, <1>20 DEF vars
  <2>2. pc' \in {"preloaded", "touch"} => opts.preload # 0
    BY Zenon, <2>1 DEF Tables, TableSteps
  <2> QED
    BY Zenon, <1>4, <2>1, <2>2, TablesSame
<1> QED
  BY Zenon, <1>5, <1>6, <1>7, <1>8, <1>9, <1>10, <1>11, <1>12, <1>15, <1>16, <1>17, <1>18, <1>19, <1>20
     DEF Next, Main

\* The entries that are stored are those of the first two pages, and in the end
\* each page's own.
LEMMA TablesStored ==
  ASSUME Walks, ShuffleSteps, Tables, Preload \/ InitPtes \/ Store2 \/ Store1 \/ Restore
  PROVE  Tables'
<1>1. Page = 0 .. opts.asize - 1 /\ opts.asize \in Nat \ {0, 1} /\ 0 \in Page /\ 1 \in Page
  BY DEF Walks, Setting, Page
<1>2. UNCHANGED <<opts, old_pagetable>> /\ pc \in Uses /\ pc \in OverPages /\ i \in Page /\ pc \in Saved
      /\ pc \notin Untouched
  <2>1. UNCHANGED <<opts, old_pagetable>> /\ pc \in {"preload", "init", "store2", "store1", "restore"}
    BY Zenon DEF Preload, InitPtes, Store2, Store1, Restore, option, saved
  <2> QED
    BY Zenon, <2>1 DEF Walks, Loops, OverPages, Between, Uses, Measuring, Saved, Untouched
<1>3. map_pte1 = 0 /\ map_pte2 = 1 /\ old_pagetable[i] = i
  BY Zenon, <1>1, <1>2 DEF Tables, TableSteps, IsSaved, map_pte1, map_pte2
<1>4. Page' = Page
  BY Zenon, <1>2 DEF Page
<1>5. ASSUME NEW q \in Page, NEW f \in Page, NEW l, Store(q, f, l),
             \A p \in Page : Original(p)' => IF p = q THEN f = p ELSE Original(p),
             \A p \in Page : IsTwo(p)' => IF p = q THEN f \in {0, 1} ELSE IsTwo(p),
             l \notin Untouched, l \in {"preloaded", "touch"} => opts.preload # 0,
             TlbIsTwo' => TlbIsTwo
      PROVE  Tables'
  <2>1. pte' = [pte EXCEPT ![q] = f] /\ tlb' = WalkedAhead(tlb, q, pte[q]) /\ pc' = l
    BY Zenon, <1>2, <1>5, StoreIs
  <2>2. TlbGrows
    BY Zenon, <1>5, <2>1, TlbAhead DEF Tables
  <2>3. pte' \in [Page -> Page] /\ \A p \in Page : pte'[p] = IF p = q THEN f ELSE pte[p]
    BY Zenon, <1>5, <2>1 DEF Tables, TableTypes
  <2>4. TableTypes'
    BY Zenon, <1>2, <1>4, <2>2, <2>3 DEF TableTypes, Tables, TlbGrows
  <2>5. \A p \in Page : old_pagetable'[p] = p
    BY Zenon, <1>2 DEF Tables, TableSteps, IsSaved
  <2>6. \A p \in Page : Original(p)' => pte'[p] = p
    BY Zenon, <1>5, <2>3 DEF Tables, TableSteps
  <2>7. \A p \in Page : IsTwo(p)' => pte'[p] \in {0, 1}
    BY Zenon, <1>5, <2>3 DEF Tables, TableSteps
  <2> QED
    BY Zenon, <1>2, <1>5, <2>1, <2>2, <2>4, <2>5, <2>6, <2>7, TablesFrame
<1>6. ASSUME Count(opts.asize)
      PROVE  /\ i' = IF i + 1 = opts.asize THEN 0 ELSE i + 1
             /\ \A p \in Page : p < i + 1 => p = i \/ p < i
             /\ i + 1 = opts.asize => \A p \in Page : p = i \/ p < i
  BY <1>1, <1>2, <1>6, LoopOn
<1> USE DEF Original, IsTwo, TlbIsTwo, Untouched, Measuring
<1>7. CASE Preload
  <2> DEFINE f == IF opts.preload = 1 THEN map_pte1 ELSE map_pte2
             l == Again("preload", opts.asize, "preloaded")
  <2>1. pc = "preload" /\ Store(i, f, l) /\ f \in {0, 1} /\ f \in Page /\ opts.preload # 0
        /\ Count(opts.asize)
    BY Zenon, <1>1, <1>3, <1>7 DEF Preload
  <2>2. pc' = l
    BY Zenon, <1>2, <2>1, StoreIs
  <2> HIDE DEF f
  <2> QED
    BY Zenon, <1>2, <1>5, <1>6, <2>1, <2>2 DEF Again
<1>8. CASE InitPtes
  <2> DEFINE l == Again("init", opts.asize, "pass")
  <2>1. pc = "init" /\ Store(i, 0, l) /\ Count(opts.asize)
    BY Zenon, <1>3, <1>8 DEF InitPtes
  <2>2. pc' = l
    BY Zenon, <1>1, <1>2, <2>1, StoreIs
  <2> QED
    BY SMTT(30), <1>1, <1>2, <1>5, <1>6, <2>1, <2>2 DEF Again
<1>9. CASE Restore
  <2> DEFINE l == Again("restore", opts.asize, "unmap")
  <2>1. pc = "restore" /\ Store(i, i, l) /\ Count(opts.asize)
    BY Zenon, <1>3, <1>9 DEF Restore
  <2>2. pc' = l
    BY Zenon, <1>1, <1>2, <2>1, StoreIs
  <2> QED
    BY <1>1, <1>2, <1>5, <1>6, <2>1, <2>2 DEF Again
<1>10. CASE Store2 \/ Store1
  <2>1. PICK f \in {0, 1}, l \in {"load1", "load2"} : Tinker(p_this, f, l)
    BY Zenon, <1>3, <1>10 DEF Store2, Store1
  <2>2. pc \in {"store2", "store1"} /\ p_this \in Page
    BY Zenon, <1>2, <1>10 DEF Store2, Store1, p_this, ShuffleSteps, Shuffled
  <2>3. f \in Page
    BY Zenon, <1>1
  <2>5. CASE opts.dont_remap
    BY Zenon, <1>2, <2>1, <2>2, <2>5, TablesSame DEF Tinker, TlbGrows, Tables, TableTypes, IsSaved
  <2>6. CASE ~opts.dont_remap
    <3>1. Store(p_this, f, l)
      BY Zenon, <2>1, <2>6 DEF Tinker
    <3>2. pc' = l
      BY Zenon, <1>2, <2>2, <3>1, StoreIs
    <3> QED
      BY Zenon, <1>2, <1>5, <2>2, <2>3, <3>1, <3>2
  <2> QED
    BY Zenon, <2>5, <2>6
<1> QED
  BY Zenon, <1>7, <1>8, <1>9, <1>10

\* What is saved is what the window shows, each page's own entry.
LEMMA TablesBackup ==
  ASSUME Walks, Tables, Backup
  PROVE  Tables'
<1>1. Page = 0 .. opts.asize - 1 /\ opts.asize \in Nat \ {0, 1}
  BY Zenon DEF Walks, Setting, Page
<1>2. UNCHANGED <<opts, pte, tlb>> /\ pc = "backup" /\ i \in Page /\ Count(opts.asize)
  BY Zenon DEF Backup, option, Walks, Loops, OverPages, Between
<1>3. pc \in Uses /\ pc \in Untouched
  BY Zenon, <1>2 DEF Uses, Untouched
<1>4. PICK v \in Sees(i) :
        /\ old_pagetable' = [old_pagetable EXCEPT ![i] = IF v = "table" THEN pte[i] ELSE None]
        /\ pc' = IF Lost(v) THEN "killed" ELSE Again("backup", opts.asize, "fill")
  BY Zenon DEF Backup
<1>5. v = "table"
  BY <1>2, <1>3, <1>4, SeesTable
<1>6. old_pagetable' = [old_pagetable EXCEPT ![i] = pte[i]] /\ pc' = Again("backup", opts.asize, "fill")
  BY Zenon, <1>4, <1>5 DEF Lost
<1>7. \A p \in Page : pte[p] = p
  BY Zenon, <1>3 DEF Tables, TableSteps, Original
<1>8. old_pagetable' \in [Page -> Page \cup {None}]
      /\ \A p \in Page : old_pagetable'[p] = IF p = i THEN p ELSE old_pagetable[p]
  BY Zenon, <1>2, <1>6, <1>7 DEF Tables, TableTypes
<1>9. Page' = Page
  BY Zenon, <1>2 DEF Page
<1>10. TableTypes' /\ TlbGrows
  BY Zenon, <1>2, <1>8, <1>9 DEF Tables, TableTypes, TlbGrows
<1>11. /\ i' = IF i + 1 = opts.asize THEN 0 ELSE i + 1
       /\ \A p \in Page : p < i + 1 => p = i \/ p < i
       /\ i + 1 = opts.asize => \A p \in Page : p = i \/ p < i
  BY <1>1, <1>2, LoopOn
<1>12. \A p \in Page : p = i \/ p < i => old_pagetable'[p] = p
  BY Zenon, <1>2, <1>8 DEF Tables, TableSteps, IsSaved
<1>13. \A p \in Page : IsSaved(p)' => old_pagetable'[p] = p
  BY Zenon, <1>6, <1>11, <1>12 DEF IsSaved, Saved, Again
<1>14. pc' \in {"backup", "fill"}
  BY Zenon, <1>6 DEF Again
<1> QED
  BY Zenon, <1>2, <1>3, <1>7, <1>10, <1>13, <1>14, TablesFrame DEF IsTwo, TlbIsTwo, Measuring

\* All together ...
LEMMA TablesNext == Walks /\ ShuffleSteps /\ Tables /\ [Next]_vars => Tables'
BY Zenon, TablesKept, TablesStored, TablesBackup

\* ... from the start.
LEMMA TablesInit == Init => Tables
<1> SUFFICES ASSUME Init PROVE Tables
  BY Zenon
<1>1. TableTypes
  BY Zenon DEF Init, TableTypes, NoEntries
<1>2. TableSteps
  BY Zenon DEF Init, TableSteps, NoEntries, IsSaved, Saved, Uses, Measuring, IsTwo, TlbIsTwo
<1> QED
  BY Zenon, <1>1, <1>2 DEF Tables

\* The page tables are as they were when the process is over, and no TLB has an
\* entry of the measurement any more, for any number of pages and processors and
\* wherever bigbuf begins in its first table; except where translate exits while
\* the window is half mapped.  On the way no store to an entry is lost, and none
\* is to the memory of another mapping, which would kill the process: the window
\* of num_pde_to_map tables is large enough (main, from change_pte to cleanup).
THEOREM RestoreCorrect == Spec => []TablesRestored
<1>1. Walks /\ Tables => TablesRestored
  <2> SUFFICES ASSUME Walks, Tables PROVE TablesRestored
    BY Zenon
  <2>1. pc # "killed"
    BY Zenon DEF Walks, Loops, Between, OverPages
  <2>2. ASSUME Ended, ~(pc = "exit" /\ host.beyond = "exits")
        PROVE  /\ pte = [p \in Page |-> p] /\ window = [w \in Window |-> "own"]
               /\ \A c \in Cpus : /\ \A p \in Page : tlb[c][p] \subseteq {p}
                                  /\ \A w \in Window : wtlb[c][w] \subseteq {"own"}
    <3>1. pc \in {"done", "exit"} /\ pc \in Untouched
      BY Zenon, <2>1, <2>2 DEF Ended, Untouched
    <3>2. \A p \in Page : pte[p] = p /\ \A c \in Cpus : tlb[c][p] \subseteq {p}
      BY Zenon, <3>1 DEF Tables, TableSteps, Original
    <3>3. pte = [p \in Page |-> p]
      BY Zenon, <3>2 DEF Tables, TableTypes
    <3>4. \A w \in Window : window[w] = "own" /\ \A c \in Cpus : wtlb[c][w] \subseteq {window[w]}
      BY Zenon, <2>2, <3>1 DEF Walks, WindowSteps, InWindow, Uses, Measuring, Setting
    <3>5. window = [w \in Window |-> "own"]
      BY Zenon, <3>4 DEF Walks, WindowSteps
    <3> QED
      BY Zenon, <3>2, <3>3, <3>4, <3>5
  <2> QED
    BY Zenon, <2>1, <2>2 DEF TablesRestored
<1> QED
  BY <1>1, WalksInit, WalksNext, TablesInit, TablesNext, PTL DEF Spec

-----------------------------------------------------------------------------
(***************************************************************************)
(* What is read.                                                           *)
(***************************************************************************)

\* A page that is read where its value matters is the first or the second.
LEMMA LoadsTwo ==
  ASSUME Walks, ShuffleSteps, Tables, pc \in {"touch", "load1", "load2"}, pc = "touch" \/ opts.mode = 0,
         Load(randindex[i])
  PROVE  n' \in {1, 2}
<1>1. randindex[i] \in Page /\ cpu \in Cpus
  BY Zenon DEF Walks, Loops, Between, OverPages, ShuffleSteps, Shuffled, Measuring
<1>2. TlbIsTwo /\ IsTwo(randindex[i])
  BY Zenon DEF TlbIsTwo, IsTwo, Measuring
<1>3. pte[randindex[i]] \in {0, 1} /\ tlb[cpu][randindex[i]] \subseteq {0, 1}
  BY Zenon, <1>1, <1>2 DEF Tables, TableSteps
<1>4. PICK f \in Finds(randindex[i]) : n' = Content(f)
  BY Zenon DEF Load
<1>5. f \in {0, 1}
  BY Zenon, <1>3, <1>4 DEF Finds
<1> QED
  BY Zenon, <1>4, <1>5 DEF Content

\* So it stays.
LEMMA ReadStepsNext ==
  ASSUME Walks, ShuffleSteps, Tables, ReadSteps, [Next]_vars
  PROVE  ReadSteps'
<1> DEFINE Late == Measuring \cup {"measured", "restore", "unmap", "unmapped", "done"}
<1> USE DEF option, saved, memory, result
<1>1. CASE Touch
  <2>1. n' \in {1, 2}
    BY Zenon, <1>1, LoadsTwo DEF Touch
  <2> QED
    BY Zenon, <2>1 DEF ReadSteps
<1>2. CASE Load2 \/ Load1
  <2>1. pc \in {"load1", "load2"} /\ UNCHANGED opts /\ Load(randindex[i])
    BY Zenon, <1>2 DEF Load2, Load1, p_this
  <2>2. pc' \in Measuring
    BY Zenon, <1>2 DEF Load2, Load1, Again, Measuring
  <2>3. opts.mode = 0 => n' \in {1, 2}
    BY Zenon, <2>1, LoadsTwo
  <2> QED
    BY Zenon, <2>1, <2>2, <2>3 DEF ReadSteps
<1>3. ASSUME UNCHANGED <<opts, n>>, pc' \notin Late => pc \notin Late PROVE ReadSteps'
  BY Zenon, <1>3 DEF ReadSteps
<1>4. CASE Migrate \/ UNCHANGED vars
  BY Zenon, <1>3, <1>4 DEF Migrate, vars
<1>5. CASE SanityCheck \/ MapWindow \/ FlushAt("mapped", "backup") \/ Backup \/ Fill \/ Shuffle
           \/ Preload \/ FlushAt("preloaded", "touch") \/ NoPreload \/ InitPtes
  BY ZenonT(30), <1>3, <1>5 DEF SanityCheck, MapWindow, FlushAt, Backup, Fill, Shuffle, Preload, NoPreload, InitPtes,
       Measuring
<1>6. CASE BeginPass \/ EndPass \/ FlushAt("measured", "restore") \/ UnmapWindow
           \/ FlushAt("unmapped", "done")
  BY Zenon, <1>3, <1>6 DEF BeginPass, GoOn, FlushAt, EndPass, UnmapWindow, Again, Measuring
<1>7. CASE Store2 \/ Store1 \/ Restore
  <2>1. pc \in Uses /\ UNCHANGED <<opts, n>>
    BY Zenon, <1>7 DEF Store2, Store1, Restore, Uses, Measuring
  <2>2. i \in Page /\ (pc \in {"store2", "store1"} => p_this \in Page)
    BY Zenon, <1>7 DEF Store2, Store1, Restore, Walks, Loops, Between, OverPages, ShuffleSteps, Shuffled, Measuring,
         p_this
  <2>3. pc' \in Late
    BY Zenon, <1>7, <2>1, <2>2, StoreIs DEF Store2, Store1, Restore, Tinker, Again, Measuring
  <2> QED
    BY Zenon, <1>3, <2>1, <2>3
<1> QED
  BY Zenon, <1>1, <1>2, <1>4, <1>5, <1>6, <1>7 DEF Next, Main

\* n, with which the counts are indexed, is always 1 or 2 where the program says
\* so, although the process is moved between processors that may walk ahead at any
\* time and the TLBs are flushed but now and then: no entry from before the first
\* stores is used in the measurement.
THEOREM OneOrTwoCorrect == Spec => []OneOrTwo
<1>1. Init => ReadSteps
  BY Zenon DEF Init, ReadSteps
<1>2. ReadSteps => OneOrTwo
  BY Zenon DEF ReadSteps, OneOrTwo, Measuring
<1> QED
  BY <1>1, <1>2, WalksInit, WalksNext, TablesInit, TablesNext, ReadStepsNext, PTL DEF Spec

-----------------------------------------------------------------------------
(***************************************************************************)
(* What is counted.                                                        *)
(***************************************************************************)

\* Where the program goes from a step that counts nothing.
LEMMA CountFrame ==
  ASSUME CountSteps, UNCHANGED <<opts, j, k, lcounts, counts>>, pc' \in Measured <=> pc \in Measured,
         \/ pc' \notin Measuring /\ (pc \notin Measuring \/ pc = "pass")
         \/ pc' = pc /\ i' = i
         \/ pc' = "pass" /\ pc \notin Measuring
         \/ pc = "pass" /\ pc' = "store2" /\ i' = 0 /\ opts.mode = 0
         \/ pc = "pass" /\ pc' = "store1" /\ opts.mode # 0
         \/ pc = "store2" /\ pc' = "load2" /\ i' = i
         \/ pc = "store1" /\ pc' = "load1" /\ i' = i
  PROVE  CountSteps'
<1>1. inner_its' = inner_its
  BY Zenon DEF inner_its
<1>2. pc = "pass" => Row(lcounts, 0, 0)
  BY DEF CountSteps, Row, NoCounts
<1>3. /\ j' \in 0 .. ITS /\ k' \in 0 .. inner_its' - 1
      /\ lcounts' \in [0 .. 3 -> Nat] /\ counts' \in [0 .. ITS - 1 -> [0 .. 3 -> Nat]]
      /\ pc' \in Measured <=> j' = ITS
  BY Zenon, <1>1 DEF CountSteps
<1>4. pc' \notin Measuring \/ pc' = "pass" => lcounts' = NoCounts
  BY Zenon DEF CountSteps, Measuring
<1>5. pc' \in {"store2", "load2"} => opts.mode = 0
  BY Zenon DEF CountSteps, Measuring
<1>6. ASSUME opts.mode = 0
      PROVE  /\ \A r \in 0 .. ITS - 1 : r < j => Row(counts[r], opts.asize, opts.asize)
             /\ pc' \in {"store2", "load2"} => Row(lcounts, i', i')
             /\ pc' \in {"store1", "load1"} => Row(lcounts, i' + 1, i')
             /\ pc' = "passed" => Row(lcounts, opts.asize, opts.asize)
  <2>1. CASE pc' = "load2" \/ pc' = "store2"
    BY Zenon, <1>2, <1>6, <2>1 DEF CountSteps, Measuring
  <2>2. CASE pc' = "load1" \/ pc' = "store1"
    BY Zenon, <1>6, <2>2 DEF CountSteps, Measuring
  <2>3. CASE pc' = "passed"
    BY Zenon, <1>6, <2>3 DEF CountSteps, Measuring
  <2> QED
    BY Zenon, <1>6, <2>1, <2>2, <2>3 DEF CountSteps
<1> QED
  BY Zenon, <1>3, <1>4, <1>5, <1>6 DEF CountSteps, Row

\* One more of a kind is counted.
LEMMA RowCounts ==
  ASSUME NEW f \in [0 .. 3 -> Nat], NEW x \in Nat, NEW y \in Nat, Row(f, x, y), NEW e \in 0 .. 3,
         NEW h, h = [f EXCEPT ![e] = @ + 1]
  PROVE  /\ h \in [0 .. 3 -> Nat]
         /\ e \in {2, 3} => Row(h, x + 1, y)
         /\ e \in {0, 1} => Row(h, x, y + 1)
<1>1. h \in [0 .. 3 -> Nat] /\ h[e] = f[e] + 1 /\ \A d \in 0 .. 3 : d # e => h[d] = f[d]
  OBVIOUS
<1>2. f[0] \in Nat /\ f[1] \in Nat /\ f[2] \in Nat /\ f[3] \in Nat
  OBVIOUS
<1>3. e \in {2, 3} => Row(h, x + 1, y)
  BY <1>1, <1>2 DEF Row
<1>4. e \in {0, 1} => Row(h, x, y + 1)
  BY SMTT(30), <1>1, <1>2 DEF Row
<1> QED
  BY Zenon, <1>1, <1>3, <1>4

\* The first load of an iteration of mode 0 ...
LEMMA CountLoad2 ==
  ASSUME Walks, ShuffleSteps, Tables, CountSteps, Load2
  PROVE  CountSteps'
<1>1. pc = "load2" /\ pc' = "store1" /\ Load(randindex[i]) /\ UNCHANGED <<opts, i, j, k, counts>>
      /\ lcounts' = [lcounts EXCEPT ![n' + 1] = @ + 1]
  BY Zenon DEF Load2, p_this, option
<1>2. opts.mode = 0 /\ Row(lcounts, i, i) /\ lcounts \in [0 .. 3 -> Nat]
  BY Zenon, <1>1 DEF CountSteps
<1>3. n' \in {1, 2}
  BY Zenon, <1>1, <1>2, LoadsTwo
<1>4. i \in Nat
  BY <1>1 DEF Walks, Loops, Between, OverPages, Setting, Page
<1>5. n' + 1 \in {2, 3} /\ n' + 1 \in 0 .. 3
  <2>1. n' = 1 \/ n' = 2
    BY Zenon, <1>3
  <2> QED
    BY <2>1
<1>6. lcounts' \in [0 .. 3 -> Nat] /\ Row(lcounts', i + 1, i)
  <2>1. PICK e \in 0 .. 3 : e = n' + 1
    BY Zenon, <1>5
  <2>2. lcounts' = [lcounts EXCEPT ![e] = @ + 1] /\ e \in {2, 3}
    BY Zenon, <1>1, <1>5, <2>1
  <2>3. PICK x \in Nat : x = i
    BY Zenon, <1>4
  <2>4. Row(lcounts, x, x) /\ lcounts \in [0 .. 3 -> Nat]
    BY Zenon, <1>2, <2>3
  <2>5. lcounts' \in [0 .. 3 -> Nat] /\ Row(lcounts', x + 1, x)
    BY ZenonT(30), <2>2, <2>4, RowCounts
  <2> QED
    BY Zenon, <2>3, <2>5
<1>7. inner_its' = inner_its
  BY Zenon, <1>1 DEF inner_its
<1>8. Row(lcounts, i + 1, i)'
  BY Zenon, <1>1, <1>6 DEF Row
<1>9. j' \in 0 .. ITS /\ k' \in 0 .. inner_its' - 1 /\ counts' \in [0 .. ITS - 1 -> [0 .. 3 -> Nat]]
      /\ j' # ITS
  BY Zenon, <1>1, <1>7 DEF CountSteps, Measured
<1>10. \A r \in 0 .. ITS - 1 : r < j' => Row(counts[r], opts.asize, opts.asize)'
  BY Zenon, <1>1, <1>2 DEF CountSteps, Row
<1> QED
  BY Zenon, <1>1, <1>2, <1>6, <1>8, <1>9, <1>10 DEF CountSteps, Measured, Measuring

\* ... and the other one.
LEMMA CountLoad1 ==
  ASSUME Walks, ShuffleSteps, Tables, CountSteps, Load1
  PROVE  CountSteps'
<1>1. /\ pc = "load1" /\ Load(randindex[i]) /\ UNCHANGED <<opts, j, k, counts>> /\ Count(opts.asize)
      /\ lcounts' = IF opts.mode = 0 /\ n' # 0 THEN [lcounts EXCEPT ![n' - 1] = @ + 1] ELSE lcounts
      /\ pc' = Again(IF opts.mode = 0 THEN "store2" ELSE "store1", opts.asize, "passed")
  BY Zenon DEF Load1, p_this, option
<1>2. opts.asize \in Nat \ {0} /\ i \in 0 .. opts.asize - 1 /\ i \in Nat
  BY <1>1 DEF Walks, Loops, Between, OverPages, Setting, Page
<1>3. i' = IF i + 1 = opts.asize THEN 0 ELSE i + 1
  BY Zenon, <1>1, <1>2, LoopOn
<1>4. inner_its' = inner_its
  BY Zenon, <1>1 DEF inner_its
<1>5. CASE opts.mode = 0
  <2>1. Row(lcounts, i + 1, i) /\ lcounts \in [0 .. 3 -> Nat]
    BY Zenon, <1>1, <1>5 DEF CountSteps
  <2>2. n' \in {1, 2}
    BY Zenon, <1>1, <1>5, LoadsTwo
  <2>3. n' - 1 \in {0, 1} /\ n' - 1 \in 0 .. 3 /\ n' # 0
    BY <2>2
  <2>4. lcounts' = [lcounts EXCEPT ![n' - 1] = @ + 1]
    BY Zenon, <1>1, <1>5, <2>3
  <2>5. lcounts' \in [0 .. 3 -> Nat] /\ Row(lcounts', i + 1, i + 1)
    <3>1. PICK e \in 0 .. 3 : e = n' - 1
      BY Zenon, <2>3
    <3>2. lcounts' = [lcounts EXCEPT ![e] = @ + 1] /\ e \in {0, 1}
      BY Zenon, <2>3, <2>4, <3>1
    <3>3. i + 1 \in Nat
      BY <1>2
    <3> QED
      BY Zenon, <1>2, <2>1, <3>2, <3>3, RowCounts
  <2>6. \/ pc' = "passed" /\ i + 1 = opts.asize
        \/ pc' = "store2" /\ i' = i + 1
    BY Zenon, <1>1, <1>3, <1>5 DEF Again
  <2>7. \/ pc' = "passed" /\ Row(lcounts, opts.asize, opts.asize)'
        \/ pc' = "store2" /\ Row(lcounts, i, i)'
    BY Zenon, <1>1, <2>5, <2>6 DEF Row
  <2>8. j' \in 0 .. ITS /\ k' \in 0 .. inner_its' - 1 /\ counts' \in [0 .. ITS - 1 -> [0 .. 3 -> Nat]]
        /\ j' # ITS
    BY Zenon, <1>1, <1>4 DEF CountSteps, Measured
  <2>9. \A r \in 0 .. ITS - 1 : r < j' => Row(counts[r], opts.asize, opts.asize)'
    BY Zenon, <1>1, <1>5 DEF CountSteps, Row
  <2> QED
    BY Zenon, <1>1, <1>5, <2>5, <2>7, <2>8, <2>9 DEF CountSteps, Measured, Measuring
<1>6. CASE opts.mode # 0
  <2>1. pc' \in {"store1", "passed"} /\ lcounts' = lcounts /\ j' = j /\ k' = k /\ counts' = counts
        /\ opts' = opts
    BY Zenon, <1>1, <1>6 DEF Again
  <2>2. pc \notin Measured /\ pc' \notin Measured /\ pc' \in Measuring \ {"pass", "store2", "load2"}
    BY Zenon, <1>1, <2>1 DEF Measured, Measuring
  <2>3. j' # ITS
    BY Zenon, <2>1, <2>2 DEF CountSteps
  <2>4. /\ j' \in 0 .. ITS /\ k' \in 0 .. inner_its' - 1
        /\ lcounts' \in [0 .. 3 -> Nat] /\ counts' \in [0 .. ITS - 1 -> [0 .. 3 -> Nat]]
    BY Zenon, <1>4, <2>1 DEF CountSteps
  <2> QED
    BY Zenon, <1>6, <2>1, <2>2, <2>3, <2>4 DEF CountSteps
<1> QED
  BY Zenon, <1>5, <1>6

\* A pass is over.
LEMMA CountPass ==
  ASSUME Walks, CountSteps, EndPass
  PROVE  CountSteps'
<1>1. /\ pc = "passed" /\ counts' = [counts EXCEPT ![j] = lcounts] /\ lcounts' = NoCounts
      /\ k' = (k + 1) % inner_its /\ j' = (IF k + 1 = inner_its THEN j + 1 ELSE j)
      /\ pc' = (IF j' = ITS THEN "measured" ELSE "pass") /\ UNCHANGED opts
  BY Zenon DEF EndPass, option
<1>2. inner_its' = inner_its
  BY Zenon, <1>1 DEF inner_its
<1>3. inner_its \in Nat \ {0}
  <2>1. FullSize \div opts.asize \in Nat
    BY QuotientGrows, PageWalkAssumption DEF Walks, Setting
  <2> DEFINE d == FullSize \div opts.asize
  <2>2. d \in Nat /\ inner_its = IF d < 1 THEN 1 ELSE d
    BY Zenon, <2>1 DEF inner_its
  <2> HIDE DEF d
  <2> QED
    BY <2>2
<1>4. k' \in 0 .. inner_its - 1
  <2>1. k \in 0 .. inner_its - 1
    BY Zenon DEF CountSteps
  <2>2. (k + 1) % inner_its = IF k + 1 = inner_its THEN 0 ELSE k + 1
    BY Zenon, <1>3, <2>1, Wraps
  <2> QED
    BY <1>1, <1>3, <2>1, <2>2
<1>5. ITS \in Nat \ {0} /\ j \in 0 .. ITS - 1
  BY <1>1, PageWalkAssumption DEF CountSteps, Measured
<1>6. j' \in 0 .. ITS /\ (j' = j \/ j' = j + 1)
  BY <1>1, <1>5
<1>7. lcounts' \in [0 .. 3 -> Nat]
  BY Zenon, <1>1 DEF NoCounts
<1>8. counts' \in [0 .. ITS - 1 -> [0 .. 3 -> Nat]]
      /\ \A r \in 0 .. ITS - 1 : counts'[r] = IF r = j THEN lcounts ELSE counts[r]
  BY Zenon, <1>1, <1>5 DEF CountSteps
<1>9. ASSUME opts.mode = 0, NEW r \in 0 .. ITS - 1, r < j' PROVE Row(counts'[r], opts.asize, opts.asize)
  <2>1. r = j \/ r < j
    BY <1>5, <1>6, <1>9
  <2>2. r = j => counts'[r] = lcounts /\ Row(lcounts, opts.asize, opts.asize)
    BY Zenon, <1>1, <1>8, <1>9 DEF CountSteps
  <2>3. r # j => counts'[r] = counts[r]
    BY Zenon, <1>8
  <2>4. r < j => Row(counts[r], opts.asize, opts.asize)
    BY Zenon, <1>9 DEF CountSteps
  <2> QED
    BY Zenon, <2>1, <2>2, <2>3, <2>4
<1>10. pc' \in {"pass", "measured"} /\ (pc' = "measured" <=> j' = ITS)
  BY Zenon, <1>1
<1> QED
  BY Zenon, <1>1, <1>2, <1>4, <1>6, <1>7, <1>8, <1>9, <1>10 DEF CountSteps, Row, Measured, Measuring

\* All steps.
LEMMA CountStepsNext ==
  ASSUME Walks, ShuffleSteps, Tables, CountSteps, [Next]_vars
  PROVE  CountSteps'
<1> USE DEF option, saved, memory, result
<1>1. CASE Load2 \/ Load1 \/ EndPass
  BY Zenon, <1>1, CountLoad2, CountLoad1, CountPass
<1>2. CASE Migrate \/ UNCHANGED vars
  BY ZenonT(30), <1>2, CountFrame DEF Migrate, vars
<1>3. CASE SanityCheck \/ MapWindow \/ FlushAt("mapped", "backup") \/ Fill \/ Shuffle
           \/ FlushAt("preloaded", "touch") \/ NoPreload
  <2>1. CASE SanityCheck \/ MapWindow
    BY Zenon, <2>1, CountFrame DEF SanityCheck, MapWindow, Again, Measured, Measuring
  <2>2. CASE FlushAt("mapped", "backup") \/ FlushAt("preloaded", "touch") \/ NoPreload
    BY Zenon, <2>2, CountFrame DEF FlushAt, Again, NoPreload, Measured, Measuring
  <2>3. CASE Fill \/ Shuffle
    BY Zenon, <2>3, CountFrame DEF Fill, Shuffle, Again, Measured, Measuring
  <2> QED
    BY Zenon, <1>3, <2>1, <2>2, <2>3
<1>4. CASE Touch
  BY Zenon, <1>4, CountFrame DEF Touch, Again, Measured, Measuring
<1>5. CASE FlushAt("measured", "restore") \/ UnmapWindow \/ FlushAt("unmapped", "done")
  BY Zenon, <1>5, CountFrame DEF FlushAt, UnmapWindow, Again, Measured, Measuring
<1>6. CASE BeginPass
  <2>1. pc = "pass" /\ i = 0
    BY Zenon, <1>6 DEF BeginPass, FlushAt, GoOn, Walks, Loops, Between, OverPages
  <2>2. /\ UNCHANGED <<opts, i, j, k, lcounts, counts>>
        /\ pc' = IF opts.mode = 0 THEN "store2" ELSE "store1"
    BY Zenon, <1>6 DEF BeginPass, FlushAt, GoOn
  <2> QED
    BY Zenon, <2>1, <2>2, CountFrame DEF Measured
<1>7. CASE Backup \/ Preload \/ InitPtes \/ Store2 \/ Store1 \/ Restore
  <2>1. pc \in {"backup", "preload", "init", "store2", "store1", "restore"}
        /\ UNCHANGED <<opts, j, k, lcounts, counts>>
    BY Zenon, <1>7 DEF Backup, Preload, InitPtes, Store2, Store1, Restore
  <2>2. pc \in Uses /\ i \in Page /\ (pc \in {"store2", "store1"} => p_this \in Page)
    BY Zenon, <2>1 DEF Walks, Loops, Between, OverPages, ShuffleSteps, Shuffled, Measuring, p_this, Uses
  <2>3. CASE Backup
    <3>1. PICK v \in Sees(i) : pc' = IF Lost(v) THEN "killed" ELSE Again("backup", opts.asize, "fill")
      BY Zenon, <2>3 DEF Backup
    <3>2. pc' \in {"backup", "fill", "killed"} /\ pc = "backup"
      BY Zenon, <2>3, <3>1 DEF Backup, Again
    <3> QED
      BY Zenon, <2>1, <3>2, CountFrame DEF Measured, Measuring
  <2>4. CASE Preload
    <3>1. pc' \in {"preload", "preloaded"} /\ pc = "preload"
      BY Zenon, <2>2, <2>4, StoreIs DEF Preload, Again
    <3> QED
      BY Zenon, <2>1, <3>1, CountFrame DEF Measured, Measuring
  <2>5. CASE InitPtes
    <3>1. pc' \in {"init", "pass"} /\ pc = "init"
      BY Zenon, <2>2, <2>5, StoreIs DEF InitPtes, Again
    <3> QED
      BY Zenon, <2>1, <3>1, CountFrame DEF Measured, Measuring
  <2>6. CASE Restore
    <3>1. pc' \in {"restore", "unmap"} /\ pc = "restore"
      BY Zenon, <2>2, <2>6, StoreIs DEF Restore, Again
    <3> QED
      BY Zenon, <2>1, <3>1, CountFrame DEF Measured, Measuring
  <2>7. CASE Store2
    <3>1. pc' = "load2" /\ pc = "store2" /\ i' = i
      BY Zenon, <2>2, <2>7, StoreIs DEF Store2, Tinker
    <3> QED
      BY Zenon, <2>1, <3>1, CountFrame DEF Measured, Measuring
  <2>8. CASE Store1
    <3>1. pc' = "load1" /\ pc = "store1" /\ i' = i
      BY Zenon, <2>2, <2>8, StoreIs DEF Store1, Tinker
    <3> QED
      BY Zenon, <2>1, <3>1, CountFrame DEF Measured, Measuring
  <2> QED
    BY Zenon, <1>7, <2>3, <2>4, <2>5, <2>6, <2>7, <2>8
<1> QED
  BY Zenon, <1>1, <1>2, <1>3, <1>4, <1>5, <1>6, <1>7 DEF Next, Main

\* At the start nothing is counted.
LEMMA CountStepsInit == Init => CountSteps
<1> SUFFICES ASSUME Init PROVE CountSteps
  BY Zenon
<1>1. FullSize \div opts.asize \in Nat
  BY QuotientGrows, PageWalkAssumption, WalksInit DEF Walks, Setting
<1>2. 0 \in 0 .. inner_its - 1
  <2> DEFINE d == FullSize \div opts.asize
  <2>1. d \in Nat /\ inner_its = IF d < 1 THEN 1 ELSE d
    BY Zenon, <1>1 DEF inner_its
  <2> HIDE DEF d
  <2> QED
    BY <2>1
<1>3. lcounts \in [0 .. 3 -> Nat] /\ counts \in [0 .. ITS - 1 -> [0 .. 3 -> Nat]]
  BY Zenon DEF Init, NoCounts
<1>4. j = 0 /\ k = 0 /\ pc = "check" /\ lcounts = NoCounts
  BY Zenon DEF Init
<1>5. 0 \in 0 .. ITS /\ 0 # ITS /\ \A r \in 0 .. ITS - 1 : ~(r < 0)
  BY PageWalkAssumption
<1>6. pc \notin Measured /\ pc \notin Measuring
  BY Zenon, <1>4 DEF Measured, Measuring
<1>7. /\ pc \notin {"store2", "load2", "store1", "load1"} /\ pc # "passed"
      /\ \A r \in 0 .. ITS - 1 : ~(r < j)
  BY Zenon, <1>4, <1>5
<1> QED
  BY Zenon, <1>2, <1>3, <1>4, <1>5, <1>6, <1>7 DEF CountSteps

\* A load tells the TLB only of the page it reads.
LEMMA LoadTells ==
  ASSUME Walks, ShuffleSteps, Tables, pc \in {"load1", "load2"}, Load(randindex[i]),
         NoneFrom(i) \/ NoneFrom(i + 1)
  PROVE  \A c \in Cpus, m \in Page : m >= i + 1 => tlb'[c][randindex[m]] = {}
<1>1. i \in Page /\ randindex[i] \in Page /\ cpu \in Cpus /\ \A p \in Page : p \in Int /\ randindex[p] \in Page
  BY DEF Walks, Loops, Between, OverPages, ShuffleSteps, Shuffled, Measuring, Setting, Page
<1>3. PICK f : tlb' = Walked(tlb, randindex[i], f)
  BY Zenon DEF Load
<1>4. \A c \in Cpus, q \in Page : q # randindex[i] => tlb'[c][q] = tlb[c][q]
  BY Zenon, <1>1, <1>3 DEF Walked, Tables, TableTypes
<1>5. ASSUME NEW c \in Cpus, NEW m \in Page, m >= i + 1 PROVE tlb'[c][randindex[m]] = {}
  <2>1. randindex[m] # randindex[i]
    <3>1. m # i
      BY <1>1, <1>5
    <3> QED
      BY Zenon, <1>1, <3>1 DEF ShuffleSteps, Shuffled, Measuring
  <2>2. tlb[c][randindex[m]] = {}
    <3>1. m >= i
      BY <1>1, <1>5
    <3> QED
      BY Zenon, <1>5, <3>1 DEF NoneFrom
  <2> QED
    BY Zenon, <1>1, <1>4, <2>1, <2>2
<1> QED
  BY Zenon, <1>5

\* It stays like that.
LEMMA CleanStepsNext ==
  ASSUME Walks, ShuffleSteps, Tables, CountSteps, CleanSteps, [Next]_vars
  PROVE  CleanSteps'
<1> USE DEF option, saved, memory, result
<1>1. UNCHANGED <<opts, host>>
  BY ZenonT(30) DEF Next, Main, SanityCheck, MapWindow, FlushAt, Backup, Fill, Shuffle, Preload, Touch, NoPreload, InitPtes,
       BeginPass, GoOn, Store2, Load2, Store1, Load1, EndPass, Restore, UnmapWindow, Migrate, vars
<1> SUFFICES ASSUME Clean, Clean' PROVE CleanSteps'
  BY Zenon, <1>1 DEF CleanSteps, Clean
<1>2. lcounts[2] = 0 /\ \A r \in 0 .. ITS - 1 : counts[r][2] = 0
  BY Zenon DEF CleanSteps
<1>3. ASSUME pc' \notin {"store2", "load2", "store1", "load1"}, UNCHANGED <<lcounts, counts>>
      PROVE  CleanSteps'
  BY Zenon, <1>2, <1>3 DEF CleanSteps
<1>4. Page' = Page
  BY Zenon, <1>1 DEF Page
<1>5. CASE BeginPass
  <2>1. FlushAt("pass", "store2")
    BY Zenon, <1>5 DEF BeginPass, Clean
  <2>2. pc' = "store2" /\ UNCHANGED <<i, randindex, lcounts, counts>> /\ Flushed
    BY Zenon, <2>1, TlbFlushed DEF FlushAt
  <2>3. NoneFrom(i)'
    <3>1. pc \in Shuffled
      BY Zenon, <2>1 DEF FlushAt, Shuffled, Measuring
    <3> QED
      BY Zenon, <1>4, <2>2, <3>1 DEF NoneFrom, Flushed, ShuffleSteps
  <2> QED
    BY Zenon, <1>2, <2>2, <2>3 DEF CleanSteps
<1>6. i \in Page => i \in Nat
  BY SMTT(30) DEF Walks, Setting, Page
<1>7. CASE Store2 \/ Store1
  <2>1. pc \in Uses /\ i \in Page /\ p_this \in Page
    BY Zenon, <1>7 DEF Store2, Store1, Walks, Loops, Between, OverPages, ShuffleSteps, Shuffled, Measuring, p_this, Uses
  <2>2. UNCHANGED <<i, randindex, lcounts, counts>>
    BY Zenon, <1>7 DEF Store2, Store1
  <2>3. PICK f, l : /\ Store(p_this, f, l)
                    /\ \/ pc = "store2" /\ f = map_pte2 /\ l = "load2"
                       \/ pc = "store1" /\ l = "load1"
    BY Zenon, <1>7 DEF Store2, Store1, Tinker, Clean
  <2>4. pte' = [pte EXCEPT ![p_this] = f] /\ tlb' = tlb /\ pc' = l
    BY Zenon, <2>1, <2>3, StoreIs DEF WalkedAhead, Clean
  <2>5. pc = "store2" => pte'[p_this'] = 1
    <3>1. 1 \in Page
      BY SMTT(30) DEF Walks, Setting, Page
    <3>2. pc = "store2" => map_pte2 = 1
      BY Zenon, <3>1 DEF Tables, TableSteps, IsSaved, Saved, Uses, Measuring, map_pte2
    <3> QED
      BY Zenon, <2>1, <2>2, <2>3, <2>4, <3>2 DEF p_this, Tables, TableTypes
  <2>6. \A x : NoneFrom(x) => NoneFrom(x)'
    BY Zenon, <1>4, <2>2, <2>4 DEF NoneFrom
  <2> QED
    BY Zenon, <1>2, <2>2, <2>3, <2>4, <2>5, <2>6 DEF CleanSteps, NoneFrom
<1>8. CASE Load2
  <2>1. pc = "load2" /\ pc' = "store1" /\ Load(randindex[i]) /\ UNCHANGED <<i, randindex, counts>>
        /\ lcounts' = [lcounts EXCEPT ![n' + 1] = @ + 1]
    BY Zenon, <1>8 DEF Load2, p_this
  <2>2. i \in Page /\ i \in Nat /\ cpu \in Cpus
    BY Zenon, <1>6, <2>1 DEF Walks, Loops, Between, OverPages
  <2>3. NoneFrom(i) /\ pte[randindex[i]] = 1
    BY Zenon, <2>1 DEF CleanSteps, p_this
  <2>4. tlb[cpu][randindex[i]] = {}
    BY <2>2, <2>3 DEF NoneFrom
  <2>5. PICK f \in Finds(randindex[i]) : n' = Content(f)
    BY Zenon, <2>1 DEF Load
  <2>6. f = 1
    BY Zenon, <2>3, <2>4, <2>5 DEF Finds
  <2>7. n' = 2
    BY Zenon, <2>5, <2>6 DEF Content
  <2>8. lcounts'[2] = 0
    <3>1. n' + 1 = 3
      BY <2>7
    <3>2. lcounts' = [lcounts EXCEPT ![3] = lcounts[3] + 1]
      BY Zenon, <2>1, <3>1
    <3>3. lcounts \in [0 .. 3 -> Nat] /\ 2 # 3 /\ 2 \in 0 .. 3
      BY DEF CountSteps
    <3> QED
      BY Zenon, <1>2, <3>2, <3>3
  <2>9. \A c \in Cpus, m \in Page : m >= i + 1 => tlb'[c][randindex[m]] = {}
    BY Zenon, <2>1, <2>3, LoadTells
  <2>10. NoneFrom(i + 1)'
    BY Zenon, <1>4, <2>1, <2>9 DEF NoneFrom
  <2> QED
    BY Zenon, <1>2, <2>1, <2>8, <2>10 DEF CleanSteps
<1>9. CASE Load1
  <2>1. pc = "load1" /\ Load(randindex[i]) /\ UNCHANGED <<randindex, counts>> /\ Count(opts.asize)
        /\ lcounts' = (IF n' # 0 THEN [lcounts EXCEPT ![n' - 1] = @ + 1] ELSE lcounts)
        /\ pc' = Again("store2", opts.asize, "passed")
    BY Zenon, <1>9 DEF Load1, p_this, Clean
  <2>2. i \in Page /\ i \in Nat /\ opts.asize \in Nat \ {0} /\ Page = 0 .. opts.asize - 1
    BY Zenon, <1>6, <2>1 DEF Walks, Loops, Between, OverPages, Setting, Page
  <2>3. n' \in {1, 2}
    BY Zenon, <2>1, LoadsTwo DEF Clean
  <2>4. lcounts'[2] = 0
    <3>1. n' - 1 # 2
      <4>1. n' = 1 \/ n' = 2
        BY Zenon, <2>3
      <4> QED
        BY <4>1
    <3> QED
      <4>1. lcounts \in [0 .. 3 -> Nat] /\ 2 \in 0 .. 3
        BY DEF CountSteps
      <4> QED
        BY Zenon, <1>2, <2>1, <3>1, <4>1
  <2>5. NoneFrom(i + 1)
    BY Zenon, <2>1 DEF CleanSteps
  <2>6. \/ pc' = "store2" /\ i' = i + 1
        \/ pc' = "passed"
    BY Zenon, <2>1, <2>2, LoopOn DEF Again
  <2>7. \A c \in Cpus, m \in Page : m >= i + 1 => tlb'[c][randindex[m]] = {}
    BY Zenon, <2>1, <2>5, LoadTells
  <2>8. i' = i + 1 => NoneFrom(i)'
    BY <1>4, <2>1, <2>7 DEF NoneFrom
  <2> QED
    BY Zenon, <1>2, <2>1, <2>4, <2>6, <2>8 DEF CleanSteps
<1>10. CASE EndPass
  <2>1. pc' \in {"measured", "pass"} /\ counts' = [counts EXCEPT ![j] = lcounts] /\ lcounts' = NoCounts
    BY Zenon, <1>10 DEF EndPass
  <2>2. \A r \in 0 .. ITS - 1 : counts'[r][2] = 0
    BY Zenon, <1>2, <2>1 DEF CountSteps
  <2> QED
    BY <2>1, <2>2 DEF CleanSteps, NoCounts
<1>11. CASE Migrate \/ UNCHANGED vars
  <2>1. UNCHANGED <<pc, i, pte, tlb, randindex, lcounts, counts>>
    BY Zenon, <1>11 DEF Migrate, vars, Clean
  <2>2. \A x : NoneFrom(x) => NoneFrom(x)'
    BY Zenon, <1>4, <2>1 DEF NoneFrom
  <2> QED
    BY ZenonT(30), <2>1, <2>2 DEF CleanSteps, p_this, NoneFrom
<1>12. CASE Backup \/ Preload \/ InitPtes \/ Restore \/ Touch
  <2>1. pc' \notin {"store2", "load2", "store1", "load1"}
    <3>1. CASE Backup \/ Touch
      BY Zenon, <3>1 DEF Backup, Touch, Again
    <3>2. CASE Preload \/ InitPtes \/ Restore
      BY Zenon, <3>2 DEF Preload, InitPtes, Restore, Store, Again
    <3> QED
      BY Zenon, <1>12, <3>1, <3>2
  <2> QED
    BY Zenon, <1>3, <1>12, <2>1 DEF Backup, Preload, InitPtes, Restore, Touch
<1>13. CASE SanityCheck \/ MapWindow \/ FlushAt("mapped", "backup") \/ Fill \/ Shuffle
            \/ FlushAt("preloaded", "touch") \/ NoPreload \/ FlushAt("measured", "restore") \/ UnmapWindow
            \/ FlushAt("unmapped", "done")
  BY Zenon, <1>3, <1>13 DEF SanityCheck, MapWindow, FlushAt, Fill, Shuffle, NoPreload, UnmapWindow, Again
<1> QED
  BY Zenon, <1>5, <1>7, <1>8, <1>9, <1>10, <1>11, <1>12, <1>13 DEF Next, Main

-----------------------------------------------------------------------------
(***************************************************************************)
(* What is printed.                                                        *)
(***************************************************************************)

\* A set of numbers has a least one ...
LEMMA Least ==
  ASSUME NEW T \in SUBSET Nat, T # {}
  PROVE  \E m \in T : \A x \in T : m <= x
<1> DEFINE Less == {p \in Nat \X Nat : p[1] < p[2]}
<1>1. IsWellFoundedOn(Less, Nat)
  BY Zenon, NatLessThanWellFounded DEF OpToRel
<1>2. PICK m \in T : \A y \in T : ~(<<y, m>> \in Less)
  BY Zenon, <1>1, WFMin
<1>3. ASSUME NEW y \in T PROVE m <= y
  <2>1. <<y, m>> \in Less <=> y < m
    BY Zenon
  <2>2. ~(y < m)
    BY Zenon, <1>2, <2>1
  <2>3. y \in Nat /\ m \in Nat
    BY Zenon
  <2> QED
    BY <2>2, <2>3
<1> QED
  BY Zenon, <1>3

\* ... so what holds of 0 and goes from each number to the next holds of all.
LEMMA Induction ==
  ASSUME NEW T, 0 \in T, \A x \in Nat : x \in T => x + 1 \in T
  PROVE  \A x \in Nat : x \in T
<1> SUFFICES ASSUME Nat \ T # {} PROVE FALSE
  BY Zenon
<1>1. PICK m \in Nat \ T : \A x \in Nat \ T : m <= x
  BY Zenon, Least
<1>2. m # 0 /\ m - 1 \in Nat
  BY <1>1
<1>3. m - 1 \in T
  BY <1>1, <1>2
<1> QED
  BY <1>1, <1>2, <1>3

\* Rows that are the same come to an end.
LEMMA RepeatCount ==
  ASSUME NEW r \in 0 .. ITS - 1
  PROVE  /\ repeat_count(r) \in 1 .. ITS - r
         /\ r + repeat_count(r) \in 0 .. ITS /\ r + repeat_count(r) > r
<1>0. ITS \in Nat \ {0} /\ r \in Nat
  BY PageWalkAssumption
<1> DEFINE T == {q \in 1 .. ITS - r : r + q < ITS => counts[r + q] # counts[r]}
<1>1. ITS - r \in T
  BY <1>0
<1>2. PICK q \in T : \A x \in T : q <= x
  <2>1. \A x \in T : x \in Nat
    BY <1>0
  <2> HIDE DEF T
  <2>2. T \in SUBSET Nat /\ T # {}
    BY Zenon, <1>1, <2>1
  <2> QED
    BY Zenon, <2>2, Least
<1>3. ASSUME NEW s \in r .. r + q - 1 PROVE counts[s] = counts[r]
  <2>1. CASE s = r
    BY Zenon, <2>1
  <2>2. CASE s # r
    <3>1. s - r \in 1 .. ITS - r /\ s - r < q /\ r + (s - r) = s /\ q \in 1 .. ITS - r
      BY <1>0, <1>2, <2>2
    <3>2. s - r \notin T
      BY <1>0, <1>2, <3>1
    <3> QED
      BY Zenon, <3>1, <3>2
  <2> QED
    BY Zenon, <2>1, <2>2
<1>4. \E x \in 1 .. ITS - r : /\ \A s \in r .. r + x - 1 : counts[s] = counts[r]
                              /\ r + x < ITS => counts[r + x] # counts[r]
  BY Zenon, <1>2, <1>3
<1>5. repeat_count(r) \in 1 .. ITS - r
  BY Zenon, <1>4 DEF repeat_count
<1> QED
  BY <1>0, <1>5

\* The sum of the rows from r on, if s has the later ones.
RowSum(s, r) ==
  IF r = ITS THEN NoCounts
  ELSE [e \in 0 .. 3 |-> counts[r][e] * repeat_count(r) + s[r + repeat_count(r)][e]]

\* SumFrom is defined ...
LEMMA SumFromIs == \A r \in 0 .. ITS : SumFrom[r] = RowSum(SumFrom, r)
<1> DEFINE Sums(s, m) == \A r \in 0 .. ITS : r >= ITS - m => s[r] = RowSum(s, r)
           T == {m \in Nat : \E s : Sums(s, m)}
<1>0. ITS \in Nat \ {0}
  BY Zenon, PageWalkAssumption
<1>1. 0 \in T
  <2> DEFINE s == [r \in 0 .. ITS |-> NoCounts]
  <2>1. \A r \in 0 .. ITS : r >= ITS - 0 => r = ITS /\ s[r] = NoCounts
    BY <1>0
  <2>2. Sums(s, 0)
    BY Zenon, <2>1 DEF RowSum
  <2> QED
    BY Zenon, <2>2
<1>2. ASSUME NEW m \in Nat, m \in T PROVE m + 1 \in T
  <2>1. PICK s : Sums(s, m)
    BY Zenon, <1>2
  <2> DEFINE h == [r \in 0 .. ITS |-> IF r >= ITS - m THEN s[r] ELSE RowSum(s, r)]
  <2>2. ASSUME NEW r \in 0 .. ITS, r >= ITS - (m + 1) PROVE h[r] = RowSum(h, r)
    <3>1. h[r] = RowSum(s, r)
      BY Zenon, <2>1
    <3>2. CASE r = ITS
      BY Zenon, <3>1, <3>2 DEF RowSum
    <3>3. CASE r # ITS
      <4>1. r \in 0 .. ITS - 1
        BY <1>0, <3>3
      <4>2. r + repeat_count(r) \in 0 .. ITS /\ r + repeat_count(r) > r
        BY Zenon, <4>1, RepeatCount
      <4>3. r + repeat_count(r) >= ITS - m
        BY <1>0, <2>2, <4>2
      <4>4. h[r + repeat_count(r)] = s[r + repeat_count(r)]
        BY Zenon, <4>2, <4>3
      <4> HIDE DEF h
      <4> QED
        BY Zenon, <3>1, <4>4 DEF RowSum
    <3> QED
      BY Zenon, <3>2, <3>3
  <2> HIDE DEF h
  <2>3. Sums(h, m + 1)
    BY Zenon, <2>2
  <2> QED
    BY <2>3
<1> HIDE DEF T
<1>3. ITS \in T
  BY Zenon, <1>0, <1>1, <1>2, Induction
<1>4. PICK s : \A r \in 0 .. ITS : s[r] = RowSum(s, r)
  BY <1>0, <1>3 DEF T
<1> DEFINE t == [r \in 0 .. ITS |-> s[r]]
<1>5. t = [r \in 0 .. ITS |-> RowSum(t, r)]
  <2> SUFFICES ASSUME NEW r \in 0 .. ITS PROVE s[r] = RowSum(t, r)
    BY Zenon
  <2>1. CASE r = ITS
    BY Zenon, <1>4, <2>1 DEF RowSum
  <2>2. CASE r # ITS
    <3>1. r \in 0 .. ITS - 1
      BY <1>0, <2>2
    <3>2. r + repeat_count(r) \in 0 .. ITS
      BY Zenon, <3>1, RepeatCount
    <3>3. t[r + repeat_count(r)] = s[r + repeat_count(r)]
      BY Zenon, <3>2
    <3> HIDE DEF t
    <3> QED
      BY Zenon, <1>4, <3>3 DEF RowSum
  <2> QED
    BY Zenon, <2>1, <2>2
<1> HIDE DEF t
<1>6. SumFrom = CHOOSE x : x = [r \in 0 .. ITS |-> RowSum(x, r)]
  BY Zenon DEF SumFrom, RowSum
<1>7. SumFrom = [r \in 0 .. ITS |-> RowSum(SumFrom, r)]
  BY Zenon, <1>5, <1>6
<1> QED
  BY Zenon, <1>7

\* ... and has what is in the rows it sums up.
LEMMA SumOfRows ==
  ASSUME NEW a \in Nat, counts \in [0 .. ITS - 1 -> [0 .. 3 -> Nat]],
         \A r \in 0 .. ITS - 1 : Row(counts[r], a, a)
  PROVE  /\ Row(SumFrom[0], ITS * a, ITS * a)
         /\ (\A r \in 0 .. ITS - 1 : counts[r][2] = 0) => SumFrom[0][2] = 0
<1>0. ITS \in Nat \ {0}
  BY Zenon, PageWalkAssumption
<1> DEFINE None2 == \A r \in 0 .. ITS - 1 : counts[r][2] = 0
           Good(r) == /\ SumFrom[r] \in [0 .. 3 -> Nat]
                      /\ Row(SumFrom[r], (ITS - r) * a, (ITS - r) * a)
                      /\ None2 => SumFrom[r][2] = 0
           T == {m \in Nat : \A r \in 0 .. ITS : r >= ITS - m => Good(r)}
<1>1. 0 \in T
  <2> SUFFICES ASSUME NEW r \in 0 .. ITS, r >= ITS - 0 PROVE Good(r)
    BY Zenon
  <2>1. r = ITS
    BY <1>0
  <2>2. SumFrom[r] = NoCounts
    BY Zenon, <2>1, SumFromIs DEF RowSum
  <2>3. (ITS - r) * a = 0
    BY <1>0, <2>1
  <2> QED
    BY <2>2, <2>3 DEF NoCounts, Row
<1>2. ASSUME NEW m \in Nat, m \in T PROVE m + 1 \in T
  <2> SUFFICES ASSUME NEW r \in 0 .. ITS, r >= ITS - (m + 1) PROVE Good(r)
    OBVIOUS
  <2>1. CASE r = ITS
    <3>1. r >= ITS - m
      BY <1>0, <2>1
    <3> QED
      BY Zenon, <1>2, <3>1
  <2>2. CASE r # ITS
    <3>1. r \in 0 .. ITS - 1 /\ r \in Nat
      BY <1>0, <2>2
    <3> DEFINE q == repeat_count(r)
               s == SumFrom[r + q]
    <3>2. q \in 1 .. ITS - r /\ r + q \in 0 .. ITS /\ r + q > r
      BY Zenon, <3>1, RepeatCount
    <3>3. SumFrom[r] = [e \in 0 .. 3 |-> counts[r][e] * q + s[e]]
      BY Zenon, <2>2, SumFromIs DEF RowSum
    <3> HIDE DEF q
    <3>4. q \in Nat /\ r + q >= ITS - m
      BY <1>0, <2>2, <3>1, <3>2
    <3>5. Good(r + q)
      BY Zenon, <1>2, <3>2, <3>4
    <3>6. s \in [0 .. 3 -> Nat] /\ counts[r] \in [0 .. 3 -> Nat]
      BY Zenon, <3>1, <3>5
    <3>7. /\ s[2] + s[3] = (ITS - (r + q)) * a /\ s[0] + s[1] = (ITS - (r + q)) * a
          /\ counts[r][2] + counts[r][3] = a /\ counts[r][0] + counts[r][1] = a
      BY Zenon, <3>1, <3>5 DEF Row
    <3> HIDE DEF s
    <3>8. \A e \in 0 .. 3 : counts[r][e] \in Nat /\ s[e] \in Nat /\ counts[r][e] * q + s[e] \in Nat
      <4>1. \A x, u \in Nat : x * q + u \in Nat
        <5> SUFFICES ASSUME NEW x \in Nat, NEW u \in Nat PROVE x * q + u \in Nat
          BY Zenon
        <5>1. x * q \in Nat
          BY <3>4
        <5> QED
          BY <5>1
      <4>2. \A e \in 0 .. 3 : counts[r][e] \in Nat /\ s[e] \in Nat
        BY Zenon, <3>6
      <4> QED
        BY <4>1, <4>2, Zenon
    <3>9. SumFrom[r] \in [0 .. 3 -> Nat] /\ \A e \in 0 .. 3 : SumFrom[r][e] = counts[r][e] * q + s[e]
      BY Zenon, <3>3, <3>8
    <3>10. \A x, y, u, v \in Nat : x + y = a /\ u + v = (ITS - (r + q)) * a
                                => (x * q + u) + (y * q + v) = (ITS - r) * a
      <4> SUFFICES ASSUME NEW x \in Nat, NEW y \in Nat, NEW u \in Nat, NEW v \in Nat,
                          x + y = a, u + v = (ITS - (r + q)) * a
                   PROVE  (x * q + u) + (y * q + v) = (ITS - r) * a
        OBVIOUS
      <4>1. x * q + y * q = a * q
        BY <3>4
      <4>2. (ITS - (r + q)) * a = (ITS - r) * a - a * q
        BY <1>0, <3>1, <3>4
      <4>3. x * q \in Nat /\ y * q \in Nat /\ a * q \in Nat /\ (ITS - r) * a \in Int
        BY <1>0, <3>1, <3>4
      <4>4. PICK xq \in Nat, yq \in Nat, aq \in Nat, ra \in Int :
                   xq = x * q /\ yq = y * q /\ aq = a * q /\ ra = (ITS - r) * a
        BY Zenon, <4>3
      <4>5. xq + yq = aq /\ u + v = ra - aq
        BY Zenon, <4>1, <4>2, <4>4
      <4>6. (xq + u) + (yq + v) = ra
        BY <4>5
      <4> QED
        BY Zenon, <4>4, <4>6
    <3>11. Row(SumFrom[r], (ITS - r) * a, (ITS - r) * a)
      <4>1. /\ (counts[r][2] * q + s[2]) + (counts[r][3] * q + s[3]) = (ITS - r) * a
            /\ (counts[r][0] * q + s[0]) + (counts[r][1] * q + s[1]) = (ITS - r) * a
        <5>1. 0 \in 0 .. 3 /\ 1 \in 0 .. 3 /\ 2 \in 0 .. 3 /\ 3 \in 0 .. 3
          OBVIOUS
        <5>2. /\ counts[r][0] \in Nat /\ counts[r][1] \in Nat /\ counts[r][2] \in Nat /\ counts[r][3] \in Nat
              /\ s[0] \in Nat /\ s[1] \in Nat /\ s[2] \in Nat /\ s[3] \in Nat
          BY <3>8, <5>1, Zenon
        <5>3. (counts[r][2] * q + s[2]) + (counts[r][3] * q + s[3]) = (ITS - r) * a
          <6>1. PICK x \in Nat, y \in Nat, u \in Nat, v \in Nat :
                       x = counts[r][2] /\ y = counts[r][3] /\ u = s[2] /\ v = s[3]
            BY Zenon, <5>2
          <6>2. x + y = a /\ u + v = (ITS - (r + q)) * a
            BY <3>7, <6>1, Zenon
          <6>3. (x * q + u) + (y * q + v) = (ITS - r) * a
            BY <3>10, <6>2
          <6> QED
            BY <6>1, <6>3, Zenon
        <5>4. (counts[r][0] * q + s[0]) + (counts[r][1] * q + s[1]) = (ITS - r) * a
          <6>1. PICK x \in Nat, y \in Nat, u \in Nat, v \in Nat :
                       x = counts[r][0] /\ y = counts[r][1] /\ u = s[0] /\ v = s[1]
            BY Zenon, <5>2
          <6>2. x + y = a /\ u + v = (ITS - (r + q)) * a
            BY <3>7, <6>1, Zenon
          <6>3. (x * q + u) + (y * q + v) = (ITS - r) * a
            BY <3>10, <6>2
          <6> QED
            BY <6>1, <6>3, Zenon
        <5> QED
          BY Zenon, <5>3, <5>4
      <4>2. /\ SumFrom[r][0] = counts[r][0] * q + s[0] /\ SumFrom[r][1] = counts[r][1] * q + s[1]
            /\ SumFrom[r][2] = counts[r][2] * q + s[2] /\ SumFrom[r][3] = counts[r][3] * q + s[3]
        BY <3>9
      <4> QED
        BY <4>1, <4>2, Zenon DEF Row
    <3>12. None2 => SumFrom[r][2] = 0
      <4> SUFFICES ASSUME None2 PROVE SumFrom[r][2] = 0
        BY Zenon
      <4>1. counts[r][2] = 0 /\ s[2] = 0
        BY Zenon, <3>1, <3>5 DEF s
      <4>2. SumFrom[r][2] = counts[r][2] * q + s[2]
        BY <3>9
      <4> QED
        BY <3>4, <4>1, <4>2
    <3> QED
      BY Zenon, <3>9, <3>11, <3>12
  <2> QED
    BY Zenon, <2>1, <2>2
<1> HIDE DEF T
<1>3. ITS \in T
  BY Zenon, <1>0, <1>1, <1>2, Induction
<1>4. Good(0)
  BY <1>0, <1>3 DEF T
<1>5. (ITS - 0) * a = ITS * a
  BY <1>0
<1> QED
  BY Zenon, <1>4, <1>5

\* What the benchmark prints tells whether the processor speculates: in mode 0
\* without --preload and --dont_remap each expectation has the counts of all pages
\* in all iterations, and a processor that does not walk ahead is never reported
\* to have read the first page where the second was expected, wherever the process
\* is moved, because each pass begins with a flush on all processors and visits no
\* page twice (main, from randindex to the printed sum).
THEOREM ResultCorrect == Spec => []ResultTellsSpeculation
<1>1. Init => CleanSteps
  BY DEF Init, CleanSteps, NoCounts
<1>2. Walks /\ CountSteps /\ CleanSteps => ResultTellsSpeculation
  <2> SUFFICES ASSUME Walks, CountSteps, CleanSteps, pc = "done", opts.mode = 0, opts.preload = 0,
                      ~opts.dont_remap
               PROVE  /\ SumFrom[0][0] + SumFrom[0][1] = ITS * opts.asize
                      /\ SumFrom[0][2] + SumFrom[0][3] = ITS * opts.asize
                      /\ ~host.speculates => SumFrom[0][2] = 0
    BY Zenon DEF ResultTellsSpeculation
  <2>1. j = ITS /\ counts \in [0 .. ITS - 1 -> [0 .. 3 -> Nat]]
    BY Zenon DEF CountSteps, Measured
  <2>2. \A r \in 0 .. ITS - 1 : Row(counts[r], opts.asize, opts.asize)
    BY <2>1, PageWalkAssumption DEF CountSteps
  <2>3. opts.asize \in Nat
    BY Zenon DEF Walks, Setting
  <2>4. /\ Row(SumFrom[0], ITS * opts.asize, ITS * opts.asize)
        /\ (\A r \in 0 .. ITS - 1 : counts[r][2] = 0) => SumFrom[0][2] = 0
    BY Zenon, <2>1, <2>2, <2>3, SumOfRows
  <2>5. ~host.speculates => \A r \in 0 .. ITS - 1 : counts[r][2] = 0
    BY Zenon DEF CleanSteps, Clean
  <2> QED
    BY Zenon, <2>4, <2>5 DEF Row
<1> QED
  BY <1>1, <1>2, WalksInit, WalksNext, TablesInit, TablesNext, CountStepsInit, CountStepsNext, CleanStepsNext,
     PTL DEF Spec
=============================================================================
