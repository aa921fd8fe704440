------------------------------ MODULE PageWalk ------------------------------
(***************************************************************************)
(* The page walk coherence benchmark, bmks/pagewalk_coherence: paging.cc,  *)
(* which maps its own page tables into a window, changes them there while  *)
(* it reads through them, and puts them back; and pgmod.c, which flushes   *)
(* the TLBs of all processors for it.                                      *)
(*                                                                         *)
(* A page table entry is the number of the page of bigbuf whose memory it  *)
(* points to.  A TLB may hold every entry a page walk has found since the  *)
(* last flush, but may drop it at any time: an access uses one of these,   *)
(* or walks again.  A processor that speculates may walk whenever it runs  *)
(* the process, and may hold every entry there was in the meantime.  The   *)
(* process may be moved to another processor between any two accesses.     *)
(*                                                                         *)
(* Left out: the time, and with it the multiplications of mode 1, whose    *)
(* product is taken to be zero; printed text; mmap, malloc and mlock when  *)
(* they fail; an array of one page.                                        *)
(***************************************************************************)
EXTENDS Naturals

CONSTANTS
  Cpus,
  None,        \* nothing yet
  PtePerPde,   \* pte_per_pde
  FullSize,    \* 4096: the pages visited before the outer loop counts one more
  ITS,
  Setups       \* options [asize, preload, mode, dont_remap] and hosts
               \* [offset, beyond, translates, speculates] to be looked at, in pairs

ASSUME PageWalkAssumption ==
  /\ PtePerPde \in Nat \ {0} /\ FullSize \in Nat \ {0} /\ ITS \in Nat \ {0}
  /\ \A s \in Setups :
       /\ s[1].asize \in Nat \ {0, 1} /\ s[1].preload \in 0 .. 2 /\ s[1].mode \in 0 .. 1
       /\ s[2].offset \in 0 .. PtePerPde - 1              \* of bigbuf in its first table
       /\ s[2].beyond \in {"absent", "other", "exits"}    \* what is behind its last
       /\ {s[1].dont_remap, s[2].translates, s[2].speculates} \subseteq BOOLEAN

VARIABLES
  opts, host,
  pc,
  i, j, k,         \* the loop counters
  cpu,             \* where the process runs
  pte,             \* the entries that map bigbuf
  window,          \* the entries that map pt_window: "own", "table", "other", "absent"
  tlb,             \* cpu -> page of bigbuf -> the entries its TLB may hold
  wtlb,            \* cpu -> page of pt_window -> the entries its TLB may hold
  old_pagetable, old_pgmap_ptes,
  randindex,
  n,               \* what was read last from bigbuf
  lcounts, counts

option == <<opts, host>>
saved == <<old_pagetable, old_pgmap_ptes, randindex>>
result == <<n, lcounts, counts>>
memory == <<pte, window, tlb, wtlb>>
vars == <<option, pc, i, j, k, cpu, memory, saved, result>>

Page == 0 .. opts.asize - 1
\* Mutant: as if bigbuf began where a table does.
num_pde_aligned == (opts.asize + PtePerPde - 1) \div PtePerPde

num_pde_to_map == (opts.asize + 2 * PtePerPde - 2) \div PtePerPde

Window == 0 .. num_pde_to_map - 1

inner_its == IF FullSize \div opts.asize < 1 THEN 1 ELSE FullSize \div opts.asize

NoCounts == [e \in 0 .. 3 |-> 0]
NoEntries(P) == [c \in Cpus |-> [p \in P |-> {}]]

Init ==
  /\ \E s \in Setups : opts = s[1] /\ host = s[2]
  /\ pc = "check" /\ i = 0 /\ j = 0 /\ k = 0
  /\ cpu \in Cpus
  /\ pte = [p \in Page |-> p] /\ window = [w \in Window |-> "own"]
  /\ tlb = NoEntries(Page) /\ wtlb = NoEntries(Window)
  /\ old_pagetable = [p \in Page |-> None] /\ old_pgmap_ptes = [w \in Window |-> None]
  /\ randindex = [p \in Page |-> None]
  /\ n = None /\ lcounts = NoCounts /\ counts = [r \in 0 .. ITS - 1 |-> NoCounts]

(***************************************************************************)
(* The processor and the kernel module.                                    *)
(***************************************************************************)

\* The first two pages of bigbuf are filled with ones and twos.
Content(f) == CASE f = 0 -> 1 [] f = 1 -> 2 [] OTHER -> 0

\* What an access to page p of bigbuf can find, and to the entry of page p in
\* pt_window.
Finds(p) == {pte[p]} \cup tlb[cpu][p]
Slot(p) == (host.offset + p) \div PtePerPde
Sees(p) ==
  IF Slot(p) \in Window THEN {window[Slot(p)]} \cup wtlb[cpu][Slot(p)] ELSE {"absent"}

\* The TLBs t when entry e, for page p, was found by a page walk; and when e may
\* have been found by a walk ahead, before it is changed.
Walked(t, p, e) == [t EXCEPT ![cpu][p] = @ \cup {e}]
WalkedAhead(t, p, e) == IF host.speculates THEN Walked(t, p, e) ELSE t

\* Mutant: flushes where it runs only.
FlushHere ==
  /\ tlb' = [tlb EXCEPT ![cpu] = [p \in Page |-> {}]]
  /\ wtlb' = [wtlb EXCEPT ![cpu] = [w \in Window |-> {}]]

\* pgmod_proc_write: on_each_cpu, and waits.
pgmod_flush_tlb == tlb' = NoEntries(Page) /\ wtlb' = NoEntries(Window)

Ended == pc \in {"done", "exit", "killed"}

\* The process leaves its entries behind in the TLB of the processor.
Migrate ==
  /\ ~Ended
  /\ cpu' \in Cpus \ {cpu}
  /\ IF host.speculates
     THEN /\ tlb' = [tlb EXCEPT ![cpu] = [p \in Page |-> @[p] \cup {pte[p]}]]
          /\ wtlb' = [wtlb EXCEPT ![cpu] = [w \in Window |-> @[w] \cup {window[w]}]]
     ELSE UNCHANGED <<tlb, wtlb>>
  /\ UNCHANGED <<option, pc, i, j, k, pte, window, saved, result>>

(***************************************************************************)
(* Accesses to memory, after which the program is at l.                    *)
(***************************************************************************)

\* There is nothing in the window, or something of another mapping.
Lost(v) == v \in {"absent", "other"}

\* p_pte[p] = f.  A stale window is memory of its own.
Store(p, f, l) ==
  \E v \in Sees(p) :
    /\ pte' = IF v = "table" THEN [pte EXCEPT ![p] = f] ELSE pte
    /\ tlb' = WalkedAhead(tlb, p, pte[p])
    /\ wtlb' = IF v = "absent" THEN wtlb ELSE Walked(wtlb, Slot(p), v)
    /\ pc' = IF Lost(v) THEN "killed" ELSE l

\* *p_thispte = f, which --dont_remap lets point to scratch_memory.
Tinker(p, f, l) ==
  IF opts.dont_remap THEN pc' = l /\ UNCHANGED <<pte, tlb, wtlb>> ELSE Store(p, f, l)

Load(p) == \E f \in Finds(p) : n' = Content(f) /\ tlb' = Walked(tlb, p, f)

\* The end of the body of a loop over i, of which there are size passes.
Again(here, size, after) == IF i + 1 = size THEN after ELSE here
Count(size) == i' = (i + 1) % size

(***************************************************************************)
(* main: the window.                                                       *)
(***************************************************************************)

\* translate exits at a large page, and at an entry that is not present, or that
\* it cannot read from /dev/mem and takes for one.
SanityCheck ==
  /\ pc = "check"
  /\ pc' = IF host.translates THEN "map" ELSE "exit"
  /\ UNCHANGED <<option, i, j, k, cpu, memory, saved, result>>

\* The table that maps the i-th stretch from the one on in which bigbuf begins.
Table(w) == IF w <= Slot(opts.asize - 1) THEN "table" ELSE host.beyond

\* change_pte for pt_window, unless translate exits.
MapWindow ==
  /\ pc = "map"
  /\ IF Table(i) = "exits" THEN pc' = "exit" /\ UNCHANGED <<i, window, wtlb, old_pgmap_ptes>>
     ELSE /\ window' = [window EXCEPT ![i] = Table(i)]
          /\ wtlb' = WalkedAhead(wtlb, i, window[i])
          /\ old_pgmap_ptes' = [old_pgmap_ptes EXCEPT ![i] = window[i]]
          /\ pc' = Again("map", num_pde_to_map, "mapped") /\ Count(num_pde_to_map)
  /\ UNCHANGED <<option, j, k, cpu, pte, tlb, old_pagetable, randindex, result>>

GoOn(here, l) == pc = here /\ pc' = l /\ UNCHANGED <<option, i, j, k, cpu, memory, saved, result>>

FlushAt(here, l) ==
  /\ pc = here /\ pc' = l
  /\ pgmod_flush_tlb
  /\ UNCHANGED <<option, i, j, k, cpu, pte, window, saved, result>>

\* The entries as the window shows them.
Backup ==
  /\ pc = "backup"
  /\ \E v \in Sees(i) :
       /\ old_pagetable' = [old_pagetable EXCEPT ![i] = IF v = "table" THEN pte[i] ELSE None]
       /\ wtlb' = IF v = "absent" THEN wtlb ELSE Walked(wtlb, Slot(i), v)
       /\ pc' = IF Lost(v) THEN "killed" ELSE Again("backup", opts.asize, "fill")
  /\ Count(opts.asize)
  /\ UNCHANGED <<option, j, k, cpu, pte, window, tlb, old_pgmap_ptes, randindex, result>>

map_pte1 == old_pagetable[0]
map_pte2 == old_pagetable[1]

\* Pages 0 and 1 are written, and so are their entries in the TLB.
Fill ==
  /\ pc = "fill" /\ pc' = "shuffle"
  /\ tlb' = Walked(Walked(tlb, 0, pte[0]), 1, pte[1])
  /\ UNCHANGED <<option, i, j, k, cpu, pte, window, wtlb, saved, result>>

\* Mutant: the element at the other place is not moved away.
ShuffleOver ==
  /\ pc = "shuffle"
  /\ \E r \in 0 .. i : randindex' = [randindex EXCEPT ![i] = i, ![r] = i]
  /\ pc' = Again("shuffle", opts.asize, "preload") /\ Count(opts.asize)
  /\ UNCHANGED <<option, j, k, cpu, memory, old_pagetable, old_pgmap_ptes, result>>

\* A random permutation of the pages, one element after the other; the place of
\* the new element is not initialized yet.
Shuffle ==
  /\ pc = "shuffle"
  /\ \E r \in 0 .. i : randindex' = [[randindex EXCEPT ![i] = randindex[r]] EXCEPT ![r] = i]
  /\ pc' = Again("shuffle", opts.asize, "preload") /\ Count(opts.asize)
  /\ UNCHANGED <<option, j, k, cpu, memory, old_pagetable, old_pgmap_ptes, result>>

(***************************************************************************)
(* main: the measurement.                                                  *)
(***************************************************************************)

\* --preload: entries to read into the TLB ...
Preload ==
  /\ pc = "preload" /\ opts.preload # 0
  /\ Store(i, IF opts.preload = 1 THEN map_pte1 ELSE map_pte2,
           Again("preload", opts.asize, "preloaded"))
  /\ Count(opts.asize)
  /\ UNCHANGED <<option, j, k, cpu, window, saved, result>>

\* ... from where the sum of the counts cannot but be asize.
Touch ==
  /\ pc = "touch"
  /\ Load(randindex[i])
  /\ pc' = Again("touch", opts.asize, "init") /\ Count(opts.asize)
  /\ UNCHANGED <<option, j, k, cpu, pte, window, wtlb, saved, lcounts, counts>>

NoPreload == opts.preload = 0 /\ FlushAt("preload", "init")

\* All of bigbuf is the first page.
InitPtes ==
  /\ pc = "init"
  /\ Store(i, map_pte1, Again("init", opts.asize, "pass"))
  /\ Count(opts.asize)
  /\ UNCHANGED <<option, j, k, cpu, window, saved, result>>

\* Each pass of mode 0 begins with a flush, unless the TLB was preloaded.
BeginPass ==
  IF opts.mode = 0 /\ opts.preload = 0 THEN FlushAt("pass", "store2")
  ELSE GoOn("pass", IF opts.mode = 0 THEN "store2" ELSE "store1")

p_this == randindex[i]

Store2 ==
  /\ pc = "store2" /\ Tinker(p_this, map_pte2, "load2")
  /\ UNCHANGED <<option, i, j, k, cpu, window, saved, result>>

Load2 ==
  /\ pc = "load2" /\ pc' = "store1"
  /\ Load(p_this) /\ lcounts' = [lcounts EXCEPT ![n' + 1] = @ + 1]
  /\ UNCHANGED <<option, i, j, k, cpu, pte, window, wtlb, saved, counts>>

\* Mode 1 has only this store and this load.
Store1 ==
  /\ pc = "store1" /\ Tinker(p_this, map_pte1, "load1")
  /\ UNCHANGED <<option, i, j, k, cpu, window, saved, result>>

Load1 ==
  /\ pc = "load1"
  /\ Load(p_this)
  /\ lcounts' = IF opts.mode = 0 /\ n' # 0 THEN [lcounts EXCEPT ![n' - 1] = @ + 1] ELSE lcounts
  /\ pc' = Again(IF opts.mode = 0 THEN "store2" ELSE "store1", opts.asize, "passed")
  /\ Count(opts.asize)
  /\ UNCHANGED <<option, j, k, cpu, pte, window, wtlb, saved, counts>>

\* The counts of an iteration are those of its last pass.
EndPass ==
  /\ pc = "passed"
  /\ counts' = [counts EXCEPT ![j] = lcounts] /\ lcounts' = NoCounts
  /\ k' = (k + 1) % inner_its
  /\ j' = IF k + 1 = inner_its THEN j + 1 ELSE j
  /\ pc' = IF j' = ITS THEN "measured" ELSE "pass"
  /\ UNCHANGED <<option, i, cpu, memory, saved, n>>

(***************************************************************************)
(* main: the end.                                                          *)
(***************************************************************************)

\* p_pte[i] = old_pagetable[i]
Restore ==
  /\ pc = "restore"
  /\ Store(i, old_pagetable[i], Again("restore", opts.asize, "unmap"))
  /\ Count(opts.asize)
  /\ UNCHANGED <<option, j, k, cpu, window, saved, result>>

UnmapWindow ==
  /\ pc = "unmap"
  /\ window' = [window EXCEPT ![i] = old_pgmap_ptes[i]]
  /\ wtlb' = WalkedAhead(wtlb, i, window[i])
  /\ pc' = Again("unmap", num_pde_to_map, "unmapped") /\ Count(num_pde_to_map)
  /\ UNCHANGED <<option, j, k, cpu, pte, tlb, saved, result>>

Main ==
  \/ SanityCheck \/ MapWindow \/ FlushAt("mapped", "backup") \/ Backup \/ Fill \/ Shuffle
  \/ Preload \/ FlushAt("preloaded", "touch") \/ Touch \/ NoPreload \/ InitPtes
  \/ BeginPass \/ Store2 \/ Load2 \/ Store1 \/ Load1 \/ EndPass
  \/ FlushAt("measured", "restore") \/ Restore \/ UnmapWindow \/ FlushAt("unmapped", "done")

Next == Main \/ Migrate

Spec == Init /\ [][Next]_vars

-----------------------------------------------------------------------------
(***************************************************************************)
(* What is printed: rows that are the same are added up at once.           *)
(***************************************************************************)

\* How many rows from r on are the same as that one.
repeat_count(r) ==
  CHOOSE q \in 1 .. ITS - r :
    /\ \A s \in r .. r + q - 1 : counts[s] = counts[r]
    /\ r + q < ITS => counts[r + q] # counts[r]

SumFrom[r \in 0 .. ITS] ==
  IF r = ITS THEN NoCounts
  ELSE [e \in 0 .. 3 |-> counts[r][e] * repeat_count(r) + SumFrom[r + repeat_count(r)][e]]

\* "n is always 1 or 2", with which the counts are indexed: the program never
\* reads a page through an entry from before it had changed them all, also if
\* its processor walks ahead, or it was moved to another one.
OneOrTwo == opts.mode = 0 \/ pc \in {"touch", "init"} => n \in {None, 1, 2}

\* "Flush TLB between iterations to guarantee no stray TLB hits across
\* iterations": a processor that does not speculate is never reported to have
\* read the first page where the second was expected, and each expectation has
\* the counts of all pages in all iterations.
ResultTellsSpeculation ==
  pc = "done" /\ opts.mode = 0 /\ opts.preload = 0 /\ ~opts.dont_remap =>
    LET sum == SumFrom[0] IN
    /\ sum[0] + sum[1] = ITS * opts.asize /\ sum[2] + sum[3] = ITS * opts.asize
    /\ ~host.speculates => sum[2] = 0

\* The page tables are restored "so the OS doesn't complain of corrupted page
\* tables": when the process is over, its entries are those it began with, and no
\* TLB has another one.  The exit of translate when the window is half mapped is
\* the one that its own comment warns of.
TablesRestored ==
  /\ pc # "killed"
  /\ Ended /\ ~(pc = "exit" /\ host.beyond = "exits") =>
       /\ pte = [p \in Page |-> p] /\ window = [w \in Window |-> "own"]
       /\ \A c \in Cpus : /\ \A p \in Page : tlb[c][p] \subseteq {p}
                          /\ \A w \in Window : wtlb[c][w] \subseteq {"own"}
=============================================================================
