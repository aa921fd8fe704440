----------------------------- MODULE MCPageWalk -----------------------------
EXTENDS PageWalk, TLC

Option == [asize : {2, 3}, preload : 0 .. 2, mode : 0 .. 1, dont_remap : BOOLEAN]
Host ==
  [offset : 0 .. PtePerPde - 1, beyond : {"absent", "other", "exits"}, translates : BOOLEAN,
   speculates : BOOLEAN]

\* Every place of bigbuf in its first table, and everything that can be behind its
\* last one, with two pages; the measurement also with three, of which one is not
\* backing memory.  Where nothing is flushed, only the processor that speculates,
\* which can do what the other one can.
MCSetups ==
  {s \in Option \X Host :
     /\ s[1].asize = 3 => /\ s[1].preload # 1 /\ s[1].mode = 0 /\ ~s[1].dont_remap
                          /\ s[2].offset = 1 /\ s[2].beyond = "absent"
     /\ s[1].preload # 0 /\ s[1].mode = 0 => s[2].speculates
     /\ s[1].dont_remap => s[1].mode = 0 /\ s[2].offset = 1
     /\ s[2].speculates => s[2].offset = 1 /\ s[2].beyond = "absent"
     /\ ~s[2].translates => s[2].offset = 0 /\ s[2].beyond = "absent"}

Symmetry == Permutations(Cpus)
=============================================================================
