----------------------------- MODULE MCAllocTest -----------------------------
(***************************************************************************)
(* Instances of AllocTest for TLC.                                         *)
(***************************************************************************)
EXTENDS AllocTest

\* No thread, main alone, and several; with one mapping and, for two, with more.
MCArgs == [threads : 0..3, allocs : {1}, pages : {2}, touch : BOOLEAN]
          \cup [threads : {2}, allocs : {0, 2}, pages : {1}, touch : BOOLEAN]

\* Mappings of one page more than 2 GB.
LargeArgs == [threads : {1}, allocs : {1}, pages : {2^19 + 1}, touch : {TRUE}]
=============================================================================
