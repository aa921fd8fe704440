---------------------------- MODULE MCGupsHotset ----------------------------
(***************************************************************************)
(* GupsHotset for TLC: Size and HotBytes give regions of four elements,    *)
(* all of them hot, of which one moves, and there is no room for it.       *)
(***************************************************************************)
EXTENDS GupsHotset

Elements == 4
MCSize == Threads * Elements * EltSize
MCHotBytes == MCSize
=============================================================================
