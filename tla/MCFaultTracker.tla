--------------------------- MODULE MCFaultTracker ---------------------------
(***************************************************************************)
(* Instances of FaultTracker for TLC.                                      *)
(***************************************************************************)
EXTENDS FaultTracker, TLC

\* The driver starts the script before a batch workload and after a server,
\* with names below and above the 15 characters of comm.
Batch == [name |-> 17, early |-> FALSE, misses |-> FALSE]
Server == [name |-> 8, early |-> TRUE, misses |-> TRUE]
MCSetups == {Batch, Server}
ServerSetups == {[Server EXCEPT !.misses = FALSE]}

\* Thread ids are only compared and looked up.
Symmetry == Permutations(Tids)
=============================================================================
