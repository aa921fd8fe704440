------------------------------ MODULE MsgQueue ------------------------------
(***************************************************************************)
(* What the header of storage/ipc/shm_mq.c promises: a "single-reader,     *)
(* single-writer" queue of messages.                                       *)
(***************************************************************************)
EXTENDS Sequences

CONSTANT Message
VARIABLES queue, delivered

Init == queue = <<>> /\ delivered = <<>>

Put(m) == queue' = Append(queue, m) /\ UNCHANGED delivered

Get ==
  /\ queue # <<>>
  /\ delivered' = Append(delivered, Head(queue))
  /\ queue' = Tail(queue)

Next == Get \/ \E m \in Message : Put(m)

Spec == Init /\ [][Next]_<<queue, delivered>>
=============================================================================
