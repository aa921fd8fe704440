------------------------------- MODULE ShmMq --------------------------------
(***************************************************************************)
(* storage/ipc/shm_mq.c of bmks/postgres: a ring buffer in shared memory   *)
(* from one sender to one receiver.                                        *)
(*                                                                         *)
(* The unit is MAXIMUM_ALIGNOF bytes, a cell; a length word is one cell    *)
(* and cannot be split (sizeof(Size) = MAXIMUM_ALIGNOF on 64 bits).  A     *)
(* step is one access to what both share: a counter, mq_detached, a        *)
(* pointer under mq_mutex, a latch, or the bytes of one memcpy.  One side, *)
(* the leader, made the queue and attached to it; the other is a           *)
(* background worker that attaches later or never starts.                  *)
(***************************************************************************)
EXTENDS Integers, Sequences

CONSTANTS
  Length,     \* Length[m]: the cells of message m; they are sent in order
  RingSize,   \* mq_ring_size, in cells
  Leaders,    \* "S", "R": who may have made the queue
  Handles,    \* may the leader have attached with a BackgroundWorkerHandle, without one?
  NoWaits,    \* the values of nowait that callers use
  Flushes,    \* the values of force_flush that callers use
  MayAbort,   \* the sides that may end with an error
  MayDetach   \* the sides that may detach when they have had enough, also
              \* with a message begun

ASSUME ShmMqAssumption ==
  /\ Length \in Seq(Nat) /\ RingSize \in Nat \ {0}
  /\ Leaders \subseteq {"S", "R"} /\ Handles \subseteq BOOLEAN
  /\ NoWaits \subseteq BOOLEAN /\ Flushes \subseteq BOOLEAN
  /\ MayAbort \subseteq {"S", "R"} /\ MayDetach \subseteq {"S", "R"}

Sides == {"S", "R"}
Other(x) == IF x = "S" THEN "R" ELSE "S"

VARIABLES
  ring, bytesRead, bytesWritten, detached,   \* shm_mq
  attached,     \* attached[x]: mq_sender, mq_receiver
  latch,        \* latch[x]: its procLatch
  worker,       \* the background worker: its side, its status ("not_yet_started",
                \* "started", "stopped"), and whether the leader has a handle for it
  pc,           \* pc[x]: where the side is
  nowait,       \* nowait[x]: how it makes its calls
  known,        \* mqh_counterparty_attached
  lengthDone,   \* mqh_length_word_complete
  partial,      \* mqh_partial_bytes
  expected,     \* mqh_expected_bytes
  seen,         \* seen[x]: the other side's counter as last read
  pending,      \* pending["S"]: mqh_send_pending; pending["R"]: mqh_consume_pending
  flush,        \* force_flush of the call
  gone,         \* counterparty_gone of the receiver
  buffer,       \* mqh_buffer, the cells copied so far
  got,          \* the last message the receiver got: where it points, and its cells
  sent,         \* messages sent completely
  flushed,      \* messages made visible by a send that has returned
  received      \* messages received

shm == <<ring, bytesRead, bytesWritten, detached, attached>>
history == <<sent, flushed, received>>
local == <<nowait, known, lengthDone, partial, expected, seen, pending, flush, gone, buffer, got>>
vars == <<shm, latch, worker, pc, local, history>>

Messages == DOMAIN Length

\* The cells of messages 1 to m, length words included.
End[m \in 0 .. Len(Length)] == IF m = 0 THEN 0 ELSE End[m - 1] + 1 + Length[m]

Cells(m) == [i \in 1 .. Length[m] |-> <<m, i>>]
Leader == Other(worker.side)
None == [at |-> -1, cells |-> <<>>]

Init ==
  /\ ring = [o \in 0 .. RingSize - 1 |-> <<0, 0>>]
  /\ bytesRead = 0 /\ bytesWritten = 0 /\ detached = FALSE
  /\ worker \in [side : {Other(l) : l \in Leaders}, status : {"not_yet_started"},
                 handle : Handles]
  /\ attached = [x \in Sides |-> x = Leader]
  /\ latch = [x \in Sides |-> FALSE]
  /\ pc = [x \in Sides |-> IF x = Leader THEN "idle" ELSE "none"]
  /\ nowait \in [Sides -> NoWaits]
  /\ known = [x \in Sides |-> FALSE]
  /\ lengthDone = [x \in Sides |-> FALSE]
  /\ partial = [x \in Sides |-> 0]
  /\ expected = 0
  /\ seen = [x \in Sides |-> 0]
  /\ pending = [x \in Sides |-> 0]
  /\ flush = FALSE /\ gone = FALSE
  /\ buffer = <<>> /\ got = None
  /\ sent = 0 /\ flushed = 0 /\ received = <<>>

At(x, l) == pc[x] = l
Goto(x, l) == pc' = [pc EXCEPT ![x] = l]
SetLatch(x) == latch' = [latch EXCEPT ![x] = TRUE]

(***************************************************************************)
(* Attaching, the death of the worker, detaching.                          *)
(***************************************************************************)

\* shm_mq_set_sender and shm_mq_set_receiver, shm_mq_attach.  The leader's
\* latch is set a step later.
Attach(x) ==
  /\ At(x, "none") /\ worker.status = "not_yet_started"
  /\ worker' = [worker EXCEPT !.status = "started"]
  /\ attached' = [attached EXCEPT ![x] = TRUE]
  /\ Goto(x, "notify_attach")
  /\ UNCHANGED <<ring, bytesRead, bytesWritten, detached, latch, local, history>>

NotifyAttach(x) ==
  /\ At(x, "notify_attach")
  /\ SetLatch(Other(x))
  /\ Goto(x, "idle")
  /\ UNCHANGED <<shm, worker, local, history>>

\* The worker cannot be started; the postmaster signals bgw_notify_pid.
NeverStarts(x) ==
  /\ At(x, "none") /\ worker.status = "not_yet_started"
  /\ worker' = [worker EXCEPT !.status = "stopped"]
  /\ SetLatch(Leader)
  /\ Goto(x, "end")
  /\ UNCHANGED <<shm, local, history>>

\* shm_mq_detach: the pending bytes, then shm_mq_detach_internal.  A caller that
\* does not wait has the handle back while a message is under way.
Detach(x) ==
  /\ \/ At(x, "idle") /\ (x \in MayDetach \/ (x = "S" /\ sent = Len(Length)))
     \/ At(x, "wait") /\ nowait[x] /\ x \in MayDetach
  /\ bytesWritten' = bytesWritten + (IF x = "S" THEN pending["S"] ELSE 0)
  /\ pending' = IF x = "S" THEN [pending EXCEPT !["S"] = 0] ELSE pending
  /\ Goto(x, "detach")
  /\ UNCHANGED <<nowait, ring, bytesRead, detached, attached, latch, worker, known,
                 lengthDone, partial, expected, seen, flush, gone, buffer, got, history>>

\* An error: shm_mq_detach_callback does only the second part.
Abort(x) ==
  /\ x \in MayAbort /\ pc[x] \in {"idle", "wait", "wait_attach"}
  /\ Goto(x, "detach")
  /\ UNCHANGED <<shm, latch, worker, local, history>>

\* mq_detached is set and the victim looked up under the mutex ...
DetachInternal(x) ==
  /\ At(x, "detach")
  /\ detached' = TRUE
  /\ Goto(x, IF attached[Other(x)] THEN "notify_detach" ELSE "end")
  /\ UNCHANGED <<ring, bytesRead, bytesWritten, attached, latch, worker, local, history>>

\* ... and told after that.
NotifyDetach(x) ==
  /\ At(x, "notify_detach")
  /\ SetLatch(Other(x))
  /\ worker' = IF x = Leader THEN worker ELSE [worker EXCEPT !.status = "stopped"]
  /\ Goto(x, "end")
  /\ UNCHANGED <<shm, local, history>>

\* A call that returned SHM_MQ_DETACHED: the caller ends.
EndDetached(x) == Goto(x, "detached")

(***************************************************************************)
(* Waiting.  With nowait the call returns SHM_MQ_WOULD_BLOCK and the       *)
(* caller waits for the same latch and calls again.                        *)
(***************************************************************************)

\* WaitLatch and ResetLatch; then the loop or the call starts again.
Wait(x) ==
  /\ pc[x] \in {"wait", "wait_attach"} /\ latch[x]
  /\ latch' = [latch EXCEPT ![x] = FALSE]
  /\ Goto(x, CASE nowait[x] /\ x = "R" -> "start"
               [] ~ nowait[x] /\ At(x, "wait_attach") -> "attached?"
               [] OTHER -> "look")
  /\ UNCHANGED <<shm, worker, local, history>>

\* shm_mq_wait_internal: the pointer, under the mutex ...
CheckAttached(x) ==
  /\ At(x, "attached?")
  /\ Goto(x, IF attached[Other(x)] THEN "attached" ELSE "unattached")
  /\ UNCHANGED <<shm, latch, worker, local, history>>

\* GetBackgroundWorkerPid, where handle != NULL: the worker is neither started
\* nor yet to be started.
WorkerDied(x) == x = Leader /\ worker.handle /\ worker.status = "stopped"

\* ... then mq_detached, and the worker.
CheckDetached(x) ==
  /\ pc[x] \in {"attached", "unattached"}
  /\ Goto(x, CASE detached -> "failed_attach"
               [] ~ detached /\ At(x, "attached") -> "know"
               [] OTHER -> IF WorkerDied(x) THEN "failed_attach" ELSE "wait_attach")
  /\ UNCHANGED <<shm, latch, worker, local, history>>

\* Mutant: a sender that has waited for the receiver waits on, for space.
KnownWaits(x) == IF x = "S" THEN "wait" ELSE "consume"

\* Where a side goes on when it knows the other to be attached: "The receiver may
\* have read some data after attaching, so we must not wait without rechecking".
Known(x) == IF x = "S" THEN "look" ELSE "consume"

\* Mutant: a wait that failed is taken for one that is over.
FailedAttachGoesOn(x) ==
  /\ At(x, "failed_attach")
  /\ Goto(x, CASE x = "R" /\ attached["S"] -> "know"
               [] x = "R" /\ ~ attached["S"] -> "attached?"
               [] OTHER -> "look")
  /\ UNCHANGED <<shm, latch, worker, local, history>>

\* The receiver looks once more whether the sender had attached.
FailedAttach(x) ==
  /\ At(x, "failed_attach")
  /\ IF x = "R" /\ attached["S"]
     THEN Goto(x, "know") /\ detached' = detached
     ELSE EndDetached(x) /\ detached' = TRUE
  /\ UNCHANGED <<ring, bytesRead, bytesWritten, attached, latch, worker, local, history>>

Know(x) ==
  /\ At(x, "know")
  /\ known' = [known EXCEPT ![x] = TRUE]
  /\ Goto(x, Known(x))
  /\ UNCHANGED <<nowait, shm, latch, worker, lengthDone, partial, expected, seen, pending,
                 flush, gone, buffer, got, history>>

\* shm_mq_counterparty_gone, with nowait.
CounterpartyGone(x) ==
  /\ At(x, "gone?")
  /\ LET g == detached \/ WorkerDied(x)
     IN /\ detached' = g
        /\ IF x = "S" /\ g THEN EndDetached(x) /\ gone' = gone
           ELSE Goto(x, "attached_nowait?") /\ gone' = (IF x = "R" THEN g ELSE gone)
  /\ UNCHANGED <<nowait, ring, bytesRead, bytesWritten, attached, latch, worker, known,
                 lengthDone, partial, expected, seen, pending, flush, buffer, got, history>>

\* "test whether our counterparty is definitively gone first, and only
\* afterwards check whether the sender ever attached"
AttachedNowait(x) ==
  /\ At(x, "attached_nowait?")
  /\ CASE attached[Other(x)] -> Goto(x, "know")
       [] ~ attached[Other(x)] /\ x = "R" /\ gone -> EndDetached(x)
       [] OTHER -> Goto(x, "wait")
  /\ UNCHANGED <<shm, latch, worker, local, history>>

(***************************************************************************)
(* The sender: shm_mq_sendv and shm_mq_send_bytes.                         *)
(***************************************************************************)

Written == bytesWritten + pending["S"]

Send(f) ==
  /\ At("S", "idle") /\ sent < Len(Length)
  /\ flush' = f
  /\ Goto("S", "look")
  /\ UNCHANGED <<nowait, shm, latch, worker, known, lengthDone, partial, expected, seen,
                 pending, gone, buffer, got, history>>

\* Mutant: after a wait the message is sent from its beginning.
ToSendAgain == IF lengthDone["S"] THEN SubSeq(Cells(sent + 1), 1, Length[sent + 1] - partial["S"])
               ELSE <<<<sent + 1, 0>>>>

\* What the current call of shm_mq_send_bytes still has to write: the length
\* word, or the rest of the message.
ToSend == IF lengthDone["S"] THEN SubSeq(Cells(sent + 1), partial["S"] + 1, Length[sent + 1])
          ELSE <<<<sent + 1, 0>>>>

LookRead ==
  /\ At("S", "look")
  /\ seen' = [seen EXCEPT !["S"] = bytesRead]
  /\ Goto("S", "act")
  /\ UNCHANGED <<nowait, shm, latch, worker, known, lengthDone, partial, expected, pending,
                 flush, gone, buffer, got, history>>

Space == RingSize - (Written - seen["S"])

SendDetached ==
  /\ At("S", "act") /\ detached
  /\ partial' = [partial EXCEPT !["S"] = 0]
  /\ lengthDone' = [lengthDone EXCEPT !["S"] = FALSE]
  /\ EndDetached("S")
  /\ UNCHANGED <<nowait, shm, latch, worker, known, expected, seen, pending, flush, gone,
                 buffer, got, history>>

\* The queue is full and the receiver not known to be there.
SendUnknown ==
  /\ At("S", "act") /\ ~ detached /\ Space = 0 /\ ~ known["S"]
  /\ Goto("S", IF nowait["S"] THEN "gone?" ELSE "attached?")
  /\ UNCHANGED <<shm, latch, worker, local, history>>

\* The queue is full: what is pending is made visible ...
SendFull ==
  /\ At("S", "act") /\ ~ detached /\ Space = 0 /\ known["S"]
  /\ bytesWritten' = Written
  /\ pending' = [pending EXCEPT !["S"] = 0]
  /\ Goto("S", "full")
  /\ UNCHANGED <<nowait, ring, bytesRead, detached, attached, latch, worker, known,
                 lengthDone, partial, expected, seen, flush, gone, buffer, got, history>>

\* ... and the receiver is told.
FullLatch ==
  /\ At("S", "full")
  /\ SetLatch("R")
  /\ Goto("S", "wait")
  /\ UNCHANGED <<shm, worker, local, history>>

Min2(a, b) == IF a < b THEN a ELSE b

\* Mutant: one cell too many is taken for free.
ChunkOver == Min2(Min2(Space + 1, Len(ToSend)), RingSize - (Written % RingSize))

\* sendnow
Chunk == Min2(Min2(Space, Len(ToSend)), RingSize - (Written % RingSize))

\* memcpy into the ring.
SendChunk ==
  /\ At("S", "act") /\ ~ detached /\ Space > 0
  /\ LET o == Written % RingSize
         rest == Len(ToSend) - Chunk
         whole == IF lengthDone["S"] THEN rest = 0 ELSE Length[sent + 1] = 0
     IN /\ ring' = [i \in DOMAIN ring |-> IF i \in o .. o + Chunk - 1 THEN ToSend[i - o + 1]
                                          ELSE ring[i]]
        /\ pending' = [pending EXCEPT !["S"] = @ + Chunk]
        /\ lengthDone' = [lengthDone EXCEPT !["S"] = ~ whole]
        /\ partial' = [partial EXCEPT !["S"] = IF whole \/ ~ lengthDone["S"] THEN 0 ELSE @ + Chunk]
        /\ sent' = sent + (IF whole THEN 1 ELSE 0)
        /\ Goto("S", IF whole THEN "sent" ELSE "look")
  /\ UNCHANGED <<nowait, bytesRead, bytesWritten, detached, attached, latch, worker, known,
                 expected, seen, flush, gone, buffer, got, flushed, received>>

\* The message is written; then mq_detached, then mq_receiver, under the mutex.
Sent ==
  /\ At("S", "sent")
  /\ IF detached THEN EndDetached("S") ELSE Goto("S", "receiver?")
  /\ UNCHANGED <<shm, latch, worker, local, history>>

FlushNow == flush \/ 4 * pending["S"] > RingSize

LookReceiver ==
  /\ At("S", "receiver?")
  /\ known' = [known EXCEPT !["S"] = attached["R"]]
  /\ Goto("S", IF FlushNow THEN "flush" ELSE "idle")
  /\ UNCHANGED <<nowait, shm, latch, worker, lengthDone, partial, expected, seen, pending,
                 flush, gone, buffer, got, history>>

\* Mutant: what is pending is not made visible.
FlushKeeps ==
  /\ At("S", "flush")
  /\ Goto("S", "flush_latch")
  /\ UNCHANGED <<shm, latch, worker, local, history>>

\* shm_mq_inc_bytes_written
Flush ==
  /\ At("S", "flush")
  /\ bytesWritten' = Written
  /\ pending' = [pending EXCEPT !["S"] = 0]
  /\ Goto("S", "flush_latch")
  /\ UNCHANGED <<nowait, ring, bytesRead, detached, attached, latch, worker, known,
                 lengthDone, partial, expected, seen, flush, gone, buffer, got, history>>

\* The receiver is told if it was attached then.
FlushLatch ==
  /\ At("S", "flush_latch")
  /\ latch' = [latch EXCEPT !["R"] = @ \/ known["S"]]
  /\ flushed' = sent
  /\ Goto("S", "idle")
  /\ UNCHANGED <<shm, worker, sent, received, local>>

(***************************************************************************)
(* The receiver: shm_mq_receive and shm_mq_receive_bytes.                  *)
(***************************************************************************)

Read == bytesRead + pending["R"]

\* The message of the call before is not valid any more.
Receive ==
  /\ (At("R", "idle") /\ got' = None) \/ (At("R", "start") /\ got' = got)
  /\ Goto("R", CASE known["R"] -> "consume"
                 [] ~ known["R"] /\ nowait["R"] -> "gone?"
                 [] OTHER -> "attached?")
  /\ UNCHANGED <<nowait, shm, latch, worker, known, lengthDone, partial, expected, seen,
                 pending, flush, gone, buffer, history>>

\* "If we've consumed an amount of data greater than 1/4th of the ring size"
Consume ==
  /\ At("R", "consume")
  /\ IF 4 * pending["R"] > RingSize
     THEN bytesRead' = Read /\ pending' = [pending EXCEPT !["R"] = 0] /\ Goto("R", "consume_latch")
     ELSE UNCHANGED <<bytesRead, pending>> /\ Goto("R", "look")
  /\ UNCHANGED <<nowait, ring, bytesWritten, detached, attached, latch, worker, known,
                 lengthDone, partial, expected, seen, flush, gone, buffer, got, history>>

\* The end of shm_mq_inc_bytes_read.
ConsumeLatch(l, next) ==
  /\ At("R", l)
  /\ SetLatch("S")
  /\ Goto("R", next)
  /\ UNCHANGED <<shm, worker, local, history>>

LookWritten ==
  /\ At("R", "look")
  /\ seen' = [seen EXCEPT !["R"] = bytesWritten]
  /\ Goto("R", "act")
  /\ UNCHANGED <<nowait, shm, latch, worker, known, lengthDone, partial, expected, pending,
                 flush, gone, buffer, got, history>>

Used == seen["R"] - Read
Offset == Read % RingSize

Needed == IF lengthDone["R"] THEN expected - partial["R"] ELSE 1
Enough == Used >= Needed \/ Offset + Used >= RingSize

\* What can be read at once.
Run == Min2(Used, RingSize - Offset)
CellsAt(o, n) == [i \in 1 .. n |-> ring[o + i - 1]]

Deliver(o, cells) ==
  /\ got' = [at |-> o, cells |-> cells]
  /\ received' = Append(received, cells)
  /\ lengthDone' = [lengthDone EXCEPT !["R"] = FALSE]
  /\ partial' = [partial EXCEPT !["R"] = 0]
  /\ buffer' = <<>>
  /\ Goto("R", "idle")

Take(n) == pending' = [pending EXCEPT !["R"] = @ + n]

\* Mutant: a message that is returned is given back to the sender.
ReceiveWordFrees ==
  /\ At("R", "act") /\ Enough /\ ~ lengthDone["R"]
  /\ LET n == Length[ring[Offset][1]]
     IN IF Run >= 1 + n
        THEN /\ bytesRead' = Read + 1 + n
             /\ pending' = [pending EXCEPT !["R"] = 0]
             /\ SetLatch("S")
             /\ Deliver(Offset + 1, CellsAt(Offset + 1, n)) /\ UNCHANGED expected
        ELSE /\ Take(1)
             /\ expected' = n
             /\ lengthDone' = [lengthDone EXCEPT !["R"] = TRUE]
             /\ Goto("R", "look")
             /\ UNCHANGED <<bytesRead, latch, partial, buffer, got, received>>
  /\ UNCHANGED <<nowait, ring, bytesWritten, detached, attached, worker, known, seen,
                 flush, gone, sent, flushed>>

\* The length word is there: perhaps the whole message.
ReceiveWord ==
  /\ At("R", "act") /\ Enough /\ ~ lengthDone["R"]
  /\ LET n == Length[ring[Offset][1]]
     IN IF Run >= 1 + n
        THEN Take(1 + n) /\ Deliver(Offset + 1, CellsAt(Offset + 1, n)) /\ UNCHANGED expected
        ELSE /\ Take(1)
             /\ expected' = n
             /\ lengthDone' = [lengthDone EXCEPT !["R"] = TRUE]
             /\ Goto("R", "look")
             /\ UNCHANGED <<partial, buffer, got, received>>
  /\ UNCHANGED <<nowait, shm, latch, worker, known, seen, flush, gone, sent, flushed>>

\* The rest: in one piece, or put together in the buffer.
ReceivePart ==
  /\ At("R", "act") /\ Enough /\ lengthDone["R"]
  /\ LET n == Min2(Run, Needed)
         cells == CellsAt(Offset, n)
     IN /\ Take(n)
        /\ IF n = Needed THEN Deliver(IF partial["R"] = 0 THEN Offset ELSE -1, buffer \o cells)
           ELSE /\ buffer' = buffer \o cells
                /\ partial' = [partial EXCEPT !["R"] = @ + n]
                /\ Goto("R", "look")
                /\ UNCHANGED <<lengthDone, got, received>>
  /\ UNCHANGED <<nowait, shm, latch, worker, known, expected, seen, flush, gone, sent,
                 flushed>>

\* Not enough: mq_detached is looked at after that.
ReceiveShort ==
  /\ At("R", "act") /\ ~ Enough
  /\ Goto("R", IF detached THEN "again?" ELSE "short")
  /\ UNCHANGED <<shm, latch, worker, local, history>>

\* Mutant: does not look at the counter again.
NotAgain ==
  /\ At("R", "again?")
  /\ EndDetached("R")
  /\ UNCHANGED <<shm, latch, worker, local, history>>

\* "we might not have read the final value of mq_bytes_written above"
Again ==
  /\ At("R", "again?")
  /\ IF seen["R"] # bytesWritten THEN Goto("R", "look") ELSE EndDetached("R")
  /\ UNCHANGED <<shm, latch, worker, local, history>>

\* Before it waits it gives back what it has consumed.
Short ==
  /\ At("R", "short")
  /\ bytesRead' = Read
  /\ pending' = [pending EXCEPT !["R"] = 0]
  /\ Goto("R", IF pending["R"] > 0 THEN "short_latch" ELSE "wait")
  /\ UNCHANGED <<nowait, ring, bytesWritten, detached, attached, latch, worker, known,
                 lengthDone, partial, expected, seen, flush, gone, buffer, got, history>>

(***************************************************************************)

Waiting(x) ==
  Wait(x) \/ CheckAttached(x) \/ CheckDetached(x) \/ FailedAttach(x) \/ Know(x)
  \/ CounterpartyGone(x) \/ AttachedNowait(x)
Leaving(x) == DetachInternal(x) \/ NotifyDetach(x)

Sender ==
  LookRead \/ SendDetached \/ SendUnknown \/ SendFull \/ FullLatch \/ SendChunk \/ Sent
  \/ LookReceiver \/ Flush \/ FlushLatch

Receiver ==
  Receive \/ Consume \/ ConsumeLatch("consume_latch", "look") \/ LookWritten \/ ReceiveWord
  \/ ReceivePart \/ ReceiveShort \/ Again \/ Short \/ ConsumeLatch("short_latch", "wait")

Starting(x) == Attach(x) \/ NeverStarts(x)

Next ==
  \/ Sender \/ Receiver \/ \E f \in Flushes : Send(f)
  \/ \E x \in Sides : Waiting(x) \/ Leaving(x) \/ Starting(x) \/ NotifyAttach(x)
                      \/ Detach(x) \/ Abort(x)

Spec == Init /\ [][Next]_vars

\* Both sides run, the worker is started or found not to start, and the receiver
\* calls again.  A sender may rest between two messages and never detach.
FairSpec ==
  /\ Spec
  /\ WF_vars(Sender) /\ WF_vars(Receiver)
  /\ \A x \in Sides : WF_vars(Waiting(x)) /\ WF_vars(Leaving(x)) /\ WF_vars(Starting(x))
                      /\ WF_vars(NotifyAttach(x))

(***************************************************************************)
(* Properties.                                                             *)
(***************************************************************************)

\* "it's safe for the receiver to read the unread bytes it knows to be present
\* without the lock": the asserts of shm_mq_send_bytes and shm_mq_receive_bytes
\* hold, also against the counters as the two sides last read them.
WithinRing ==
  /\ Written - bytesRead \in 0 .. RingSize /\ Read <= bytesWritten
  /\ At("S", "act") => Written - seen["S"] \in 0 .. RingSize
  /\ At("R", "act") => Used \in 0 .. RingSize

\* The ring is a queue of messages: each arrives whole, once and in order, also
\* when it is longer than the ring or wraps around its end.
Queue == INSTANCE MsgQueue WITH
  queue <- [i \in 1 .. sent - Len(received) |-> Cells(Len(received) + i)],
  delivered <- received, Message <- {Cells(m) : m \in Messages}
ImplementsQueue == Queue!Spec

\* "the return value remains valid until the next receive operation": the sender
\* does not write over a message the receiver was given a pointer to.
InUseIntact == got.at # -1 => CellsAt(got.at, Len(got.cells)) = got.cells

\* The messages of which everything is in bytesWritten.
Visible == {m \in Messages : End[m] <= bytesWritten}

\* "When the sender detaches, the receiver can read any messages remaining in
\* the queue": a receiver that is told SHM_MQ_DETACHED has had every message the
\* sender made visible, and every one if the sender used shm_mq_detach.
DetachLosesNothing ==
  At("R", "detached") =>
    /\ Messages \cap 1 .. Len(received) = Visible
    /\ (At("S", "end") /\ pending["S"] = 0) => Len(received) = sent

\* Where a side has yet to set the other's latch for something it has done.
Telling == {"notify_attach", "full", "flush_latch", "consume_latch", "short_latch", "detach",
            "notify_detach"}

\* "the counterparty must be certain to see the change after waking up", whatever
\* changed between its look and its sleep: the latch is reset only after a wait,
\* and all that matters is looked at again after the reset.  So a side that
\* sleeps with its latch unset has seen all there is, and the queue is open, or
\* the other side is about to set the latch.  A receiver that did not make the
\* queue is not told of every byte (see Delivered), but of all the rest; a leader
\* without a handle never looks at the worker.
NoNewsMissed ==
  \A x \in Sides :
    pc[x] \in {"wait", "wait_attach"} /\ ~latch[x] =>
      \/ pc[Other(x)] \in Telling
      \/ /\ ~detached /\ ~WorkerDied(x)
         /\ known[x] \/ ~attached[Other(x)]
         /\ x = "S" => seen["S"] = bytesRead
         /\ x = "R" /\ Leader = "R" => seen["R"] = bytesWritten

\* "The sender will set our process latch after more data has been written, and
\* we'll resume processing": a message whose send has returned and was flushed
\* arrives, whatever the sender does next.
Delivered ==
  \A m \in Messages : (flushed >= m) ~> (Len(received) >= m \/ At("R", "end"))

\* The same where the receiver has made the queue, and so was there before the
\* sender looked for it.
DeliveredToLeader ==
  \A m \in Messages :
    (Leader = "R" /\ flushed >= m) ~> (Len(received) >= m \/ At("R", "end"))

\* "doesn't block forever waiting for us to fill or drain the queue once we've
\* lost interest": who is left finds out, a receiver whatever it does and a sender
\* unless it has nothing to send.  A worker that never starts is found out by a
\* handle alone: "if handle == NULL, and the process fails to attach, we'll
\* potentially get stuck here forever".
GoneIsNoticed ==
  /\ (At("S", "end") /\ (attached["S"] \/ worker.handle)) ~> pc["R"] \in {"detached", "end"}
  /\ (At("R", "end") /\ (attached["R"] \/ worker.handle)) ~> pc["S"] \in {"idle", "detached", "end"}
=============================================================================
