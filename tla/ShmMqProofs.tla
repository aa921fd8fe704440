---------------------------- MODULE ShmMqProofs -----------------------------
(***************************************************************************)
(* For every size of the ring and all lengths of messages: the counters    *)
(* stay apart as the asserts of shm_mq.c say, the ring is a queue of       *)
(* messages, a message in use is not written over, a receiver that is told *)
(* of the end has had all there was, and neither side sleeps through a     *)
(* change it is waiting for.                                               *)
(***************************************************************************)
EXTENDS ShmMq, WellFoundedInduction, TLAPS

\* Where a sender is inside shm_mq_sendv, with a message still to write.
Sending ==
  {"look", "act", "full", "wait", "wait_attach", "attached?", "attached", "unattached",
   "failed_attach", "know", "gone?", "attached_nowait?"}

\* The counters, the partial lengths and the labels are what they are declared to be.
Numbers ==
  /\ bytesRead \in Nat /\ bytesWritten \in Nat /\ expected \in Nat /\ sent \in Nat
  /\ pending \in [Sides -> Nat] /\ seen \in [Sides -> Nat] /\ partial \in [Sides -> Nat]
  /\ lengthDone \in [Sides -> BOOLEAN]
  /\ pc = [x \in Sides |-> pc[x]]

\* The sender's view of what was read, and the receiver's of what was written,
\* may be late, never early.
Counters ==
  /\ Written - bytesRead <= RingSize /\ Read <= bytesWritten
  /\ seen["S"] <= bytesRead /\ seen["R"] <= bytesWritten
  /\ At("S", "act") => Written - seen["S"] <= RingSize
  /\ At("R", "act") => Read <= seen["R"]

\* A cell the sender has reached holds a part of a message, so that the length
\* word the receiver finds is one; and neither side's message is exceeded.
Contents ==
  /\ DOMAIN ring = 0 .. RingSize - 1
  /\ \A o \in 0 .. RingSize - 1 : o < Written => ring[o][1] \in Messages
  /\ pc["S"] \in Sending => sent < Len(Length)
  /\ lengthDone["S"] => sent < Len(Length) /\ partial["S"] < Length[sent + 1]
  /\ lengthDone["R"] => partial["R"] <= expected
  /\ ~ lengthDone["R"] => partial["R"] = 0

RingSteps == Numbers /\ Counters /\ Contents

counted == <<ring, bytesRead, bytesWritten, seen, pending, lengthDone, partial, expected, sent>>

\* A side that only goes on to another label keeps all that, unless it is one of
\* those where the other's counter was just read.
LEMMA GotoSteps ==
  ASSUME RingSteps, UNCHANGED counted, NEW x \in Sides, NEW l, Goto(x, l), l # "act",
         x = "S" /\ l \in Sending => pc["S"] \in Sending
  PROVE  RingSteps'
<1>1. /\ pc' = [y \in Sides |-> pc'[y]]
      /\ \A y \in Sides : At(y, "act")' => At(y, "act")
      /\ pc'["S"] \in Sending => pc["S"] \in Sending
  BY Zenon DEF RingSteps, Numbers, Goto, At, Sides
<1>2. Numbers'
  BY Zenon, <1>1 DEF RingSteps, Numbers, counted
<1>3. Counters'
  BY Zenon, <1>1 DEF RingSteps, Counters, Written, Read, counted, Sides
<1>4. Contents'
  BY Zenon, <1>1 DEF RingSteps, Contents, Written, counted, Sides
<1> QED
  BY Zenon, <1>2, <1>3, <1>4 DEF RingSteps

\* The steps of waiting, attaching and leaving.
LEMMA WaitingSteps ==
  ASSUME RingSteps, NEW x \in Sides,
         Waiting(x) \/ Leaving(x) \/ Starting(x) \/ NotifyAttach(x) \/ Abort(x)
  PROVE  RingSteps'
<1>1. UNCHANGED counted
  BY Zenon DEF Waiting, Leaving, Starting, Wait, CheckAttached, CheckDetached, FailedAttach, Know,
         CounterpartyGone, WorkerDied, AttachedNowait, DetachInternal, NotifyDetach, Attach, NeverStarts,
         NotifyAttach, Abort, shm, local, history, counted
<1>2. CASE Waiting(x)
  <2>1. pc[x] \in Sending
    BY ZenonT(60), <1>2 DEF Waiting, Wait, CheckAttached, CheckDetached, FailedAttach, Know,
                CounterpartyGone, WorkerDied, AttachedNowait, At, Sending
  <2>2. PICK l : Goto(x, l) /\ l # "act"
    BY <1>2 DEF Waiting, Wait, CheckAttached, CheckDetached, FailedAttach, Know, Known,
                CounterpartyGone, WorkerDied, AttachedNowait, EndDetached
  <2> QED
    BY ZenonT(60), <1>1, <2>1, <2>2, GotoSteps
<1>3. CASE Leaving(x) \/ Starting(x) \/ NotifyAttach(x) \/ Abort(x)
  <2>1. PICK l \in {"notify_detach", "end", "notify_attach", "idle", "detach"} : Goto(x, l)
    BY Zenon, <1>3 DEF Leaving, Starting, DetachInternal, NotifyDetach, Attach, NeverStarts,
                NotifyAttach, Abort
  <2> QED
    BY ZenonT(60), <1>1, <2>1, GotoSteps DEF Sending
<1> QED
  BY ZenonT(60), <1>2, <1>3
-----------------------------------------------------------------------------
\* shm_mq_inc_bytes_written: what was pending becomes visible.
LEMMA PublishSteps ==
  ASSUME RingSteps, NEW l \in {"full", "flush_latch", "detach"}, Goto("S", l),
         l = "full" => pc["S"] \in Sending,
         bytesWritten' = Written, pending' = [pending EXCEPT !["S"] = 0],
         UNCHANGED <<ring, bytesRead, seen, lengthDone, partial, expected, sent>>
  PROVE  RingSteps'
<1>1. /\ pc' = [y \in Sides |-> pc'[y]] /\ ~ At("S", "act")'
      /\ At("R", "act")' => At("R", "act")
      /\ pc'["S"] \in Sending => pc["S"] \in Sending
  BY Zenon DEF RingSteps, Numbers, Goto, At, Sides, Sending
<1>2. /\ pending \in [Sides -> Nat] /\ bytesWritten \in Nat
      /\ pending' \in [Sides -> Nat] /\ pending'["S"] = 0 /\ pending'["R"] = pending["R"]
  BY Zenon DEF RingSteps, Numbers, Sides
<1>3. Written' = Written /\ Read' = Read /\ Written \in Nat /\ bytesWritten <= Written
  BY <1>2 DEF Written, Read, Sides
<1>4. Numbers'
  BY Zenon, <1>1, <1>2, <1>3 DEF RingSteps, Numbers
<1>5. Counters'
  BY <1>1, <1>2, <1>3 DEF RingSteps, Counters, Numbers, Read, Sides
<1>6. Contents'
  BY Zenon, <1>1, <1>3 DEF RingSteps, Contents
<1> QED
  BY Zenon, <1>4, <1>5, <1>6 DEF RingSteps

\* What SubSeq returns.
LEMMA PartOfSeq ==
  ASSUME NEW S, NEW s \in Seq(S), NEW a \in 1 .. Len(s) + 1, NEW b \in a - 1 .. Len(s)
  PROVE  SubSeq(s, a, b) \in Seq(S) /\ Len(SubSeq(s, a, b)) = b - a + 1
OBVIOUS

\* The message of which the sender writes a part.
LEMMA ToSendFacts ==
  ASSUME RingSteps, sent < Len(Length)
  PROVE  /\ sent + 1 \in Messages /\ Length[sent + 1] \in Nat
         /\ Len(ToSend) = IF lengthDone["S"] THEN Length[sent + 1] - partial["S"] ELSE 1
         /\ Len(ToSend) \in Nat \ {0}
         /\ \A k \in 1 .. Len(ToSend) : ToSend[k][1] \in Messages
<1>1. sent + 1 \in Messages /\ Length[sent + 1] \in Nat
  BY ShmMqAssumption DEF RingSteps, Numbers, Messages
<1> DEFINE m == sent + 1
           c == Cells(m)
<1>2. c \in Seq({m} \X Nat) /\ Len(c) = Length[m]
  BY <1>1 DEF Cells
<1>3. CASE lengthDone["S"]
  <2>1. partial["S"] \in Nat /\ partial["S"] < Length[m]
    BY Zenon, <1>3 DEF RingSteps, Numbers, Contents, Sides
  <2>2. ToSend = SubSeq(c, partial["S"] + 1, Length[m])
    BY ZenonT(60), <1>3 DEF ToSend
  <2>3. Length[m] \in Nat
    BY Zenon, <1>1
  <2> HIDE DEF c, m
  <2>4. ToSend \in Seq({m} \X Nat) /\ Len(ToSend) = Length[m] - partial["S"]
    <3>1. partial["S"] + 1 \in 1 .. Len(c) + 1 /\ Length[m] \in partial["S"] + 1 - 1 .. Len(c)
      BY <1>2, <2>1, <2>3
    <3>2. /\ SubSeq(c, partial["S"] + 1, Length[m]) \in Seq({m} \X Nat)
          /\ Len(SubSeq(c, partial["S"] + 1, Length[m])) = Length[m] - (partial["S"] + 1) + 1
      BY <1>2, <3>1, PartOfSeq
    <3> QED
      BY <2>1, <2>2, <2>3, <3>2
  <2>5. \A k \in 1 .. Len(ToSend) : ToSend[k] \in {m} \X Nat
    BY <2>4
  <2>6. \A k \in 1 .. Len(ToSend) : ToSend[k][1] = m
    BY Zenon, <2>5
  <2> QED
    BY <1>1, <1>3, <2>1, <2>3, <2>4, <2>6 DEF m
<1>4. CASE ~ lengthDone["S"]
  <2>1. ToSend = << <<m, 0>> >>
    BY Zenon, <1>4 DEF ToSend
  <2> QED
    BY <1>1, <1>4, <2>1
<1> QED
  BY Zenon, <1>3, <1>4

\* What the remainder of a division is, as far as it is needed here.
LEMMA ModFacts ==
  ASSUME NEW a \in Nat
  PROVE  a % RingSize \in 0 .. RingSize - 1 /\ (a < RingSize => a % RingSize = a)
BY ShmMqAssumption

\* The smaller of two numbers.
LEMMA MinFacts ==
  ASSUME NEW a \in Nat, NEW b \in Nat
  PROVE  Min2(a, b) \in {a, b} /\ Min2(a, b) <= a /\ Min2(a, b) <= b
BY DEF Min2

\* memcpy into the ring.
LEMMA ChunkSteps == RingSteps /\ SendChunk => RingSteps'
<1> SUFFICES ASSUME RingSteps, SendChunk PROVE RingSteps'
  BY Zenon
<1> DEFINE o == Written % RingSize
           whole == IF lengthDone["S"] THEN Len(ToSend) - Chunk = 0 ELSE Length[sent + 1] = 0
<1>1. sent < Len(Length) /\ At("S", "act") /\ Space > 0
  BY Zenon DEF SendChunk, RingSteps, Contents, At, Sending
<1>2. /\ bytesRead \in Nat /\ bytesWritten \in Nat /\ sent \in Nat /\ RingSize \in Nat \ {0}
      /\ pending["S"] \in Nat /\ pending["R"] \in Nat /\ seen["S"] \in Nat /\ partial["S"] \in Nat
  BY Zenon, ShmMqAssumption DEF RingSteps, Numbers, Sides
<1>3. Written \in Nat /\ Space \in Nat /\ Space = RingSize - (Written - seen["S"])
  <2>1. Written \in Nat
    BY <1>2 DEF Written
  <2>2. Written - seen["S"] <= RingSize
    BY Zenon, <1>1 DEF RingSteps, Counters
  <2> QED
    BY <1>1, <1>2, <2>1, <2>2 DEF Space
<1>4. o \in 0 .. RingSize - 1 /\ (Written < RingSize => o = Written)
  BY Zenon, <1>3, ModFacts
<1>5. /\ Chunk \in Nat \ {0} /\ Chunk <= Space /\ Chunk <= Len(ToSend) /\ o + Chunk <= RingSize
  <2>1. Len(ToSend) \in Nat \ {0}
    BY Zenon, <1>1, ToSendFacts
  <2>2. Chunk = Min2(Min2(Space, Len(ToSend)), RingSize - o)
    BY Zenon DEF Chunk
  <2> HIDE DEF o
  <2>3. RingSize - o \in Nat \ {0}
    BY <1>2, <1>4
  <2> DEFINE n == Min2(Space, Len(ToSend))
  <2>4. n \in Nat \ {0} /\ n <= Space /\ n <= Len(ToSend)
    BY <1>1, <1>3, <2>1, MinFacts
  <2> HIDE DEF n
  <2>5. Chunk \in {n, RingSize - o} /\ Chunk <= n /\ Chunk <= RingSize - o
    BY Zenon, <2>2, <2>3, <2>4, MinFacts DEF n
  <2> QED
    BY <1>2, <1>3, <1>4, <2>1, <2>3, <2>4, <2>5
<1>6. /\ ring' = [i \in DOMAIN ring |-> IF i \in o .. o + Chunk - 1 THEN ToSend[i - o + 1]
                                        ELSE ring[i]]
      /\ pending' = [pending EXCEPT !["S"] = pending["S"] + Chunk]
      /\ lengthDone' = [lengthDone EXCEPT !["S"] = ~ whole]
      /\ partial' = [partial EXCEPT !["S"] = IF whole \/ ~ lengthDone["S"] THEN 0
                                             ELSE partial["S"] + Chunk]
      /\ sent' = sent + (IF whole THEN 1 ELSE 0)
      /\ Goto("S", IF whole THEN "sent" ELSE "look")
  BY Zenon DEF SendChunk
<1>7. UNCHANGED <<bytesRead, bytesWritten, seen, expected>>
  BY Zenon DEF SendChunk
<1>8. Written' = Written + Chunk /\ Read' = Read /\ pending' \in [Sides -> Nat]
  <2>1. pending'["S"] = pending["S"] + Chunk /\ pending'["R"] = pending["R"]
    BY Zenon, <1>6 DEF RingSteps, Numbers, Sides
  <2>2. pending' \in [Sides -> Nat]
    BY SMTT(30), <1>2, <1>5, <1>6 DEF RingSteps, Numbers, Sides
  <2>3. Written' = Written + Chunk
    BY <1>2, <1>5, <1>7, <2>1 DEF Written
  <2>4. Read' = Read
    BY Zenon, <1>7, <2>1 DEF Read
  <2> QED
    BY Zenon, <2>2, <2>3, <2>4
<1>9. Length[sent + 1] \in Nat /\ Len(ToSend) \in Nat
      /\ (lengthDone["S"] => Len(ToSend) = Length[sent + 1] - partial["S"])
  BY Zenon, <1>1, ToSendFacts
<1>10. Chunk \in Nat
  BY Zenon, <1>5
<1> HIDE DEF o
<1>11. /\ pc' = [y \in Sides |-> pc'[y]] /\ ~ At("S", "act")'
       /\ At("R", "act")' => At("R", "act")
       /\ pc'["S"] \in Sending => ~ whole
  BY Zenon, <1>6 DEF RingSteps, Numbers, Goto, At, Sides, Sending
<1>12. partial' \in [Sides -> Nat]
  BY SMTT(30), <1>2, <1>6, <1>10 DEF RingSteps, Numbers, Sides
<1>13. lengthDone' \in [Sides -> BOOLEAN]
  BY Zenon, <1>6 DEF RingSteps, Numbers
<1>14. sent' \in Nat
  BY <1>2, <1>6
<1>15. Numbers'
  BY Zenon, <1>7, <1>8, <1>11, <1>12, <1>13, <1>14 DEF RingSteps, Numbers
<1>16. Counters'
  <2>1. Written + Chunk - bytesRead <= RingSize
    BY <1>2, <1>3, <1>5 DEF RingSteps, Counters
  <2>2. (Written - bytesRead <= RingSize)'
    BY <1>2, <1>3, <1>5, <1>7, <1>8, <2>1
  <2>3. (/\ Read <= bytesWritten
         /\ seen["S"] <= bytesRead /\ seen["R"] <= bytesWritten)'
    BY Zenon, <1>7, <1>8 DEF RingSteps, Counters
  <2>4. (At("R", "act") => Read <= seen["R"])'
    BY ZenonT(60), <1>7, <1>8, <1>11 DEF RingSteps, Counters
  <2> QED
    BY Zenon, <1>11, <2>2, <2>3, <2>4 DEF Counters
<1>17. DOMAIN ring' = 0 .. RingSize - 1
  BY Zenon, <1>6 DEF RingSteps, Contents
<1>18. \A i \in 0 .. RingSize - 1 : i < Written + Chunk => ring'[i][1] \in Messages
  <2> SUFFICES ASSUME NEW i \in 0 .. RingSize - 1, i < Written + Chunk
               PROVE  ring'[i][1] \in Messages
    BY Zenon
  <2>1. CASE i \in o .. o + Chunk - 1
    <3>1. i - o + 1 \in 1 .. Len(ToSend)
      BY <1>4, <1>5, <1>9, <2>1
    <3>2. ring'[i] = ToSend[i - o + 1]
      BY ZenonT(60), <1>6, <2>1 DEF RingSteps, Contents
    <3> QED
      BY ZenonT(60), <1>1, <3>1, <3>2, ToSendFacts
  <2>2. CASE i \notin o .. o + Chunk - 1
    <3>1. i < Written
      BY <1>2, <1>3, <1>4, <1>5, <2>2
    <3> QED
      BY ZenonT(60), <1>6, <2>2, <3>1 DEF RingSteps, Contents
  <2> QED
    BY Zenon, <2>1, <2>2
<1>19. pc'["S"] \in Sending => sent' < Len(Length)
  BY <1>1, <1>2, <1>6, <1>11
<1>20. lengthDone'["S"] => sent' < Len(Length) /\ partial'["S"] < Length[sent' + 1]
  <2> SUFFICES ASSUME lengthDone'["S"] PROVE sent' < Len(Length) /\ partial'["S"] < Length[sent' + 1]
    BY Zenon
  <2>1. ~ whole
    BY Zenon, <1>6 DEF RingSteps, Numbers, Sides
  <2>2. sent' = sent
    BY <1>2, <1>6, <2>1
  <2>3. CASE lengthDone["S"]
    <3>1. partial'["S"] = partial["S"] + Chunk
      BY ZenonT(60), <1>6, <2>1, <2>3 DEF RingSteps, Numbers, Sides
    <3>2. Len(ToSend) # Chunk
      BY <1>5, <1>9, <2>1, <2>3
    <3> QED
      BY <1>1, <1>2, <1>5, <1>9, <2>2, <2>3, <3>1, <3>2
  <2>4. CASE ~ lengthDone["S"]
    <3>1. partial'["S"] = 0 /\ Length[sent + 1] # 0
      BY ZenonT(60), <1>6, <2>1, <2>4 DEF RingSteps, Numbers, Sides
    <3> QED
      BY <1>1, <1>9, <2>2, <3>1
  <2> QED
    BY Zenon, <2>3, <2>4
<1>21. lengthDone'["R"] = lengthDone["R"] /\ partial'["R"] = partial["R"]
  BY Zenon, <1>6 DEF RingSteps, Numbers, Sides
<1>22. Contents'
  BY ZenonT(60), <1>7, <1>8, <1>17, <1>18, <1>19, <1>20, <1>21 DEF RingSteps, Contents
<1> QED
  BY Zenon, <1>15, <1>16, <1>22 DEF RingSteps

\* The sender.
LEMMA SenderSteps ==
  ASSUME RingSteps, Sender \/ (\E f \in Flushes : Send(f))
  PROVE  RingSteps'
<1>1. CASE SendUnknown \/ FullLatch \/ Sent \/ LookReceiver \/ FlushLatch
  <2>1. UNCHANGED counted
    BY Zenon, <1>1 DEF SendUnknown, FullLatch, Sent, LookReceiver, FlushLatch, shm, local, history,
                counted
  <2>2. PICK l \in {"gone?", "attached?", "wait", "detached", "receiver?", "flush", "idle"} :
          Goto("S", l) /\ (l \in Sending => pc["S"] \in Sending)
    BY Zenon, <1>1 DEF SendUnknown, FullLatch, Sent, LookReceiver, FlushLatch, EndDetached, At, Sending
  <2> QED
    BY ZenonT(60), <2>1, <2>2, GotoSteps DEF Sides
<1>2. CASE \E f \in Flushes : Send(f)
  <2>1. Goto("S", "look") /\ sent < Len(Length) /\ UNCHANGED counted
    BY Zenon, <1>2 DEF Send, shm, history, counted
  <2>2. /\ pc' = [y \in Sides |-> pc'[y]] /\ pc'["S"] = "look"
        /\ At("R", "act")' => At("R", "act")
    BY Zenon, <2>1 DEF RingSteps, Numbers, Goto, At, Sides
  <2>3. Numbers'
    BY Zenon, <2>1, <2>2 DEF RingSteps, Numbers, counted
  <2>4. Counters'
    BY Zenon, <2>1, <2>2 DEF RingSteps, Counters, Written, Read, counted, At
  <2>5. Contents'
    BY Zenon, <2>1 DEF RingSteps, Contents, Written, counted
  <2> QED
    BY ZenonT(60), <2>3, <2>4, <2>5 DEF RingSteps
<1>3. CASE LookRead
  <2>1. /\ seen' = [seen EXCEPT !["S"] = bytesRead] /\ Goto("S", "act") /\ At("S", "look")
        /\ UNCHANGED <<ring, bytesRead, bytesWritten, pending, lengthDone, partial, expected, sent>>
    BY Zenon, <1>3 DEF LookRead, shm, history
  <2>2. seen' \in [Sides -> Nat] /\ seen'["S"] = bytesRead /\ seen'["R"] = seen["R"]
    BY Zenon, <2>1 DEF RingSteps, Numbers, Sides
  <2>3. pc' = [y \in Sides |-> pc'[y]] /\ (At("R", "act")' => At("R", "act"))
    BY Zenon, <2>1 DEF RingSteps, Numbers, Goto, At, Sides
  <2>4. Numbers'
    BY ZenonT(60), <2>1, <2>2, <2>3 DEF RingSteps, Numbers
  <2>5. Counters'
    BY <2>1, <2>2, <2>3 DEF RingSteps, Counters, Written, Read, Numbers
  <2>6. sent < Len(Length)
    BY Zenon, <2>1 DEF RingSteps, Contents, At, Sending
  <2>7. Contents'
    BY Zenon, <2>1, <2>6 DEF RingSteps, Contents, Written
  <2> QED
    BY <2>4, <2>5, <2>7 DEF RingSteps
<1>4. CASE SendDetached
  <2>1. /\ partial' = [partial EXCEPT !["S"] = 0] /\ lengthDone' = [lengthDone EXCEPT !["S"] = FALSE]
        /\ Goto("S", "detached")
        /\ UNCHANGED <<ring, bytesRead, bytesWritten, pending, seen, expected, sent>>
    BY Zenon, <1>4 DEF SendDetached, EndDetached, shm, history
  <2>2. /\ pc' = [y \in Sides |-> pc'[y]] /\ pc'["S"] = "detached"
        /\ At("R", "act")' => At("R", "act")
    BY Zenon, <2>1 DEF RingSteps, Numbers, Goto, At, Sides
  <2>3. /\ partial' \in [Sides -> Nat] /\ partial'["R"] = partial["R"]
        /\ lengthDone'["S"] = FALSE /\ lengthDone'["R"] = lengthDone["R"]
    BY Zenon, <2>1 DEF RingSteps, Numbers, Sides
  <2>4. lengthDone' \in [Sides -> BOOLEAN]
    BY Zenon, <2>1 DEF RingSteps, Numbers
  <2>5. Numbers'
    BY Zenon, <2>1, <2>2, <2>3, <2>4 DEF RingSteps, Numbers
  <2>6. Counters'
    BY Zenon, <2>1, <2>2 DEF RingSteps, Counters, Written, Read, At
  <2>7. Contents'
    BY Zenon, <2>1, <2>2, <2>3 DEF RingSteps, Contents, Written, Sending
  <2> QED
    BY <2>5, <2>6, <2>7 DEF RingSteps
<1>5. CASE SendFull \/ Flush
  <2>1. PICK l \in {"full", "flush_latch"} : Goto("S", l) /\ (l = "full" => pc["S"] \in Sending)
    BY Zenon, <1>5 DEF SendFull, Flush, At, Sending
  <2>2. /\ bytesWritten' = Written /\ pending' = [pending EXCEPT !["S"] = 0]
        /\ UNCHANGED <<ring, bytesRead, seen, lengthDone, partial, expected, sent>>
    BY Zenon, <1>5 DEF SendFull, Flush, history
  <2> QED
    BY ZenonT(60), <2>1, <2>2, PublishSteps
<1> QED
  BY ZenonT(60), <1>1, <1>2, <1>3, <1>4, <1>5, ChunkSteps DEF Sender

-----------------------------------------------------------------------------
\* shm_mq_inc_bytes_read: what was consumed can be written to again.
LEMMA GiveBackSteps ==
  ASSUME RingSteps, NEW l, l # "act", Goto("R", l),
         bytesRead' = Read, pending' = [pending EXCEPT !["R"] = 0],
         UNCHANGED <<ring, bytesWritten, seen, lengthDone, partial, expected, sent>>
  PROVE  RingSteps'
<1>1. /\ pc' = [y \in Sides |-> pc'[y]] /\ ~ At("R", "act")' /\ pc'["S"] = pc["S"]
      /\ At("S", "act")' => At("S", "act")
  BY Zenon DEF RingSteps, Numbers, Goto, At, Sides
<1>2. /\ bytesRead \in Nat /\ bytesWritten \in Nat /\ pending \in [Sides -> Nat]
      /\ pending' \in [Sides -> Nat] /\ pending'["R"] = 0 /\ pending'["S"] = pending["S"]
      /\ seen \in [Sides -> Nat] /\ RingSize \in Nat
  BY Zenon, ShmMqAssumption DEF RingSteps, Numbers, Sides
<1>3. Read \in Nat /\ Read' = Read /\ bytesRead <= Read
  BY <1>2 DEF Read, Sides
<1>4. Written' = Written /\ Written \in Nat
  BY <1>2 DEF Written, Sides
<1>5. Numbers'
  BY ZenonT(60), <1>1, <1>2, <1>3 DEF RingSteps, Numbers
<1>6. Counters'
  <2>1. seen["S"] \in Nat /\ seen["R"] \in Nat
    BY Zenon, <1>2 DEF Sides
  <2>2. Written - Read <= RingSize /\ seen["S"] <= Read
    BY <1>2, <1>3, <1>4, <2>1 DEF RingSteps, Counters
  <2> QED
    BY ZenonT(60), <1>1, <1>2, <1>3, <1>4, <2>1, <2>2 DEF RingSteps, Counters
<1>7. Contents'
  BY Zenon, <1>1, <1>4 DEF RingSteps, Contents
<1> QED
  BY ZenonT(60), <1>5, <1>6, <1>7 DEF RingSteps

\* Used and what can be read at once, when the receiver decides.
LEMMA RunFacts ==
  ASSUME RingSteps, At("R", "act")
  PROVE  /\ Used \in Nat /\ Used <= RingSize /\ Read \in Nat
         /\ Offset \in 0 .. RingSize - 1 /\ (Read < RingSize => Offset = Read)
         /\ Run \in Nat /\ Run <= Used
         /\ (Enough /\ ~ lengthDone["R"] => Used > 0)
<1>1. /\ bytesRead \in Nat /\ bytesWritten \in Nat /\ seen["R"] \in Nat /\ pending["R"] \in Nat
      /\ pending["S"] \in Nat /\ RingSize \in Nat \ {0}
  BY Zenon, ShmMqAssumption DEF RingSteps, Numbers, Sides
<1>2. Read \in Nat /\ bytesRead <= Read
  BY <1>1 DEF Read
<1>3. Written \in Nat /\ bytesWritten <= Written
  BY <1>1 DEF Written
<1>4. Used \in Nat /\ Used <= RingSize
  BY <1>1, <1>2, <1>3 DEF Used, RingSteps, Counters
<1>5. Offset \in 0 .. RingSize - 1 /\ (Read < RingSize => Offset = Read)
  BY Zenon, <1>2, ModFacts DEF Offset
<1>6. RingSize - Offset \in Nat
  BY <1>1, <1>5
<1>7. Run \in Nat /\ Run <= Used
  BY Zenon, <1>4, <1>6, MinFacts DEF Run
<1>8. Enough /\ ~ lengthDone["R"] => Used > 0
  BY <1>1, <1>4, <1>5 DEF Enough, Needed
<1> QED
  BY Zenon, <1>2, <1>4, <1>5, <1>7, <1>8

\* The receiver takes n cells that it knows to be there.
LEMMA TakeSteps ==
  ASSUME RingSteps, At("R", "act"), NEW n \in Nat, n <= Used, Take(n),
         NEW l \in {"look", "idle"}, Goto("R", l),
         NEW d \in BOOLEAN, NEW k \in Nat,
         lengthDone' = [lengthDone EXCEPT !["R"] = d], partial' = [partial EXCEPT !["R"] = k],
         expected' \in Nat, IF d THEN k <= expected' ELSE k = 0,
         UNCHANGED <<ring, bytesRead, bytesWritten, seen, sent>>
  PROVE  RingSteps'
<1>1. /\ pc' = [y \in Sides |-> pc'[y]] /\ ~ At("R", "act")' /\ pc'["S"] = pc["S"]
      /\ At("S", "act")' => At("S", "act")
  BY Zenon DEF RingSteps, Numbers, Goto, At, Sides
<1>2. /\ bytesRead \in Nat /\ bytesWritten \in Nat /\ pending["R"] \in Nat /\ seen["R"] \in Nat
  BY Zenon DEF RingSteps, Numbers, Sides
<1>3. /\ pending' \in [Sides -> Nat] /\ pending'["S"] = pending["S"]
      /\ pending'["R"] = pending["R"] + n
  BY <1>2 DEF Take, RingSteps, Numbers, Sides
<1>4. /\ partial' \in [Sides -> Nat] /\ partial'["S"] = partial["S"] /\ partial'["R"] = k
      /\ lengthDone'["S"] = lengthDone["S"] /\ lengthDone'["R"] = d
  BY Zenon DEF RingSteps, Numbers, Sides
<1>5. lengthDone' \in [Sides -> BOOLEAN]
  BY Zenon DEF RingSteps, Numbers
<1>6. Written' = Written
  BY Zenon, <1>3 DEF Written
<1>7. Read' = Read + n /\ Read \in Nat
  BY <1>2, <1>3 DEF Read
<1>8. Read + n <= bytesWritten
  BY <1>2, <1>7 DEF Used, RingSteps, Counters
<1>9. Numbers'
  BY ZenonT(60), <1>1, <1>3, <1>4, <1>5 DEF RingSteps, Numbers
<1>10. Counters'
  BY ZenonT(60), <1>1, <1>6, <1>7, <1>8 DEF RingSteps, Counters
<1>11. Contents'
  BY ZenonT(60), <1>1, <1>4, <1>6 DEF RingSteps, Contents
<1> QED
  BY ZenonT(60), <1>9, <1>10, <1>11 DEF RingSteps

\* The length word, and perhaps the message with it.
LEMMA WordSteps == RingSteps /\ ReceiveWord => RingSteps'
<1> SUFFICES ASSUME RingSteps, ReceiveWord PROVE RingSteps'
  BY Zenon
<1> DEFINE n == Length[ring[Offset][1]]
<1>1. /\ At("R", "act") /\ Enough /\ ~ lengthDone["R"]
      /\ UNCHANGED <<ring, bytesRead, bytesWritten, seen, sent>>
  BY Zenon DEF ReceiveWord, shm
<1>2. Used \in Nat \ {0} /\ Run \in Nat /\ Run <= Used
  BY <1>1, RunFacts
<1>3. Offset \in 0 .. RingSize - 1 /\ Offset < Written
  <2>1. /\ bytesWritten \in Nat /\ seen["R"] \in Nat /\ pending["S"] \in Nat /\ RingSize \in Nat
    BY Zenon, ShmMqAssumption DEF RingSteps, Numbers, Sides
  <2>2. /\ Read \in Nat /\ Offset \in 0 .. RingSize - 1 /\ (Read < RingSize => Offset = Read)
    BY Zenon, <1>1, RunFacts
  <2>3. Read < seen["R"] /\ seen["R"] <= bytesWritten
    BY <1>2, <2>1, <2>2 DEF Used, RingSteps, Counters
  <2>4. bytesWritten <= Written /\ Written \in Nat
    BY <2>1 DEF Written
  <2> QED
    BY <2>1, <2>2, <2>3, <2>4
<1>4. n \in Nat
  BY <1>3, ShmMqAssumption DEF RingSteps, Contents, Messages
<1> HIDE DEF n
<1>5. expected \in Nat /\ partial["R"] = 0
  BY Zenon, <1>1 DEF RingSteps, Numbers, Contents
<1>6. CASE Run >= 1 + n
  <2> DEFINE k == 1 + n
  <2>1. /\ Take(k) /\ Goto("R", "idle") /\ expected' = expected
        /\ lengthDone' = [lengthDone EXCEPT !["R"] = FALSE]
        /\ partial' = [partial EXCEPT !["R"] = 0]
    BY Zenon, <1>6 DEF ReceiveWord, Deliver, n
  <2>2. k \in Nat /\ k <= Used
    BY <1>2, <1>4, <1>6
  <2>3. expected' \in Nat
    BY Zenon, <1>5, <2>1
  <2> HIDE DEF k
  <2> QED
    BY Zenon, <1>1, <2>1, <2>2, <2>3, TakeSteps
<1>7. CASE ~ (Run >= 1 + n)
  <2>1. /\ Take(1) /\ Goto("R", "look") /\ expected' = n
        /\ lengthDone' = [lengthDone EXCEPT !["R"] = TRUE] /\ partial' = partial
    BY Zenon, <1>7 DEF ReceiveWord, n
  <2>2. partial' = [partial EXCEPT !["R"] = 0]
    BY Zenon, <1>5, <2>1 DEF RingSteps, Numbers
  <2>3. 1 <= Used /\ 0 <= n
    BY <1>2, <1>4
  <2> QED
    BY Zenon, <1>1, <1>4, <2>1, <2>2, <2>3, TakeSteps
<1> QED
  BY ZenonT(60), <1>6, <1>7

\* The rest of the message, or a part of it.
LEMMA PartSteps == RingSteps /\ ReceivePart => RingSteps'
<1> SUFFICES ASSUME RingSteps, ReceivePart PROVE RingSteps'
  BY Zenon
<1> DEFINE n == Min2(Run, Needed)
<1>1. /\ At("R", "act") /\ lengthDone["R"] /\ Take(n) /\ expected' = expected
      /\ UNCHANGED <<ring, bytesRead, bytesWritten, seen, sent>>
  BY Zenon DEF ReceivePart, shm
<1>2. expected \in Nat /\ partial["R"] \in Nat /\ partial["R"] <= expected
  BY Zenon, <1>1 DEF RingSteps, Numbers, Contents, Sides
<1>3. Needed \in Nat /\ Needed = expected - partial["R"]
  BY <1>1, <1>2 DEF Needed
<1>4. Run \in Nat /\ Run <= Used /\ Used \in Nat
  BY Zenon, <1>1, RunFacts
<1>5. n \in Nat /\ n <= Used /\ n <= Needed
  BY <1>3, <1>4, MinFacts
<1> HIDE DEF n
<1>6. CASE n = Needed
  <2>1. /\ Goto("R", "idle") /\ lengthDone' = [lengthDone EXCEPT !["R"] = FALSE]
        /\ partial' = [partial EXCEPT !["R"] = 0]
    BY Zenon, <1>6 DEF ReceivePart, Deliver, n
  <2> QED
    BY Zenon, <1>1, <1>2, <1>5, <2>1, TakeSteps
<1>7. CASE n # Needed
  <2>1. /\ Goto("R", "look") /\ UNCHANGED lengthDone
        /\ partial' = [partial EXCEPT !["R"] = partial["R"] + n]
    BY Zenon, <1>7 DEF ReceivePart, n
  <2>2. lengthDone' = [lengthDone EXCEPT !["R"] = TRUE]
    <3>1. lengthDone \in [Sides -> BOOLEAN] /\ lengthDone["R"] = TRUE
      BY Zenon, <1>1 DEF RingSteps, Numbers, Sides
    <3> QED
      BY Zenon, <2>1, <3>1
  <2>3. partial["R"] + n \in Nat /\ partial["R"] + n <= expected
    BY <1>2, <1>3, <1>5
  <2> QED
    BY Zenon, <1>1, <1>2, <1>5, <2>1, <2>2, <2>3, TakeSteps
<1> QED
  BY ZenonT(60), <1>6, <1>7

\* The receiver.
LEMMA ReceiverSteps == RingSteps /\ Receiver => RingSteps'
<1> SUFFICES ASSUME RingSteps, Receiver PROVE RingSteps'
  BY Zenon
<1>1. CASE \/ Receive \/ ReceiveShort \/ Again \/ ConsumeLatch("consume_latch", "look")
           \/ ConsumeLatch("short_latch", "wait")
  <2>1. UNCHANGED counted
    BY Zenon, <1>1 DEF Receive, ReceiveShort, Again, ConsumeLatch, shm, local, history, counted
  <2>2. PICK l : Goto("R", l) /\ l # "act"
    BY <1>1 DEF Receive, ReceiveShort, Again, ConsumeLatch, EndDetached
  <2> QED
    BY ZenonT(60), <2>1, <2>2, GotoSteps DEF Sides
<1>2. CASE Consume
  <2>1. CASE 4 * pending["R"] > RingSize
    BY ZenonT(60), <1>2, <2>1, GiveBackSteps DEF Consume, history
  <2>2. CASE ~ (4 * pending["R"] > RingSize)
    BY ZenonT(60), <1>2, <2>2, GotoSteps DEF Consume, history, counted, Sides
  <2> QED
    BY Zenon, <2>1, <2>2
<1>3. CASE Short
  <2>1. PICK l : Goto("R", l) /\ l # "act"
    BY <1>3 DEF Short
  <2> QED
    BY ZenonT(60), <1>3, <2>1, GiveBackSteps DEF Short, history
<1>4. CASE LookWritten
  <2>1. /\ seen' = [seen EXCEPT !["R"] = bytesWritten] /\ Goto("R", "act")
        /\ UNCHANGED <<ring, bytesRead, bytesWritten, pending, lengthDone, partial, expected, sent>>
    BY Zenon, <1>4 DEF LookWritten, shm, history
  <2>2. /\ pc' = [y \in Sides |-> pc'[y]] /\ pc'["S"] = pc["S"]
        /\ At("S", "act")' => At("S", "act")
    BY Zenon, <2>1 DEF RingSteps, Numbers, Goto, At, Sides
  <2>3. seen' \in [Sides -> Nat] /\ seen'["R"] = bytesWritten /\ seen'["S"] = seen["S"]
    BY Zenon, <2>1 DEF RingSteps, Numbers, Sides
  <2>4. Numbers'
    BY ZenonT(60), <2>1, <2>2, <2>3 DEF RingSteps, Numbers
  <2>5. Counters'
    BY <2>1, <2>2, <2>3 DEF RingSteps, Counters, Written, Read, Numbers
  <2>6. Contents'
    BY Zenon, <2>1, <2>2 DEF RingSteps, Contents, Written
  <2> QED
    BY Zenon, <2>4, <2>5, <2>6 DEF RingSteps
<1> QED
  BY ZenonT(60), <1>1, <1>2, <1>3, <1>4, WordSteps, PartSteps DEF Receiver

-----------------------------------------------------------------------------
\* They hold at the beginning ...
LEMMA RingInit == Init => RingSteps
<1> SUFFICES ASSUME Init PROVE RingSteps
  BY Zenon
<1>1. Numbers
  BY Zenon DEF Init, Numbers, Sides
<1>2. Counters
  BY ShmMqAssumption DEF Init, Counters, Written, Read, At, Sides
<1>3. Contents
  BY DEF Init, Contents, Written, Sending, Sides
<1> QED
  BY Zenon, <1>1, <1>2, <1>3 DEF RingSteps

\* ... and every step keeps them.
LEMMA RingNext == RingSteps /\ [Next]_vars => RingSteps'
<1> SUFFICES ASSUME RingSteps, [Next]_vars PROVE RingSteps'
  BY Zenon
<1>1. ASSUME NEW x \in Sides, Detach(x) PROVE RingSteps'
  <2>1. CASE x = "S"
    BY Zenon, <1>1, <2>1, PublishSteps DEF Detach, Written, history
  <2>2. CASE x = "R"
    <3>1. bytesWritten' = bytesWritten
      BY <1>1, <2>2 DEF Detach, RingSteps, Numbers
    <3> QED
      BY ZenonT(60), <1>1, <2>2, <3>1, GotoSteps DEF Detach, history, counted
  <2> QED
    BY Zenon, <2>1, <2>2 DEF Sides
<1>2. CASE UNCHANGED vars
  <2>1. UNCHANGED <<counted, pc>>
    BY Zenon, <1>2 DEF vars, shm, local, history, counted
  <2>2. Numbers' /\ Counters' /\ Contents'
    BY Zenon, <2>1 DEF RingSteps, Numbers, Counters, Contents, Written, Read, At, counted
  <2> QED
    BY Zenon, <2>2 DEF RingSteps
<1> QED
  BY Zenon, <1>1, <1>2, WaitingSteps, SenderSteps, ReceiverSteps DEF Next

\* The asserts of shm_mq_send_bytes and shm_mq_receive_bytes hold with rings of
\* any size and messages of any length, also longer than the ring, whoever made
\* the queue, whether the calls wait or not, and whenever a side detaches or
\* fails: no unread byte is written over and none is read that is not there.
THEOREM RingCorrect == Spec => []WithinRing
<1>1. RingSteps => WithinRing
  <2> SUFFICES ASSUME RingSteps PROVE WithinRing
    BY Zenon
  <2>1. /\ bytesRead \in Nat /\ bytesWritten \in Nat /\ seen["R"] \in Nat /\ seen["S"] \in Nat
        /\ pending["R"] \in Nat /\ pending["S"] \in Nat /\ RingSize \in Nat
    BY Zenon, ShmMqAssumption DEF RingSteps, Numbers, Sides
  <2>2. Read \in Nat /\ bytesRead <= Read /\ Written \in Nat /\ bytesWritten <= Written
    BY <2>1 DEF Read, Written
  <2>3. At("R", "act") => Used \in 0 .. RingSize
    BY RunFacts
  <2>4. Written - bytesRead \in 0 .. RingSize /\ Read <= bytesWritten
    BY <2>1, <2>2 DEF RingSteps, Counters
  <2>5. At("S", "act") => Written - seen["S"] \in 0 .. RingSize
    BY <2>1, <2>2, <2>4 DEF RingSteps, Counters
  <2> QED
    BY ZenonT(60), <2>3, <2>4, <2>5 DEF WithinRing
<1> QED
  BY <1>1, RingInit, RingNext, PTL DEF Spec

-----------------------------------------------------------------------------
(***************************************************************************)
(* Numbers.                                                                *)
(***************************************************************************)

\* A set of numbers has a least one ...
LEMMA Least ==
  ASSUME NEW T \in SUBSET Nat, T # {}
  PROVE  \E m \in T : \A x \in T : m <= x
<1> DEFINE Less == {r \in Nat \X Nat : r[1] < r[2]}
<1>1. IsWellFoundedOn(Less, Nat)
  BY Zenon, NatLessThanWellFounded DEF OpToRel
<1>2. PICK m \in T : \A y \in T : ~(<<y, m>> \in Less)
  BY Zenon, <1>1, WFMin
<1>3. ASSUME NEW y \in T PROVE m <= y
  <2>1. <<y, m>> \in Less <=> y < m
    BY Zenon
  <2>2. ~(y < m)
    BY Zenon, <1>2, <2>1
  <2>3. y \in Nat /\ m \in Nat
    BY Zenon
  <2> QED
    BY <2>2, <2>3
<1> QED
  BY Zenon, <1>3

\* ... so what holds of 0 and goes from each number to the next holds of all.
LEMMA Induction ==
  ASSUME NEW T, 0 \in T, \A n \in Nat : n \in T => n + 1 \in T
  PROVE  \A n \in Nat : n \in T
<1> SUFFICES ASSUME Nat \ T # {} PROVE FALSE
  BY Zenon
<1>1. PICK m \in Nat \ T : \A x \in Nat \ T : m <= x
  BY Zenon, Least
<1>2. m # 0 /\ m - 1 \in Nat
  BY <1>1
<1>3. m - 1 \in T
  BY <1>1, <1>2
<1> QED
  BY <1>1, <1>2, <1>3


\* End is defined: where each message ends in the stream of all cells.
LEMMA EndIs ==
  \A m \in 0 .. Len(Length) : End[m] = IF m = 0 THEN 0 ELSE End[m - 1] + 1 + Length[m]
<1>0. Len(Length) \in Nat
  BY ShmMqAssumption
<1> DEFINE Ends(f, n) ==
             \A m \in 0 .. n : f[m] = IF m = 0 THEN 0 ELSE f[m - 1] + 1 + Length[m]
           T == {n \in Nat : \E f : Ends(f, n)}
<1>1. 0 \in T
  <2>1. Ends([m \in 0 .. 0 |-> 0], 0)
    OBVIOUS
  <2> QED
    BY Zenon, <2>1
<1>2. ASSUME NEW n \in Nat, n \in T PROVE n + 1 \in T
  <2>1. PICK f : Ends(f, n)
    BY Zenon, <1>2
  <2> DEFINE Added == f[n] + 1 + Length[n + 1]
  <2> HIDE DEF Added
  <2> DEFINE g == [m \in 0 .. n + 1 |-> IF m = n + 1 THEN Added ELSE f[m]]
  <2>2. ASSUME NEW m \in 0 .. n + 1 PROVE g[m] = IF m = 0 THEN 0 ELSE g[m - 1] + 1 + Length[m]
    <3>1. CASE m = n + 1
      <4>1. g[m] = Added /\ m # 0 /\ m - 1 = n /\ g[m - 1] = f[n]
        BY <3>1
      <4> QED
        BY Zenon, <3>1, <4>1 DEF Added
    <3>2. CASE m # n + 1
      <4>1. m \in 0 .. n /\ g[m] = f[m] /\ (m # 0 => g[m - 1] = f[m - 1])
        BY <3>2
      <4>2. f[m] = IF m = 0 THEN 0 ELSE f[m - 1] + 1 + Length[m]
        BY Zenon, <2>1, <4>1
      <4> QED
        BY Zenon, <4>1, <4>2
    <3> QED
      BY Zenon, <3>1, <3>2
  <2> HIDE DEF g
  <2>3. Ends(g, n + 1)
    BY Zenon, <2>2
  <2>4. n + 1 \in Nat
    OBVIOUS
  <2> QED
    BY Zenon, <2>3, <2>4
<1> HIDE DEF T
<1>3. Len(Length) \in T
  BY Zenon, <1>0, <1>1, <1>2, Induction
<1>4. PICK f : Ends(f, Len(Length))
  BY Zenon, <1>3 DEF T
<1> DEFINE g == [m \in 0 .. Len(Length) |-> f[m]]
<1>5. g = [m \in 0 .. Len(Length) |-> IF m = 0 THEN 0 ELSE g[m - 1] + 1 + Length[m]]
  <2> SUFFICES ASSUME NEW m \in 0 .. Len(Length) PROVE f[m] = IF m = 0 THEN 0 ELSE g[m - 1] + 1 + Length[m]
    BY Zenon
  <2>1. m # 0 => g[m - 1] = f[m - 1]
    BY <1>0
  <2>2. f[m] = IF m = 0 THEN 0 ELSE f[m - 1] + 1 + Length[m]
    BY Zenon, <1>4
  <2> QED
    BY Zenon, <2>1, <2>2
<1> HIDE DEF g
<1>6. End = CHOOSE h : h = [m \in 0 .. Len(Length) |-> IF m = 0 THEN 0 ELSE h[m - 1] + 1 + Length[m]]
  BY Zenon DEF End
<1>7. End = [m \in 0 .. Len(Length) |-> IF m = 0 THEN 0 ELSE End[m - 1] + 1 + Length[m]]
  BY Zenon, <1>5, <1>6
<1> QED
  BY Zenon, <1>7

\* Each message has its length word and its cells after all earlier ones.
LEMMA EndFacts ==
  /\ End[0] = 0 /\ Len(Length) \in Nat
  /\ \A m \in Messages : m \in Nat /\ m >= 1 /\ m - 1 \in 0 .. Len(Length) /\ m \in 0 .. Len(Length)
                         /\ Length[m] \in Nat /\ End[m] = End[m - 1] + 1 + Length[m]
  /\ \A m \in 0 .. Len(Length) : m \in Nat /\ End[m] \in Nat /\ (m < Len(Length) => m + 1 \in Messages)
<1>0. Len(Length) \in Nat /\ Messages = 1 .. Len(Length) /\ \A m \in Messages : Length[m] \in Nat
  BY ShmMqAssumption DEF Messages
<1>1. End[0] = 0
  BY <1>0, EndIs
<1>2. \A m \in Messages : m \in Nat /\ m >= 1 /\ m - 1 \in 0 .. Len(Length) /\ m \in 0 .. Len(Length)
  BY <1>0
<1>3. \A m \in Messages : End[m] = End[m - 1] + 1 + Length[m]
  BY <1>0, <1>2, EndIs
<1> DEFINE T == {n \in Nat : n \in 0 .. Len(Length) => End[n] \in Nat}
<1>4. 0 \in T
  BY <1>1
<1>5. ASSUME NEW n \in Nat, n \in T PROVE n + 1 \in T
  <2> SUFFICES ASSUME n + 1 \in 0 .. Len(Length) PROVE End[n + 1] \in Nat
    OBVIOUS
  <2>1. n + 1 \in Messages /\ (n + 1) - 1 = n /\ n \in 0 .. Len(Length)
    BY <1>0
  <2>2. End[n + 1] = End[n] + 1 + Length[n + 1]
    BY Zenon, <1>3, <2>1
  <2> QED
    BY <1>0, <1>5, <2>1, <2>2
<1> HIDE DEF T
<1>6. \A n \in Nat : n \in T
  BY Zenon, <1>4, <1>5, Induction
<1>7. \A m \in 0 .. Len(Length) : m \in Nat /\ End[m] \in Nat
  BY <1>6 DEF T
<1>8. \A m \in 0 .. Len(Length) : m < Len(Length) => m + 1 \in Messages
  BY <1>0
<1> QED
  BY Zenon, <1>0, <1>1, <1>2, <1>3, <1>7, <1>8

\* So a later message ends later.
LEMMA EndGrows ==
  ASSUME NEW a \in 0 .. Len(Length), NEW b \in 0 .. Len(Length), a < b
  PROVE  End[a] < End[b]
<1>0. Len(Length) \in Nat /\ a \in Nat /\ b \in Nat
  BY Zenon, EndFacts
<1> DEFINE T == {n \in Nat : a + n + 1 <= Len(Length) => End[a] < End[a + n + 1]}
<1>1. 0 \in T
  <2> SUFFICES ASSUME a + 0 + 1 <= Len(Length) PROVE End[a] < End[a + 0 + 1]
    BY Zenon
  <2>1. a + 1 \in Messages /\ (a + 1) - 1 = a /\ a + 0 + 1 = a + 1
    BY <1>0, EndFacts
  <2>2. End[a + 1] = End[a] + 1 + Length[a + 1] /\ End[a] \in Nat /\ Length[a + 1] \in Nat
    BY Zenon, <2>1, EndFacts
  <2> QED
    BY <2>1, <2>2
<1>2. ASSUME NEW n \in Nat, n \in T PROVE n + 1 \in T
  <2> SUFFICES ASSUME a + (n + 1) + 1 <= Len(Length) PROVE End[a] < End[a + (n + 1) + 1]
    OBVIOUS
  <2>0. PICK c \in Nat : c = a + n + 1
    BY <1>0
  <2>1. c \in 0 .. Len(Length) /\ c < Len(Length) /\ a + (n + 1) + 1 = c + 1 /\ (c + 1) - 1 = c
    BY <1>0, <2>0
  <2>2. c + 1 \in Messages
    BY Zenon, <2>1, EndFacts
  <2>3. End[c + 1] = End[c] + 1 + Length[c + 1] /\ End[c] \in Nat /\ Length[c + 1] \in Nat /\ End[a] \in Nat
    BY Zenon, <2>1, <2>2, EndFacts
  <2>4. End[a] < End[c]
    BY <1>0, <1>2, <2>0, <2>1
  <2> QED
    BY SMTT(30), <2>1, <2>3, <2>4
<1> HIDE DEF T
<1>3. PICK n \in Nat : b = a + n + 1
  <2>1. b - a - 1 \in Nat /\ b = a + (b - a - 1) + 1
    BY <1>0
  <2> QED
    BY Zenon, <2>1
<1>4. n \in T
  BY Zenon, <1>1, <1>2, Induction
<1> QED
  BY <1>0, <1>3, <1>4 DEF T

\* Offsets of cells that follow one another: on in the ring, or at its beginning.
LEMMA ModAdd ==
  ASSUME NEW a \in Nat, NEW i \in 0 .. RingSize
  PROVE  (a + i) % RingSize = IF (a % RingSize) + i < RingSize THEN (a % RingSize) + i
             ELSE (a % RingSize) + i - RingSize
<1>0. RingSize \in Nat /\ RingSize > 0
  BY ShmMqAssumption
<1>1. PICK N \in Nat : N = RingSize
  BY Zenon, <1>0
<1>2. PICK q \in Int, r \in 0 .. N - 1 : a = N * q + r /\ r = a % N
  <2>1. a = N * (a \div N) + (a % N) /\ a % N \in 0 .. N - 1 /\ a \div N \in Int
    BY <1>0, <1>1
  <2> QED
    BY Zenon, <2>1
<1>3. PICK p \in Int, s \in 0 .. N - 1 : a + i = N * p + s /\ s = (a + i) % N
  <2>1. /\ a + i = N * ((a + i) \div N) + ((a + i) % N) /\ (a + i) % N \in 0 .. N - 1
        /\ (a + i) \div N \in Int
    BY <1>0, <1>1
  <2> QED
    BY Zenon, <2>1
<1>4. PICK d \in Int : d = p - q
  OBVIOUS
<1>5. N * d = r + i - s
  <2>1. N * p - N * q = N * d
    BY <1>4
  <2>2. PICK x \in Int, y \in Int : x = N * p /\ y = N * q
    OBVIOUS
  <2>3. a = y + r /\ a + i = x + s /\ i \in Int
    BY <1>0, <1>2, <1>3, <2>2
  <2>4. x - y = r + i - s
    BY <2>3
  <2> QED
    BY Zenon, <2>1, <2>2, <2>4
<1>6. N * d > 0 - N /\ N * d < N + N
  BY <1>0, <1>1, <1>5
<1>7. d \in {0, 1}
  <2>1. CASE d >= 2
    <3>1. N * d >= N * 2
      BY <2>1
    <3> QED
      BY <1>6, <3>1
  <2>2. CASE d <= -1
    <3>1. N * d <= N * (-1)
      BY <2>2
    <3> QED
      BY <1>6, <3>1
  <2> QED
    BY <2>1, <2>2
<1>8. \/ d = 0 /\ s = r + i
      \/ d = 1 /\ s = r + i - N
  <2>1. d = 0 => N * d = 0
    OBVIOUS
  <2>2. d = 1 => N * d = N
    OBVIOUS
  <2> QED
    BY <1>0, <1>5, <1>7, <2>1, <2>2
<1>9. s = IF r + i < N THEN r + i ELSE r + i - N
  BY <1>0, <1>8
<1> QED
  BY Zenon, <1>1, <1>2, <1>3, <1>9

\* Cells that are less than the ring apart have different offsets.
LEMMA ModApart ==
  ASSUME NEW a \in Nat, NEW b \in Nat, a < b, b < a + RingSize
  PROVE  a % RingSize # b % RingSize
<1>0. RingSize \in Nat /\ RingSize > 0 /\ a % RingSize \in Nat
  BY ShmMqAssumption, ModFacts
<1>1. PICK i \in 0 .. RingSize : i = b - a /\ b = a + i /\ 0 < i /\ i < RingSize
  BY <1>0
<1>2. b % RingSize = IF (a % RingSize) + i < RingSize THEN (a % RingSize) + i
          ELSE (a % RingSize) + i - RingSize
  BY Zenon, <1>1, ModAdd
<1> QED
  BY <1>0, <1>1, <1>2

-----------------------------------------------------------------------------
(***************************************************************************)
(* The stream of cells.                                                    *)
(***************************************************************************)

\* Where the receiver is when a message it was given may be used.
Resting == {"idle", "detach", "notify_detach", "end"}

\* The sender has written the messages it has sent and a part of the next.  A sender
\* that was told SHM_MQ_DETACHED has forgotten how much.
SenderAt ==
  /\ sent \in 0 .. Len(Length) /\ End[sent] <= Written
  /\ sent < Len(Length) => Written < End[sent + 1]
  /\ sent = Len(Length) => Written = End[sent]
  /\ pc["S"] # "detached" => Written = End[sent] + (IF lengthDone["S"] THEN 1 + partial["S"] ELSE 0)

\* The receiver has read the messages it has received and a part of the next, which
\* is in its buffer.
ReceiverAt ==
  /\ received \in Seq({Cells(m) : m \in Messages}) /\ Len(received) <= sent
  /\ \A j \in 1 .. Len(received) : received[j] = Cells(j)
  /\ Read = End[Len(received)] + (IF lengthDone["R"] THEN 1 + partial["R"] ELSE 0)
  /\ lengthDone["R"] => /\ Len(received) < Len(Length) /\ expected = Length[Len(received) + 1]
                        /\ partial["R"] < expected
  /\ buffer = [i \in 1 .. partial["R"] |-> <<Len(received) + 1, i>>]

\* The ring has the last cells of the stream that were written.
Window ==
  \A m \in Messages : \A i \in 0 .. Length[m] :
    End[m - 1] + i < Written /\ Written - RingSize <= End[m - 1] + i
      => ring[(End[m - 1] + i) % RingSize] = <<m, i>>

\* A message that the receiver uses where it is in the ring was not given back.
Lent ==
  got.at # -1 =>
    LET r == Len(received)
    IN /\ pc["R"] \in Resting /\ r >= 1 /\ got.cells = Cells(r) /\ ~lengthDone["R"]
       /\ pending["R"] >= Length[r]
       /\ Length[r] > 0 => got.at = (End[r] - Length[r]) % RingSize /\ got.at + Length[r] <= RingSize

Stream == SenderAt /\ ReceiverAt /\ Window /\ Lent

\* A step that moves neither side in the stream.
LEMMA StreamFrame ==
  ASSUME RingSteps, Stream, Written' = Written, Read' = Read, UNCHANGED <<ring, sent, received, expected,
         buffer>>,
         lengthDone'["R"] = lengthDone["R"], partial'["R"] = partial["R"],
         \/ pc'["S"] = "detached"
         \/ pc["S"] # "detached" /\ lengthDone'["S"] = lengthDone["S"] /\ partial'["S"] = partial["S"],
         \/ got' = None
         \/ got' = got /\ (pc["R"] \in Resting => pc'["R"] \in Resting /\ pending'["R"] = pending["R"])
  PROVE  Stream'
<1>1. SenderAt'
  BY Zenon DEF Stream, SenderAt
<1>2. ReceiverAt'
  BY Zenon DEF Stream, ReceiverAt
<1>3. Window'
  BY Zenon DEF Stream, Window
<1>4. Lent'
  <2>1. None.at = -1
    BY Zenon DEF None
  <2> QED
    BY Zenon, <2>1 DEF Stream, Lent
<1> QED
  BY Zenon, <1>1, <1>2, <1>3, <1>4 DEF Stream

\* The steps of waiting, attaching and leaving.
LEMMA StreamWaiting ==
  ASSUME RingSteps, Stream, NEW x \in Sides,
         Waiting(x) \/ Leaving(x) \/ Starting(x) \/ NotifyAttach(x) \/ Abort(x)
  PROVE  Stream'
<1>1. UNCHANGED <<ring, sent, received, expected, buffer, bytesRead, bytesWritten, pending, lengthDone,
          partial, got>>
  BY Zenon DEF Waiting, Leaving, Starting, Wait, CheckAttached, CheckDetached, FailedAttach, Know,
         CounterpartyGone, WorkerDied, AttachedNowait, DetachInternal, NotifyDetach, Attach, NeverStarts,
         NotifyAttach, Abort, shm, local, history
<1>2. Written' = Written /\ Read' = Read
  BY Zenon, <1>1 DEF Written, Read
<1>3. PICK l : /\ pc' = [pc EXCEPT ![x] = l] /\ pc[x] # "detached"
               /\ pc[x] \in Resting => l \in Resting
  <2>1. CASE Waiting(x)
    <3>1. pc[x] \in {"wait", "wait_attach", "attached?", "attached", "unattached", "failed_attach", "know", "gone?",
                     "attached_nowait?"}
      BY Zenon, <2>1 DEF Waiting, Wait, CheckAttached, CheckDetached, FailedAttach, Know, AttachedNowait, At,
         CounterpartyGone, WorkerDied
    <3>2. \E l : pc' = [pc EXCEPT ![x] = l]
      BY Zenon, <2>1 DEF Waiting, Wait, CheckAttached, CheckDetached, FailedAttach, Know, AttachedNowait, Goto,
         CounterpartyGone, WorkerDied, EndDetached
    <3> QED
      BY Zenon, <3>1, <3>2 DEF Resting
  <2>2. CASE Leaving(x) \/ Starting(x) \/ NotifyAttach(x) \/ Abort(x)
    <3>1. /\ pc[x] \in {"detach", "notify_detach", "none", "notify_attach", "idle", "wait", "wait_attach"}
          /\ \E l \in {"notify_detach", "end", "notify_attach", "idle", "detach"} :
               pc' = [pc EXCEPT ![x] = l] /\ (l = "notify_attach" => pc[x] = "none")
      BY Zenon, <2>2 DEF Leaving, Starting, DetachInternal, NotifyDetach, Attach, NeverStarts,
             NotifyAttach, Abort, At,
         Goto
    <3> QED
      BY Zenon, <3>1 DEF Resting
  <2> QED
    BY Zenon, <2>1, <2>2
<1>4. pc'[x] = l /\ \A y \in Sides : y # x => pc'[y] = pc[y]
  BY Zenon, <1>3 DEF RingSteps, Numbers
<1>5. pc'["S"] = "detached" \/ pc["S"] # "detached"
  BY Zenon, <1>3, <1>4 DEF Sides
<1>6. pc["R"] \in Resting => pc'["R"] \in Resting
  BY Zenon, <1>3, <1>4 DEF Sides
<1> QED
  BY Zenon, <1>1, <1>2, <1>5, <1>6, StreamFrame

\* Publishing what is pending, and the other steps of the sender that write no cell.
LEMMA StreamSender ==
  ASSUME RingSteps, Stream,
         \/ LookRead \/ SendDetached \/ SendUnknown \/ SendFull \/ FullLatch \/ Sent \/ LookReceiver
            \/ Flush
         \/ FlushLatch \/ (\E f \in Flushes : Send(f)) \/ Detach("S")
  PROVE  Stream'
<1>0. /\ pending \in [Sides -> Nat] /\ bytesWritten \in Nat /\ "S" \in Sides /\ "R" \in Sides
      /\ lengthDone = [x \in Sides |-> lengthDone[x]] /\ partial = [x \in Sides |-> partial[x]]
  BY Zenon DEF RingSteps, Numbers, Sides
<1>1. UNCHANGED <<ring, sent, received, expected, buffer, bytesRead, got>>
  BY Zenon DEF LookRead, SendDetached, SendUnknown, SendFull, FullLatch, Sent, LookReceiver, Flush,
         FlushLatch, Send,
     Detach, shm, local, history
<1>2. \/ bytesWritten' = bytesWritten /\ pending' = pending
      \/ bytesWritten' = Written /\ pending' = [pending EXCEPT !["S"] = 0]
  BY Zenon DEF LookRead, SendDetached, SendUnknown, SendFull, FullLatch, Sent, LookReceiver, Flush,
         FlushLatch, Send,
     Detach, shm, local, history, Written
<1>3. Written' = Written /\ Read' = Read /\ pending'["R"] = pending["R"]
  <2>1. CASE bytesWritten' = bytesWritten /\ pending' = pending
    BY Zenon, <1>1, <2>1 DEF Written, Read
  <2>2. CASE bytesWritten' = Written /\ pending' = [pending EXCEPT !["S"] = 0]
    <3>1. pending'["S"] = 0 /\ pending'["R"] = pending["R"] /\ Written \in Nat
      BY <1>0, <2>2 DEF Written
    <3> QED
      BY <1>1, <2>2, <3>1 DEF Written, Read
  <2> QED
    BY Zenon, <1>2, <2>1, <2>2
<1>4. /\ pc["S"] \in {"look", "act", "full", "sent", "receiver?", "flush", "flush_latch", "idle",
                    "wait"}
      /\ \E l : pc' = [pc EXCEPT !["S"] = l]
  BY Zenon DEF LookRead, SendDetached, SendUnknown, SendFull, FullLatch, Sent, LookReceiver, Flush,
         FlushLatch, Send,
     Detach, At, Goto, EndDetached
<1>5. pc["S"] # "detached" /\ pc'["R"] = pc["R"]
  BY Zenon, <1>4 DEF RingSteps, Numbers, Sides
<1>6. /\ lengthDone'["R"] = lengthDone["R"] /\ partial'["R"] = partial["R"]
      /\ pc'["S"] = "detached" \/ (lengthDone'["S"] = lengthDone["S"] /\ partial'["S"] = partial["S"])
  <2>1. CASE SendDetached
    <3>1. /\ pc' = [pc EXCEPT !["S"] = "detached"] /\ partial' = [partial EXCEPT !["S"] = 0]
          /\ lengthDone' = [lengthDone EXCEPT !["S"] = FALSE]
      BY Zenon, <2>1 DEF SendDetached, EndDetached, Goto
    <3>2. pc'["S"] = "detached"
      BY Zenon, <3>1 DEF RingSteps, Numbers, Sides
    <3> QED
      BY Zenon, <1>0, <3>1, <3>2
  <2>2. CASE ~SendDetached
    BY Zenon, <2>2 DEF LookRead, SendUnknown, SendFull, FullLatch, Sent, LookReceiver, Flush, FlushLatch,
           Send,
       Detach, shm, local, history
  <2> QED
    BY Zenon, <2>1, <2>2
<1> QED
  BY Zenon, <1>1, <1>3, <1>5, <1>6, StreamFrame

\* The receiver's steps that read no cell; what it was given is not valid any more
\* when it gives cells back.
LEMMA StreamReceiver ==
  ASSUME RingSteps, Stream,
         \/ Receive \/ Consume \/ ConsumeLatch("consume_latch", "look") \/ LookWritten \/ ReceiveShort
            \/ Again \/ Short
         \/ ConsumeLatch("short_latch", "wait") \/ Detach("R")
  PROVE  Stream'
<1>0. /\ pending \in [Sides -> Nat] /\ bytesWritten \in Nat /\ bytesRead \in Nat /\ "S" \in Sides
         /\ "R" \in Sides
  BY Zenon DEF RingSteps, Numbers, Sides
<1>1. UNCHANGED <<ring, sent, received, expected, buffer, lengthDone, partial>>
  BY Zenon DEF Receive, Consume, ConsumeLatch, LookWritten, ReceiveShort, Again, Short, Detach, shm,
         local, history
<1>2. bytesWritten' = bytesWritten
  <2>1. CASE Detach("R")
    <3>1. bytesWritten' = bytesWritten + 0
      BY Zenon, <2>1 DEF Detach
    <3> QED
      BY <1>0, <3>1
  <2>2. CASE ~Detach("R")
    BY Zenon, <2>2 DEF Receive, Consume, ConsumeLatch, LookWritten, ReceiveShort, Again, Short, shm,
           local, history
  <2> QED
    BY Zenon, <2>1, <2>2
<1>3. \/ bytesRead' = bytesRead /\ pending' = pending
      \/ bytesRead' = Read /\ pending' = [pending EXCEPT !["R"] = 0] /\ (Consume \/ Short)
  <2>1. CASE Detach("R")
    BY Zenon, <2>1 DEF Detach
  <2>2. CASE ~Detach("R")
    BY Zenon, <2>2 DEF Receive, Consume, ConsumeLatch, LookWritten, ReceiveShort, Again, Short, shm,
           local, history
  <2> QED
    BY Zenon, <2>1, <2>2
<1>4. Written' = Written /\ Read' = Read
  <2>1. CASE bytesRead' = bytesRead /\ pending' = pending
    BY Zenon, <1>2, <2>1 DEF Written, Read
  <2>2. CASE bytesRead' = Read /\ pending' = [pending EXCEPT !["R"] = 0]
    <3>1. pending'["R"] = 0 /\ pending'["S"] = pending["S"] /\ Read \in Nat
      BY <1>0, <2>2 DEF Read
    <3> QED
      BY <1>2, <2>2, <3>1 DEF Written, Read
  <2> QED
    BY Zenon, <1>3, <2>1, <2>2
<1>5. pc'["S"] = pc["S"]
  <2>1. \E l : pc' = [pc EXCEPT !["R"] = l]
    BY Zenon DEF Receive, Consume, ConsumeLatch, LookWritten, ReceiveShort, Again, Short, Detach, Goto,
           EndDetached
  <2> QED
    BY Zenon, <2>1 DEF RingSteps, Numbers, Sides
<1>6. \/ got' = None
      \/ got' = got /\ (pc["R"] \in Resting => pc'["R"] \in Resting /\ pending'["R"] = pending["R"])
  <2>1. CASE Receive
    <3>1. got' = None \/ (got' = got /\ pc["R"] = "start")
      BY Zenon, <2>1 DEF Receive, At
    <3> QED
      BY Zenon, <3>1 DEF Resting
  <2>2. CASE Detach("R")
    <3>1. got' = got /\ pc' = [pc EXCEPT !["R"] = "detach"] /\ pending' = pending
      BY Zenon, <2>2 DEF Detach, Goto
    <3> QED
      BY Zenon, <3>1 DEF Resting, RingSteps, Numbers, Sides
  <2>3. CASE ~Receive /\ ~Detach("R")
    <3>1. got' = got
              /\ pc["R"] \in {"consume", "consume_latch", "look", "act", "again?", "short", "short_latch"}
      BY Zenon, <2>3 DEF Consume, ConsumeLatch, LookWritten, ReceiveShort, Again, Short, local, At
    <3> QED
      BY Zenon, <3>1 DEF Resting
  <2> QED
    BY Zenon, <2>1, <2>2, <2>3
<1>7. pc'["S"] = "detached" \/ pc["S"] # "detached"
  BY Zenon, <1>5
<1> QED
  BY Zenon, <1>1, <1>4, <1>6, <1>7, StreamFrame

\* A place of the stream belongs to one message.
LEMMA PlaceIs ==
  ASSUME NEW s \in 0 .. Len(Length), s < Len(Length), NEW m \in Messages, NEW i \in 0 .. Length[m],
         End[s] <= End[m - 1] + i, End[m - 1] + i < End[s + 1]
  PROVE  m = s + 1
<1>1. /\ m \in Nat /\ m - 1 \in 0 .. Len(Length) /\ m \in 0 .. Len(Length) /\ Length[m] \in Nat
      /\ End[m] = End[m - 1] + 1 + Length[m] /\ Len(Length) \in Nat
  BY Zenon, EndFacts
<1>2. s \in Nat /\ s + 1 \in 0 .. Len(Length)
  BY Zenon, <1>1, EndFacts
<1>3. End[m] \in Nat /\ End[m - 1] \in Nat /\ End[s] \in Nat /\ End[s + 1] \in Nat
  BY Zenon, <1>1, <1>2, EndFacts
<1>4. CASE m < s + 1
  <2>1. m = s \/ m < s
    BY <1>1, <1>2, <1>4
  <2>2. End[m] <= End[s]
    BY <1>1, <1>3, <2>1, EndGrows
  <2> QED
    BY SMTT(30), <1>1, <1>3, <2>2
<1>5. CASE m > s + 1
  <2>1. m - 1 = s + 1 \/ s + 1 < m - 1
    BY <1>1, <1>2, <1>5
  <2>2. CASE m - 1 = s + 1
    BY <1>3, <2>2
  <2>3. CASE s + 1 < m - 1
    <3>1. End[s + 1] < End[m - 1]
      BY Zenon, <1>1, <1>2, <2>3, EndGrows
    <3> QED
      BY <1>3, <3>1
  <2> QED
    BY Zenon, <2>1, <2>2, <2>3
<1> QED
  BY <1>1, <1>2, <1>4, <1>5

\* How much of the message is sent.
Begun == IF lengthDone["S"] THEN partial["S"] ELSE -1

\* What is where in a SubSeq.
LEMMA PartAt ==
  ASSUME NEW S, NEW s \in Seq(S), NEW a \in 1 .. Len(s) + 1, NEW b \in a - 1 .. Len(s),
         NEW k \in 1 .. b - a + 1
  PROVE  SubSeq(s, a, b)[k] = s[a + k - 1]
OBVIOUS

\* The cells that a memcpy writes.
LEMMA ToSendCells ==
  ASSUME RingSteps, sent < Len(Length), NEW k \in 1 .. Len(ToSend)
  PROVE  ToSend[k] = <<sent + 1, Begun + k>>
<1>1. PICK m \in Messages, L \in Nat : m = sent + 1 /\ L = Length[m]
  BY Zenon, ToSendFacts
<1>2. CASE lengthDone["S"]
  <2>1. PICK n \in Nat : n = partial["S"] /\ n < L
    BY Zenon, <1>1, <1>2 DEF RingSteps, Numbers, Contents, Sides
  <2>2. PICK c : c = Cells(m)
    BY Zenon
  <2>3. c = [i \in 1 .. L |-> <<m, i>>]
    BY Zenon, <1>1, <2>2 DEF Cells
  <2>4. c \in Seq({m} \X Nat) /\ Len(c) = L
    BY <2>3
  <2>5. ToSend = SubSeq(c, n + 1, L)
    BY Zenon, <1>1, <1>2, <2>1, <2>2 DEF ToSend
  <2>6. Len(ToSend) = L - n
    BY Zenon, <1>1, <1>2, <2>1, ToSendFacts
  <2>7. k \in 1 .. L - n /\ n + k \in 1 .. L /\ n + 1 + k - 1 = n + k
    BY <2>1, <2>6
  <2>8. SubSeq(c, n + 1, L)[k] = c[n + 1 + k - 1]
    <3>1. Len(c) = L
      BY Zenon, <2>4
    <3>2. n + 1 \in 1 .. L + 1 /\ L \in (n + 1) - 1 .. L /\ L - (n + 1) + 1 = L - n
      BY <2>1
    <3>3. /\ n + 1 \in 1 .. Len(c) + 1 /\ L \in (n + 1) - 1 .. Len(c)
          /\ k \in 1 .. L - (n + 1) + 1
      BY Zenon, <2>7, <3>1, <3>2
    <3> QED
      BY Zenon, <2>4, <3>3, PartAt
  <2>9. ToSend[k] = <<m, n + k>>
    BY Zenon, <2>3, <2>5, <2>7, <2>8
  <2> QED
    BY Zenon, <1>1, <1>2, <2>1, <2>9 DEF Begun
<1>3. CASE ~lengthDone["S"]
  <2>1. ToSend = << <<sent + 1, 0>> >>
    BY Zenon, <1>3 DEF ToSend
  <2>2. k = 1 /\ Begun = -1
    BY <1>3, <2>1 DEF Begun
  <2> QED
    BY <2>1, <2>2
<1> QED
  BY Zenon, <1>2, <1>3

\* What a memcpy into the ring changes.
LEMMA ChunkFacts ==
  ASSUME RingSteps, SendChunk
  PROVE  LET o == Written % RingSize
             whole == IF lengthDone["S"] THEN Len(ToSend) - Chunk = 0 ELSE Length[sent + 1] = 0
         IN /\ sent < Len(Length) /\ sent + 1 \in Messages /\ Length[sent + 1] \in Nat
            /\ Written \in Nat /\ o \in 0 .. RingSize - 1 /\ Chunk \in Nat \ {0} /\ o + Chunk <= RingSize
            /\ Chunk <= Len(ToSend) /\ Written' = Written + Chunk /\ Read' = Read
            /\ ring' = [i \in 0 .. RingSize - 1 |-> IF i \in o .. o + Chunk - 1 THEN ToSend[i - o + 1] ELSE ring[i]]
            /\ lengthDone'["S"] = ~whole
            /\ partial'["S"] = IF whole \/ ~lengthDone["S"] THEN 0 ELSE partial["S"] + Chunk
            /\ sent' = IF whole THEN sent + 1 ELSE sent
            /\ pc["S"] # "detached" /\ pc'["R"] = pc["R"] /\ pending'["R"] = pending["R"]
            /\ lengthDone'["R"] = lengthDone["R"] /\ partial'["R"] = partial["R"]
            /\ UNCHANGED <<received, expected, buffer, got>>
<1> DEFINE o == Written % RingSize
           whole == IF lengthDone["S"] THEN Len(ToSend) - Chunk = 0 ELSE Length[sent + 1] = 0
<1>1. sent < Len(Length) /\ At("S", "act") /\ Space > 0
  BY Zenon DEF SendChunk, RingSteps, Contents, At, Sending
<1>2. /\ bytesRead \in Nat /\ bytesWritten \in Nat /\ sent \in Nat /\ RingSize \in Nat \ {0}
      /\ pending["S"] \in Nat /\ pending["R"] \in Nat /\ seen["S"] \in Nat /\ partial["S"] \in Nat
  BY Zenon, ShmMqAssumption DEF RingSteps, Numbers, Sides
<1>3. Written \in Nat /\ Space \in Nat
  <2>1. Written \in Nat
    BY <1>2 DEF Written
  <2>2. Written - seen["S"] <= RingSize
    BY Zenon, <1>1 DEF RingSteps, Counters
  <2> QED
    BY <1>1, <1>2, <2>1, <2>2 DEF Space
<1>4. o \in 0 .. RingSize - 1
  BY Zenon, <1>3, ModFacts
<1>5. /\ Chunk \in Nat \ {0} /\ Chunk <= Len(ToSend) /\ o + Chunk <= RingSize
  <2>1. Len(ToSend) \in Nat \ {0}
    BY Zenon, <1>1, ToSendFacts
  <2>2. Chunk = Min2(Min2(Space, Len(ToSend)), RingSize - o)
    BY Zenon DEF Chunk
  <2> HIDE DEF o
  <2>3. RingSize - o \in Nat \ {0}
    BY <1>2, <1>4
  <2> DEFINE n == Min2(Space, Len(ToSend))
  <2>4. n \in Nat \ {0} /\ n <= Space /\ n <= Len(ToSend)
    BY SMTT(30), <1>1, <1>3, <2>1, MinFacts
  <2> HIDE DEF n
  <2>5. Chunk \in {n, RingSize - o} /\ Chunk <= n /\ Chunk <= RingSize - o
    BY Zenon, <2>2, <2>3, <2>4, MinFacts DEF n
  <2> QED
    BY <1>2, <1>3, <1>4, <2>1, <2>3, <2>4, <2>5
<1>6. /\ ring' = [i \in 0 .. RingSize - 1 |-> IF i \in o .. o + Chunk - 1 THEN ToSend[i - o + 1] ELSE ring[i]]
      /\ pending' = [pending EXCEPT !["S"] = pending["S"] + Chunk]
      /\ lengthDone' = [lengthDone EXCEPT !["S"] = ~ whole]
      /\ partial' = [partial EXCEPT !["S"] = IF whole \/ ~ lengthDone["S"] THEN 0 ELSE partial["S"] + Chunk]
      /\ sent' = sent + (IF whole THEN 1 ELSE 0)
      /\ Goto("S", IF whole THEN "sent" ELSE "look")
      /\ UNCHANGED <<bytesRead, bytesWritten, received, expected, buffer, got>>
  BY Zenon DEF SendChunk, RingSteps, Contents
<1> HIDE DEF o, whole
<1>7. pending'["S"] = pending["S"] + Chunk /\ pending'["R"] = pending["R"]
  BY Zenon, <1>6 DEF RingSteps, Numbers, Sides
<1>8. Written' = Written + Chunk /\ Read' = Read
  BY <1>2, <1>5, <1>6, <1>7 DEF Written, Read
<1>9. /\ lengthDone'["S"] = ~whole /\ lengthDone'["R"] = lengthDone["R"] /\ partial'["R"] = partial["R"]
      /\ partial'["S"] = IF whole \/ ~lengthDone["S"] THEN 0 ELSE partial["S"] + Chunk
  BY Zenon, <1>6 DEF RingSteps, Numbers, Sides
<1>10. pc["S"] # "detached" /\ pc'["R"] = pc["R"]
  BY Zenon, <1>1, <1>6 DEF At, Goto, RingSteps, Numbers, Sides
<1>11. sent' = IF whole THEN sent + 1 ELSE sent
  BY <1>2, <1>6
<1>12. sent + 1 \in Messages /\ Length[sent + 1] \in Nat
  BY Zenon, <1>1, ToSendFacts
<1> QED
  BY Zenon, <1>1, <1>3, <1>4, <1>5, <1>6, <1>7, <1>8, <1>9, <1>10, <1>11, <1>12 DEF o, whole

\* memcpy into the ring.
LEMMA StreamChunk == ASSUME RingSteps, Stream, SendChunk PROVE Stream'
<1> DEFINE whole == IF lengthDone["S"] THEN Len(ToSend) - Chunk = 0 ELSE Length[sent + 1] = 0
<1>1. PICK N \in Nat, W \in Nat, o \in Nat, C \in Nat, T \in Nat, m \in Messages, L \in Nat, M \in Nat :
        /\ N = RingSize /\ W = Written /\ o = W % N /\ C = Chunk /\ T = Len(ToSend) /\ m = sent + 1
        /\ L = Length[m] /\ M = Len(Length) /\ sent < M
        /\ N > 0 /\ o < N /\ C > 0 /\ o + C <= N /\ C <= T
        /\ Written' = W + C /\ Read' = Read
        /\ ring' = [i \in 0 .. N - 1 |-> IF i \in o .. o + C - 1 THEN ToSend[i - o + 1] ELSE ring[i]]
        /\ lengthDone'["S"] = ~whole /\ sent' = (IF whole THEN m ELSE sent)
        /\ partial'["S"] = (IF whole \/ ~lengthDone["S"] THEN 0 ELSE partial["S"] + C)
        /\ pc["S"] # "detached" /\ pc'["R"] = pc["R"] /\ pending'["R"] = pending["R"]
        /\ lengthDone'["R"] = lengthDone["R"] /\ partial'["R"] = partial["R"]
        /\ UNCHANGED <<received, expected, buffer, got>>
  <2>1. /\ sent < Len(Length) /\ sent + 1 \in Messages /\ Length[sent + 1] \in Nat
        /\ Written \in Nat /\ (Written % RingSize) \in 0 .. RingSize - 1 /\ Chunk \in Nat \ {0}
        /\ (Written % RingSize) + Chunk <= RingSize /\ Chunk <= Len(ToSend)
        /\ Written' = Written + Chunk /\ Read' = Read
        /\ ring' = [i \in 0 .. RingSize - 1 |-> IF i \in (Written % RingSize) .. (Written % RingSize) + Chunk - 1
                                                THEN ToSend[i - (Written % RingSize) + 1] ELSE ring[i]]
        /\ lengthDone'["S"] = ~whole /\ sent' = (IF whole THEN sent + 1 ELSE sent)
        /\ partial'["S"] = (IF whole \/ ~lengthDone["S"] THEN 0 ELSE partial["S"] + Chunk)
        /\ pc["S"] # "detached" /\ pc'["R"] = pc["R"] /\ pending'["R"] = pending["R"]
        /\ lengthDone'["R"] = lengthDone["R"] /\ partial'["R"] = partial["R"]
        /\ UNCHANGED <<received, expected, buffer, got>>
    BY Zenon, ChunkFacts
  <2>2. Len(ToSend) \in Nat
    BY Zenon, <2>1, ToSendFacts
  <2>3. RingSize \in Nat /\ RingSize > 0 /\ Len(Length) \in Nat
    BY ShmMqAssumption
  <2>4. /\ (Written % RingSize) \in Nat /\ (Written % RingSize) < RingSize
        /\ Chunk \in Nat /\ Chunk > 0
    BY <2>1, <2>3
  <2> HIDE DEF whole
  <2> QED
    BY Zenon, <2>1, <2>2, <2>3, <2>4
<1>2. /\ T = IF lengthDone["S"] THEN L - partial["S"] ELSE 1
      /\ \A k \in 1 .. T : ToSend[k] = <<m, Begun + k>>
  <2>1. /\ Len(ToSend) = IF lengthDone["S"] THEN Length[sent + 1] - partial["S"] ELSE 1
        /\ \A k \in 1 .. Len(ToSend) : ToSend[k] = <<sent + 1, Begun + k>>
    BY Zenon, <1>1, ToSendFacts, ToSendCells
  <2> QED
    BY Zenon, <1>1, <2>1
<1>3. PICK s \in Nat, E \in Nat, F \in Nat :
        /\ s = sent /\ s \in 0 .. Len(Length) /\ m \in 0 .. Len(Length) /\ m = s + 1 /\ m - 1 = s
        /\ E = End[sent] /\ F = End[m] /\ F = E + 1 + L
  <2>1. sent \in 0 .. Len(Length) /\ sent + 1 \in 0 .. Len(Length) /\ (sent + 1) - 1 = sent
    <3>1. sent \in 0 .. M /\ sent < M /\ M \in Nat
      BY Zenon, <1>1 DEF Stream, SenderAt
    <3>2. sent + 1 \in 0 .. M /\ (sent + 1) - 1 = sent
      BY <3>1
    <3> QED
      BY Zenon, <1>1, <3>1, <3>2
  <2>2. End[sent] \in Nat /\ End[m] \in Nat /\ End[m] = End[m - 1] + 1 + Length[m]
    BY Zenon, <1>1, <2>1, EndFacts
  <2>3. sent \in Nat
    BY <2>1
  <2> QED
    BY Zenon, <1>1, <2>1, <2>2, <2>3
<1>4. PICK b \in Int : /\ b = Begun /\ b >= -1 /\ b < L /\ W = E + 1 + b
                       /\ T = IF lengthDone["S"] THEN L - b ELSE 1
                       /\ lengthDone["S"] => b = partial["S"]
                       /\ ~lengthDone["S"] => b = -1
  <2>1. partial["S"] \in Nat /\ (lengthDone["S"] => partial["S"] < Length[sent + 1])
    BY Zenon DEF RingSteps, Numbers, Contents, Sides
  <2>2. Written = End[sent] + (IF lengthDone["S"] THEN 1 + partial["S"] ELSE 0)
    BY Zenon, <1>1 DEF Stream, SenderAt
  <2>3. W = E + (IF lengthDone["S"] THEN 1 + partial["S"] ELSE 0) /\ (lengthDone["S"] => partial["S"] < L)
    BY Zenon, <1>1, <1>3, <2>1, <2>2
  <2>4. CASE lengthDone["S"]
    <3>1. Begun = partial["S"] /\ partial["S"] \in Int /\ partial["S"] >= -1 /\ partial["S"] < L
              /\ W = E + 1 + partial["S"]
      BY <2>1, <2>3, <2>4 DEF Begun
    <3> QED
      BY Zenon, <1>2, <2>4, <3>1
  <2>5. CASE ~lengthDone["S"]
    <3>1. Begun = -1 /\ -1 \in Int /\ -1 >= -1 /\ -1 < L /\ W = E + 1 + (-1)
      BY <2>3, <2>5 DEF Begun
    <3> QED
      BY Zenon, <1>2, <2>5, <3>1
  <2> QED
    BY Zenon, <2>4, <2>5
<1>5. whole = IF lengthDone["S"] THEN T - C = 0 ELSE L = 0
  BY Zenon, <1>1
<1> HIDE DEF whole
<1>6. N > 0 /\ o < N /\ C > 0 /\ o + C <= N /\ C <= T
  BY Zenon, <1>1
<1>7. /\ whole => W + C = F
      /\ ~whole => W + C < F
      /\ ~whole /\ ~lengthDone["S"] => W + C = E + 1
      /\ W >= E /\ W + C <= F
  <2>0. F = E + 1 + L
    BY Zenon, <1>3
  <2>1. CASE lengthDone["S"]
    <3>1. b >= -1 /\ W = E + 1 + b /\ T = L - b /\ (whole <=> T - C = 0)
      BY Zenon, <1>4, <1>5, <2>1
    <3> QED
      BY <1>6, <2>0, <2>1, <3>1
  <2>2. CASE ~lengthDone["S"]
    <3>1. b = -1 /\ W = E + 1 + b /\ T = 1 /\ (whole <=> L = 0)
      BY Zenon, <1>4, <1>5, <2>2
    <3> QED
      BY <1>6, <2>0, <2>2, <3>1
  <2> QED
    BY Zenon, <2>1, <2>2
<1>8. SenderAt'
  <2>0. M = Len(Length) /\ s = sent /\ s < M /\ m \in 0 .. M /\ m = s + 1 /\ Written' = W + C
            /\ E = End[s] /\ F = End[m]
    BY Zenon, <1>1, <1>3
  <2>1. CASE whole
    <3>1. sent' = m /\ ~lengthDone'["S"] /\ Written' = End[m]
      BY Zenon, <1>1, <1>7, <2>0, <2>1
    <3>2. m < M => End[m] < End[m + 1]
      <4>1. m < M => m + 1 \in 0 .. M /\ m < m + 1
        BY <2>0
      <4> QED
        BY Zenon, <2>0, <4>1, EndGrows
    <3>3. End[m] <= End[m] /\ End[m] = End[m] + 0
      BY <1>3
    <3> QED
      BY Zenon, <2>0, <3>1, <3>2, <3>3 DEF SenderAt
  <2>2. CASE ~whole
    <3>1. sent' = s /\ lengthDone'["S"]
      BY Zenon, <1>1, <2>0, <2>2
    <3>2. W + C = E + (1 + partial'["S"])
      <4>1. CASE lengthDone["S"]
        <5>1. partial'["S"] = b + C
          BY Zenon, <1>1, <1>4, <2>2, <4>1
        <5> QED
          BY <1>4, <5>1
      <4>2. CASE ~lengthDone["S"]
        <5>1. partial'["S"] = 0
          BY Zenon, <1>1, <4>2
        <5> QED
          BY <1>7, <2>2, <4>2, <5>1
      <4> QED
        BY Zenon, <4>1, <4>2
    <3>3. E <= W + C /\ W + C < F /\ s \in 0 .. M /\ s # M
      BY <1>7, <2>0, <2>2
    <3> QED
      BY Zenon, <2>0, <3>1, <3>2, <3>3 DEF SenderAt
  <2> QED
    BY Zenon, <2>1, <2>2
<1>9. ReceiverAt'
  <2>1. Len(received) <= sent'
    <3>1. Len(received) \in Nat /\ Len(received) <= s
      BY <1>3 DEF Stream, ReceiverAt
    <3>2. sent' \in {s, s + 1}
      BY Zenon, <1>1, <1>3
    <3> QED
      BY <3>1, <3>2
  <2> QED
    BY Zenon, <1>1, <2>1 DEF Stream, ReceiverAt
<1>10. Window'
  <2> SUFFICES ASSUME NEW mm \in Messages, NEW i \in 0 .. Length[mm],
                      End[mm - 1] + i < Written', Written' - RingSize <= End[mm - 1] + i
               PROVE  ring'[(End[mm - 1] + i) % RingSize] = <<mm, i>>
    BY Zenon DEF Window
  <2>0. N = RingSize /\ Written' = W + C
    BY Zenon, <1>1
  <2>1. PICK p \in Nat : p = End[mm - 1] + i
    BY EndFacts
  <2>2. PICK z \in 0 .. N - 1 : z = p % N
    BY Zenon, <1>1, <2>1, ModFacts
  <2>3. /\ p < W + C /\ (W + C) - N <= p
    BY Zenon, <2>0, <2>1
  <2>4. CASE p < W
    <3>1. ring[z] = <<mm, i>>
      <4>1. W - N <= p
        BY <1>6, <2>3
      <4>2. End[mm - 1] + i < Written /\ Written - RingSize <= End[mm - 1] + i
        BY Zenon, <1>1, <2>1, <2>4, <4>1
      <4>3. ring[(End[mm - 1] + i) % RingSize] = <<mm, i>>
        BY Zenon, <4>2 DEF Stream, Window
      <4> QED
        BY Zenon, <1>1, <2>1, <2>2, <4>3
    <3>2. z \notin o .. o + C - 1
      <4> SUFFICES ASSUME z \in o .. o + C - 1 PROVE FALSE
        BY Zenon
      <4>0. PICK y \in Nat : y = z - o /\ z = o + y /\ y < C
        BY <1>6
      <4>1. y \in 0 .. N /\ o + y < N
        BY <1>6, <4>0
      <4>2. (W + y) % N = o + y
        <5>1. (W + y) % RingSize = IF (W % RingSize) + y < RingSize THEN (W % RingSize) + y
                  ELSE (W % RingSize) + y - RingSize
          BY Zenon, <1>1, <4>1, ModAdd
        <5> QED
          BY Zenon, <1>1, <4>1, <5>1
      <4>3. W + y \in Nat /\ p < W + y /\ W + y < p + N
        BY <1>6, <2>3, <2>4, <4>0
      <4>4. p % N # (W + y) % N
        BY Zenon, <1>1, <4>3, ModApart
      <4> QED
        BY Zenon, <2>2, <4>0, <4>2, <4>4
    <3>3. ring'[z] = ring[z]
      BY Zenon, <1>1, <3>2
    <3> QED
      BY Zenon, <2>0, <2>1, <2>2, <3>1, <3>3
  <2>5. CASE ~(p < W)
    <3>1. E <= p /\ p < F
      BY <1>7, <2>3, <2>5
    <3>2. mm = m
      <4>1. End[s] <= End[mm - 1] + i /\ End[mm - 1] + i < End[s + 1] /\ s < Len(Length)
        BY Zenon, <1>1, <1>3, <2>1, <3>1
      <4>2. mm = s + 1
        BY Zenon, <1>3, <4>1, PlaceIs
      <4> QED
        BY Zenon, <1>3, <4>2
    <3>3. PICK y \in Nat : y = p - W /\ y < C /\ p = W + y
      BY <2>3, <2>5
    <3>4. y \in 0 .. N /\ o + y < N
      BY <1>6, <3>3
    <3>5. z = o + y
      <4>1. (W + y) % RingSize = IF (W % RingSize) + y < RingSize THEN (W % RingSize) + y
                ELSE (W % RingSize) + y - RingSize
        BY Zenon, <1>1, <3>4, ModAdd
      <4> QED
        BY Zenon, <1>1, <2>2, <3>3, <3>4, <4>1
    <3>6. ring'[z] = ToSend[y + 1]
      <4>1. z \in o .. o + C - 1 /\ z - o + 1 = y + 1
        BY <1>6, <3>3, <3>5
      <4> QED
        BY Zenon, <1>1, <4>1
    <3>7. y + 1 \in 1 .. T /\ b + (y + 1) = i
      <4>1. p = E + i /\ i \in Int
        <5>1. End[mm - 1] = E
          BY Zenon, <1>3, <3>2
        <5> QED
          BY <2>1, <5>1
      <4>2. y + 1 \in 1 .. T
        BY <1>6, <3>3
      <4>3. W = E + 1 + b
        BY Zenon, <1>4
      <4> QED
        BY <3>3, <4>1, <4>2, <4>3
    <3> QED
      BY Zenon, <1>2, <1>4, <2>0, <2>1, <2>2, <3>2, <3>6, <3>7
  <2> QED
    BY Zenon, <2>4, <2>5
<1>11. Lent'
  BY Zenon, <1>1 DEF Stream, Lent
<1> QED
  BY Zenon, <1>8, <1>9, <1>10, <1>11 DEF Stream

\* What the receiver finds at the place where it reads.
LEMMA RingCell ==
  ASSUME RingSteps, Stream, At("R", "act"), NEW m \in Messages, NEW i \in 0 .. Length[m],
         NEW j \in Nat, j < Run, End[m - 1] + i = Read + j
  PROVE  ring[Offset + j] = <<m, i>>
<1>1. PICK N \in Nat, R \in Nat, W \in Nat, o \in Nat, u \in Nat :
        /\ N = RingSize /\ R = Read /\ W = Written /\ o = Offset /\ u = Used /\ N > 0 /\ o < N /\ o = R % N
        /\ u + R <= W /\ W <= R + N
  <2>1. /\ bytesRead \in Nat /\ bytesWritten \in Nat /\ seen["R"] \in Nat /\ pending["R"] \in Nat
        /\ pending["S"] \in Nat /\ RingSize \in Nat \ {0}
    BY Zenon, ShmMqAssumption DEF RingSteps, Numbers, Sides
  <2>2. Read \in Nat /\ bytesRead <= Read /\ Written \in Nat /\ bytesWritten <= Written
    BY <2>1 DEF Read, Written
  <2>3. Used \in Nat /\ Offset \in 0 .. RingSize - 1
    BY Zenon, RunFacts
  <2>4. Used + Read = seen["R"] /\ seen["R"] <= bytesWritten /\ Written - bytesRead <= RingSize
    BY <2>1, <2>2 DEF Used, RingSteps, Counters
  <2>5. Used + Read <= Written /\ Written <= Read + RingSize /\ Offset \in Nat /\ Offset < RingSize
            /\ RingSize > 0
    BY <2>1, <2>2, <2>3, <2>4
  <2> QED
    BY Zenon, <2>1, <2>2, <2>3, <2>5 DEF Offset
<1>2. j < u /\ j < N - o
  <2>1. N - o \in Nat
    BY <1>1
  <2>2. Min2(u, N - o) <= u /\ Min2(u, N - o) <= N - o /\ Min2(u, N - o) \in {u, N - o}
    BY Zenon, <1>1, <2>1, MinFacts
  <2>3. j < Min2(u, N - o)
    BY Zenon, <1>1 DEF Run
  <2> QED
    BY <1>1, <2>1, <2>2, <2>3
<1>3. /\ R + j < W /\ W - N <= R + j
      /\ j \in 0 .. N /\ o + j < N
  <2>1. u + R <= W /\ W <= R + N /\ o < N
    BY Zenon, <1>1
  <2> QED
    BY <1>2, <2>1
<1>4. (R + j) % N = o + j
  <2>1. (R + j) % RingSize = IF (R % RingSize) + j < RingSize THEN (R % RingSize) + j
            ELSE (R % RingSize) + j - RingSize
    BY Zenon, <1>1, <1>3, ModAdd
  <2> QED
    BY Zenon, <1>1, <1>3, <2>1
<1>5. ring[(End[m - 1] + i) % RingSize] = <<m, i>>
  <2>1. End[m - 1] + i < Written /\ Written - RingSize <= End[m - 1] + i
    BY Zenon, <1>1, <1>3
  <2> QED
    BY Zenon, <2>1 DEF Stream, Window
<1> QED
  BY Zenon, <1>1, <1>4, <1>5

\* What lies before bytesWritten was sent.
LEMMA SentBefore ==
  ASSUME RingSteps, Stream, NEW r \in Nat, r = Len(received)
  PROVE  /\ r \in 0 .. Len(Length) /\ End[r] \in Nat
         /\ End[r] < Written => r < Len(Length)
         /\ r < Len(Length) /\ End[r + 1] <= Written => r + 1 <= sent
<1>1. PICK M \in Nat : M = Len(Length)
  BY Zenon, EndFacts
<1>2. PICK s \in Nat : /\ s = sent /\ s <= M /\ r <= s
                       /\ s < M => Written < End[s + 1]
                       /\ s = M => Written = End[s]
  <2>1. sent \in 0 .. M /\ r <= sent /\ (sent < M => Written < End[sent + 1])
        /\ (sent = M => Written = End[sent])
    BY Zenon, <1>1 DEF Stream, SenderAt, ReceiverAt
  <2>2. sent \in Nat /\ sent <= M
    BY <2>1
  <2> QED
    BY Zenon, <2>1, <2>2
<1>3. r \in 0 .. M /\ (r < M => r + 1 \in 0 .. M)
  BY <1>2
<1>4. End[r] \in Nat /\ (r < M => End[r + 1] \in Nat) /\ Written \in Nat
  <2>1. Written \in Nat
    BY DEF RingSteps, Numbers, Sides, Written
  <2> QED
    BY Zenon, <1>1, <1>3, <2>1, EndFacts
<1>5. End[r] < Written => r < M
  <2>1. CASE r = M
    <3>1. s = M
      BY <1>2, <2>1
    <3>2. Written = End[r]
      BY Zenon, <1>2, <2>1, <3>1
    <3> QED
      BY <1>4, <3>2
  <2> QED
    BY <1>2, <2>1
<1>6. r < M /\ End[r + 1] <= Written => r + 1 <= s
  <2>1. CASE s = r
    <3>1. r < M => Written < End[r + 1]
      BY Zenon, <1>2, <2>1
    <3> QED
      BY <1>4, <3>1
  <2> QED
    BY <1>2, <2>1
<1> QED
  BY Zenon, <1>1, <1>2, <1>3, <1>4, <1>5, <1>6

\* The parts of a message put together.
LEMMA PutTogether ==
  ASSUME NEW m, NEW p \in Nat, NEW k \in Nat
  PROVE  [i \in 1 .. p |-> <<m, i>>] \o [i \in 1 .. k |-> <<m, p + i>>] = [i \in 1 .. p + k |-> <<m, i>>]
OBVIOUS

\* A message is returned to the caller.
LEMMA StreamDeliver ==
  ASSUME RingSteps, Stream, NEW r \in Nat, r = Len(received), r < Len(Length), r + 1 <= sent,
         NEW o, NEW n \in Nat, NEW L \in Nat, L = Length[r + 1], Take(n), Deliver(o, Cells(r + 1)),
             Read + n = End[r + 1],
         UNCHANGED <<ring, bytesRead, bytesWritten, sent>>,
         o # -1 => n >= L /\ (L > 0 => o = (End[r + 1] - L) % RingSize /\ o + L <= RingSize)
  PROVE  Stream'
<1> DEFINE m == r + 1
<1>1. /\ bytesRead \in Nat /\ bytesWritten \in Nat /\ pending["R"] \in Nat /\ pending["S"] \in Nat
      /\ pending'["R"] = pending["R"] + n /\ pending'["S"] = pending["S"]
  BY Zenon DEF RingSteps, Numbers, Sides, Take
<1>2. Written' = Written /\ Read' = End[m]
  <2>1. Written' = Written
    BY Zenon, <1>1 DEF Written
  <2>2. Read' = Read + n
    BY <1>1 DEF Read
  <2> QED
    BY Zenon, <2>1, <2>2
<1>3. /\ lengthDone'["R"] = FALSE /\ partial'["R"] = 0 /\ lengthDone'["S"] = lengthDone["S"]
      /\ partial'["S"] = partial["S"] /\ pc'["R"] = "idle" /\ pc'["S"] = pc["S"]
  BY Zenon DEF RingSteps, Numbers, Sides, Deliver, Goto
<1>4. SenderAt'
  BY Zenon, <1>2, <1>3 DEF Stream, SenderAt
<1>5. Window'
  BY Zenon, <1>2 DEF Stream, Window
<1>6. m \in Messages /\ m \in 0 .. Len(Length) /\ End[m] \in Nat
  <2>1. r \in 0 .. Len(Length)
    BY EndFacts
  <2>2. m \in Messages
    BY Zenon, <2>1, EndFacts
  <2> QED
    BY Zenon, <2>2, EndFacts
<1> DEFINE S == {Cells(x) : x \in Messages}
<1>7. Cells(m) \in S /\ received \in Seq(S)
  BY Zenon, <1>6 DEF Stream, ReceiverAt
<1>8. received' = Append(received, Cells(m)) /\ got' = [at |-> o, cells |-> Cells(m)] /\ buffer' = <<>>
  BY Zenon DEF Deliver
<1> HIDE DEF S
<1>9. /\ received' \in Seq(S) /\ Len(received') = m /\ received'[m] = Cells(m)
      /\ \A j \in 1 .. r : received'[j] = received[j]
  <2> DEFINE c == Cells(m)
  <2>0. c \in S /\ received' = Append(received, c)
    BY Zenon, <1>7, <1>8
  <2> HIDE DEF c
  <2>1. /\ received' \in Seq(S) /\ Len(received') = m /\ received'[m] = c
        /\ \A j \in 1 .. r : received'[j] = received[j]
    BY <1>7, <2>0
  <2> QED
    BY Zenon, <2>1 DEF c
<1>10. \A j \in 1 .. m : received'[j] = Cells(j)
  <2> SUFFICES ASSUME NEW j \in 1 .. m PROVE received'[j] = Cells(j)
    BY Zenon
  <2>1. j \in 1 .. r \/ j = m
    OBVIOUS
  <2> HIDE DEF m
  <2> QED
    BY Zenon, <1>9, <2>1 DEF Stream, ReceiverAt
<1> HIDE DEF m
<1>11. buffer' = [i \in 1 .. 0 |-> <<m + 1, i>>]
  BY <1>8
<1>12. ReceiverAt'
  <2>1. Read' = End[m] + 0
    BY <1>2, <1>6
  <2>2. m <= sent
    BY Zenon DEF m
  <2> QED
    BY Zenon, <1>3, <1>9, <1>10, <1>11, <2>1, <2>2 DEF ReceiverAt, S
<1>13. Lent'
  <2>1. got'.at = o /\ got'.cells = Cells(m)
    BY Zenon, <1>8
  <2>2. m >= 1 /\ L = Length[m]
    BY DEF m
  <2>3. pc'["R"] \in Resting
    BY Zenon, <1>3 DEF Resting
  <2>4. o # -1 => pending'["R"] >= L
    BY <1>1
  <2>5. o # -1 => (L > 0 => o = (End[m] - L) % RingSize /\ o + L <= RingSize)
    BY Zenon DEF m
  <2> QED
    BY Zenon, <1>3, <1>9, <2>1, <2>2, <2>3, <2>4, <2>5 DEF Lent
<1> QED
  BY Zenon, <1>4, <1>5, <1>12, <1>13 DEF Stream

\* The receiver goes on with a message of which it has p cells.
LEMMA StreamMore ==
  ASSUME RingSteps, Stream, At("R", "act"), NEW r \in Nat, r = Len(received), r < Len(Length),
         NEW n \in Nat, NEW p \in Nat, Take(n), Read + n = End[r] + (1 + p), Goto("R", "look"),
         lengthDone'["R"] = TRUE, partial'["R"] = p, lengthDone'["S"] = lengthDone["S"],
             partial'["S"] = partial["S"],
         expected' = Length[r + 1], p < expected', buffer' = [i \in 1 .. p |-> <<r + 1, i>>],
         UNCHANGED <<ring, bytesRead, bytesWritten, sent, received, got>>
  PROVE  Stream'
<1>1. /\ bytesRead \in Nat /\ bytesWritten \in Nat /\ pending["R"] \in Nat /\ pending["S"] \in Nat
      /\ pending'["R"] = pending["R"] + n /\ pending'["S"] = pending["S"]
      /\ pc'["R"] = "look" /\ pc'["S"] = pc["S"]
  BY Zenon DEF RingSteps, Numbers, Sides, Take, Goto
<1>2. Written' = Written /\ Read' = End[r] + (1 + p)
  <2>1. Written' = Written
    BY Zenon, <1>1 DEF Written
  <2>2. Read' = Read + n
    BY <1>1 DEF Read
  <2> QED
    BY Zenon, <2>1, <2>2
<1>4. SenderAt'
  BY Zenon, <1>1, <1>2 DEF Stream, SenderAt
<1>5. Window'
  BY Zenon, <1>2 DEF Stream, Window
<1>6. ReceiverAt'
  BY Zenon, <1>2 DEF Stream, ReceiverAt
<1>7. Lent'
  <2>1. got.at = -1
    BY Zenon DEF Stream, Lent, At, Resting
  <2> QED
    BY Zenon, <2>1 DEF Lent
<1> QED
  BY Zenon, <1>4, <1>5, <1>6, <1>7 DEF Stream

\* Where the receiver is in the stream and how much it can read at once.
LEMMA ReceiveFacts ==
  ASSUME RingSteps, Stream, At("R", "act")
  PROVE  \E N \in Nat, o \in Nat, u \in Nat, v \in Nat, R \in Nat, W \in Nat, r \in Nat, E \in Nat :
           /\ N = RingSize /\ o = Offset /\ u = Used /\ v = Run /\ R = Read /\ W = Written
              /\ r = Len(received)
           /\ E = End[r] /\ o < N /\ v <= u /\ o + v <= N /\ R + u <= W /\ N > 0
           /\ o = R % N /\ (u > 0 => v > 0)
<1>1. /\ bytesRead \in Nat /\ bytesWritten \in Nat /\ seen["R"] \in Nat /\ pending["R"] \in Nat
      /\ pending["S"] \in Nat /\ RingSize \in Nat \ {0}
  BY Zenon, ShmMqAssumption DEF RingSteps, Numbers, Sides
<1>2. Read \in Nat /\ Written \in Nat /\ bytesWritten <= Written
  BY <1>1 DEF Read, Written
<1>3. Used \in Nat /\ Offset \in 0 .. RingSize - 1 /\ Run \in Nat
  BY Zenon, RunFacts
<1>4. Read + Used = seen["R"] /\ seen["R"] <= bytesWritten
  BY <1>1, <1>2 DEF Used, RingSteps, Counters
<1>5. RingSize - Offset \in Nat \ {0}
  BY <1>1, <1>3
<1>6. Run \in {Used, RingSize - Offset} /\ Run <= Used /\ Run <= RingSize - Offset
  BY Zenon, <1>3, <1>5, MinFacts DEF Run
<1>7. /\ Offset \in Nat /\ Offset < RingSize /\ Offset + Run <= RingSize /\ RingSize > 0
      /\ (Used > 0 => Run > 0)
  BY <1>1, <1>3, <1>5, <1>6
<1>8. Read + Used <= Written
  BY <1>1, <1>2, <1>3, <1>4
<1>9. Len(received) \in Nat
  BY DEF Stream, ReceiverAt
<1>10. End[Len(received)] \in Nat
  BY Zenon, <1>9, SentBefore
<1>11. RingSize \in Nat /\ Offset = Read % RingSize
  BY Zenon, <1>1 DEF Offset
<1> QED
  BY Zenon, <1>2, <1>3, <1>6, <1>7, <1>8, <1>9, <1>10, <1>11

\* The length word, and perhaps the message with it.
LEMMA StreamWord == ASSUME RingSteps, Stream, ReceiveWord PROVE Stream'
<1>1. /\ At("R", "act") /\ Enough /\ ~lengthDone["R"]
      /\ UNCHANGED <<ring, bytesRead, bytesWritten, sent>>
  BY Zenon DEF ReceiveWord, shm
<1>2. PICK N \in Nat, o \in Nat, u \in Nat, v \in Nat, R \in Nat, W \in Nat, r \in Nat, E \in Nat :
           /\ N = RingSize /\ o = Offset /\ u = Used /\ v = Run /\ R = Read /\ W = Written
              /\ r = Len(received)
           /\ E = End[r] /\ o < N /\ v <= u /\ o + v <= N /\ R + u <= W /\ N > 0
           /\ o = R % N /\ (u > 0 => v > 0)
  BY Zenon, <1>1, ReceiveFacts
<1>3. u > 0
  BY Zenon, <1>1, <1>2, RunFacts
<1>4. R = E /\ partial["R"] = 0
  <2>1. Read = End[r] + 0
    BY Zenon, <1>1, <1>2 DEF Stream, ReceiverAt
  <2>2. R = E + 0
    BY Zenon, <1>2, <2>1
  <2> QED
    BY <1>1, <2>2 DEF RingSteps, Contents
<1>5. r < Len(Length)
  <2>1. E < W
    BY SMTT(30), <1>2, <1>3, <1>4
  <2> QED
    BY Zenon, <1>2, <2>1, SentBefore
<1>6. PICK m \in Messages, L \in Nat, F \in Nat :
        m = r + 1 /\ m - 1 = r /\ L = Length[m] /\ F = End[m] /\ F = E + 1 + L
  <2>1. r \in 0 .. Len(Length) /\ r + 1 \in Messages /\ (r + 1) - 1 = r
    <3>1. r \in 0 .. Len(Length)
      BY Zenon, <1>2, SentBefore
    <3>2. (r + 1) - 1 = r
      OBVIOUS
    <3> QED
      BY Zenon, <1>5, <3>1, <3>2, EndFacts
  <2>2. Length[r + 1] \in Nat /\ End[r + 1] = End[r] + 1 + Length[r + 1] /\ End[r + 1] \in Nat
    BY Zenon, <2>1, EndFacts
  <2> QED
    BY Zenon, <1>2, <2>1, <2>2
<1>7. ring[Offset] = <<m, 0>>
  <2>1. /\ 0 \in 0 .. L /\ 0 \in Nat /\ 0 < v /\ E + 0 = R + 0 /\ o + 0 = o
    BY <1>2, <1>3, <1>4
  <2>2. ring[Offset + 0] = <<m, 0>>
    <3>1. 0 \in 0 .. Length[m] /\ 0 < Run /\ End[m - 1] + 0 = Read + 0
      BY Zenon, <1>2, <1>6, <2>1
    <3> QED
      BY Zenon, <1>1, <2>1, <3>1, RingCell
  <2> QED
    BY Zenon, <1>2, <2>1, <2>2
<1>8. Length[ring[Offset][1]] = L
  <2>1. ring[Offset][1] = m
    BY <1>7
  <2> QED
    BY Zenon, <1>6, <2>1
<1>9. IF v >= 1 + L
      THEN Take(1 + L) /\ Deliver(Offset + 1, CellsAt(Offset + 1, L))
      ELSE /\ Take(1) /\ expected' = L /\ lengthDone' = [lengthDone EXCEPT !["R"] = TRUE]
           /\ Goto("R", "look") /\ UNCHANGED <<partial, buffer, got, received>>
  BY Zenon, <1>2, <1>8 DEF ReceiveWord
<1>10. CASE v >= 1 + L
  <2>1. \A i \in 1 .. L : ring[o + 1 + i - 1] = <<m, i>>
    <3> SUFFICES ASSUME NEW i \in 1 .. L PROVE ring[o + 1 + i - 1] = <<m, i>>
      BY Zenon
    <3>1. /\ i \in 0 .. L /\ i \in Nat /\ i < v /\ E + i = R + i /\ o + 1 + i - 1 = o + i
      BY <1>4, <1>10
    <3>2. ring[Offset + i] = <<m, i>>
      <4>1. i \in 0 .. Length[m] /\ i < Run /\ End[m - 1] + i = Read + i
        BY Zenon, <1>2, <1>6, <3>1
      <4> QED
        BY Zenon, <1>1, <3>1, <4>1, RingCell
    <3> QED
      BY Zenon, <1>2, <3>1, <3>2
  <2>2. CellsAt(Offset + 1, L) = Cells(r + 1)
    BY Zenon, <1>2, <1>6, <2>1 DEF CellsAt, Cells
  <2>3. R + (1 + L) = F /\ F <= W
    <3>1. R + u <= W /\ v <= u
      BY Zenon, <1>2
    <3>2. F = E + 1 + L
      BY Zenon, <1>6
    <3> QED
      BY <1>4, <1>10, <3>1, <3>2
  <2>4. r + 1 <= sent
    BY Zenon, <1>2, <1>5, <1>6, <2>3, SentBefore
  <2>5. L > 0 => o + 1 = (F - L) % N /\ o + 1 + L <= N
    <3> SUFFICES ASSUME L > 0 PROVE o + 1 = (F - L) % N /\ o + 1 + L <= N
      BY Zenon
    <3>0. o + v <= N
      BY Zenon, <1>2
    <3>1. /\ F - L = R + 1 /\ o + 1 < N /\ o + 1 + L <= N /\ 1 \in 0 .. N
      BY <1>10, <2>3, <3>0
    <3>2. (R + 1) % RingSize = IF (R % RingSize) + 1 < RingSize THEN (R % RingSize) + 1
              ELSE (R % RingSize) + 1 - RingSize
      BY Zenon, <1>2, <3>1, ModAdd
    <3> QED
      BY Zenon, <1>2, <3>1, <3>2
  <2>6. 1 + L \in Nat /\ 1 + L >= L
    OBVIOUS
  <2>7. Take(1 + L) /\ Deliver(o + 1, Cells(r + 1))
    BY Zenon, <1>2, <1>9, <1>10, <2>2
  <2>8. Read + (1 + L) = End[r + 1] /\ L = Length[r + 1]
    BY Zenon, <1>2, <1>6, <2>3
  <2>9. o + 1 # -1 => 1 + L >= L /\ (L > 0 => o + 1 = (End[r + 1] - L) % RingSize /\ o + 1 + L <= RingSize)
    BY Zenon, <1>2, <1>6, <2>5, <2>6
  <2>10. r = Len(received)
    BY Zenon, <1>2
  <2> QED
    BY Zenon, <1>1, <1>5, <2>4, <2>6, <2>7, <2>8, <2>9, <2>10, StreamDeliver
<1>11. CASE ~(v >= 1 + L)
  <2>1. 0 < L
    BY <1>2, <1>3, <1>11
  <2>2. /\ Take(1) /\ expected' = L /\ lengthDone' = [lengthDone EXCEPT !["R"] = TRUE]
        /\ Goto("R", "look") /\ UNCHANGED <<partial, buffer, got, received>>
    BY Zenon, <1>9, <1>11
  <2>3. lengthDone'["R"] = TRUE /\ lengthDone'["S"] = lengthDone["S"]
    BY Zenon, <2>2 DEF RingSteps, Numbers, Sides
  <2>4. R + 1 = E + (1 + 0)
    BY <1>4
  <2>5. buffer = [i \in 1 .. 0 |-> <<r + 1, i>>]
    BY Zenon, <1>2, <1>4 DEF Stream, ReceiverAt
  <2>6. r = Len(received) /\ Read + 1 = End[r] + (1 + 0) /\ expected' = Length[r + 1]
        /\ 0 < expected' /\ partial'["R"] = 0 /\ partial'["S"] = partial["S"]
        /\ buffer' = [i \in 1 .. 0 |-> <<r + 1, i>>]
    BY Zenon, <1>2, <1>4, <1>6, <2>1, <2>2, <2>4, <2>5
  <2>7. 0 \in Nat /\ 1 \in Nat
    BY Zenon
  <2> QED
    BY Zenon, <1>1, <1>5, <2>2, <2>3, <2>6, <2>7, StreamMore
<1> QED
  BY ZenonT(60), <1>10, <1>11

\* The rest of the message, or a part of it.
LEMMA StreamPart == ASSUME RingSteps, Stream, ReceivePart PROVE Stream'
<1>1. /\ At("R", "act") /\ lengthDone["R"]
      /\ UNCHANGED <<ring, bytesRead, bytesWritten, sent, expected>>
  BY Zenon DEF ReceivePart, shm
<1>2. PICK N \in Nat, o \in Nat, u \in Nat, v \in Nat, R \in Nat, W \in Nat, r \in Nat, E \in Nat :
           /\ N = RingSize /\ o = Offset /\ u = Used /\ v = Run /\ R = Read /\ W = Written
              /\ r = Len(received)
           /\ E = End[r] /\ o < N /\ v <= u /\ o + v <= N /\ R + u <= W /\ N > 0
           /\ o = R % N /\ (u > 0 => v > 0)
  BY Zenon, <1>1, ReceiveFacts
<1>3. r < Len(Length) /\ expected = Length[r + 1]
  BY Zenon, <1>1, <1>2 DEF Stream, ReceiverAt
<1>4. PICK m \in Messages, L \in Nat, F \in Nat :
        m = r + 1 /\ m - 1 = r /\ L = Length[m] /\ F = End[m] /\ F = E + 1 + L
  <2>1. r \in 0 .. Len(Length) /\ r + 1 \in Messages /\ (r + 1) - 1 = r
    <3>1. r \in 0 .. Len(Length)
      BY Zenon, <1>2, SentBefore
    <3>2. (r + 1) - 1 = r
      OBVIOUS
    <3> QED
      BY Zenon, <1>3, <3>1, <3>2, EndFacts
  <2>2. Length[r + 1] \in Nat /\ End[r + 1] = End[r] + 1 + Length[r + 1] /\ End[r + 1] \in Nat
    BY Zenon, <2>1, EndFacts
  <2> QED
    BY Zenon, <1>2, <2>1, <2>2
<1>5. PICK p \in Nat : p = partial["R"] /\ p < L /\ R = E + (1 + p) /\ buffer = [i \in 1 .. p |-> <<m, i>>]
  <2>1. partial["R"] \in Nat
    BY Zenon DEF RingSteps, Numbers, Sides
  <2>2. /\ partial["R"] < expected /\ Read = End[r] + (1 + partial["R"])
        /\ buffer = [i \in 1 .. partial["R"] |-> <<r + 1, i>>]
    BY Zenon, <1>1, <1>2 DEF Stream, ReceiverAt
  <2> QED
    BY Zenon, <1>2, <1>3, <1>4, <2>1, <2>2
<1>6. PICK k \in Nat : k = Min2(Run, Needed) /\ k <= v /\ k <= L - p
  <2>1. Needed = L - p
    BY Zenon, <1>1, <1>3, <1>4, <1>5 DEF Needed
  <2>2. L - p \in Nat
    BY <1>5
  <2>3. Min2(v, L - p) \in {v, L - p} /\ Min2(v, L - p) <= v /\ Min2(v, L - p) <= L - p
    BY Zenon, <2>2, MinFacts
  <2>4. Min2(v, L - p) \in Nat
    BY Zenon, <2>2, <2>3
  <2>5. Min2(v, L - p) = Min2(Run, Needed)
    BY Zenon, <1>2, <2>1
  <2> QED
    BY Zenon, <2>3, <2>4, <2>5
<1>7. Needed = L - p
  BY Zenon, <1>1, <1>3, <1>4, <1>5 DEF Needed
<1>8. /\ Take(k)
      /\ IF k = L - p THEN Deliver(IF p = 0 THEN Offset ELSE -1, buffer \o CellsAt(Offset, k))
         ELSE
             /\ buffer' = buffer \o CellsAt(Offset, k)
                /\ partial' = [partial EXCEPT !["R"] = partial["R"] + k]
              /\ Goto("R", "look") /\ UNCHANGED <<lengthDone, got, received>>
  BY Zenon, <1>5, <1>6, <1>7 DEF ReceivePart
<1>9. \A i \in 1 .. k : ring[o + i - 1] = <<m, p + i>>
  <2> SUFFICES ASSUME NEW i \in 1 .. k PROVE ring[o + i - 1] = <<m, p + i>>
    BY Zenon
  <2>1. PICK j \in Nat : j = i - 1
    OBVIOUS
  <2>2. p + i \in 0 .. L /\ j < v /\ E + (p + i) = R + j /\ o + i - 1 = o + j
    <3>1. R = E + (1 + p) /\ k <= v /\ k <= L - p
      BY Zenon, <1>5, <1>6
    <3> QED
      BY <2>1, <3>1
  <2>3. p + i \in 0 .. Length[m] /\ j < Run /\ End[m - 1] + (p + i) = Read + j
    BY Zenon, <1>2, <1>4, <2>2
  <2>4. ring[Offset + j] = <<m, p + i>>
    BY Zenon, <1>1, <2>3, RingCell
  <2> QED
    BY Zenon, <1>2, <2>2, <2>4
<1>10. buffer \o CellsAt(Offset, k) = [i \in 1 .. p + k |-> <<m, i>>]
  <2>1. CellsAt(Offset, k) = [i \in 1 .. k |-> <<m, p + i>>]
    BY Zenon, <1>2, <1>9 DEF CellsAt
  <2>2. [i \in 1 .. p |-> <<m, i>>] \o [i \in 1 .. k |-> <<m, p + i>>] = [i \in 1 .. p + k |-> <<m, i>>]
    BY PutTogether
  <2> QED
    BY Zenon, <1>5, <2>1, <2>2
<1>11. r = Len(received)
  BY Zenon, <1>2
<1>12. CASE k = L - p
  <2>1. p + k = L /\ R + k = F /\ F <= W
    <3>1. R + u <= W /\ v <= u
      BY Zenon, <1>2
    <3>2. F = E + 1 + L
      BY Zenon, <1>4
    <3>3. R = E + (1 + p) /\ p < L
      BY Zenon, <1>5
    <3> QED
      BY <1>6, <1>12, <3>1, <3>2, <3>3
  <2>2. buffer \o CellsAt(Offset, k) = Cells(r + 1)
    BY Zenon, <1>4, <1>10, <2>1 DEF Cells
  <2>3. Take(k) /\ Deliver(IF p = 0 THEN o ELSE -1, Cells(r + 1))
    BY Zenon, <1>2, <1>8, <1>12, <2>2
  <2>4. r + 1 <= sent
    BY Zenon, <1>2, <1>3, <1>4, <2>1, SentBefore
  <2>5. p = 0 => k >= L /\ F - L = R /\ o + L <= N
    <3>1. o + v <= N
      BY Zenon, <1>2
    <3> QED
      BY <1>6, <2>1, <3>1
  <2> DEFINE a == IF p = 0 THEN o ELSE -1
  <2>6. a # -1 => k >= L /\ (L > 0 => a = (End[r + 1] - L) % RingSize /\ a + L <= RingSize)
    <3>1. CASE p = 0
      <4>1. a = o
        BY Zenon, <3>1
      <4> QED
        BY Zenon, <1>2, <1>4, <2>5, <3>1, <4>1
    <3>2. CASE p # 0
      BY Zenon, <3>2
    <3> QED
      BY Zenon, <3>1, <3>2
  <2>7. Take(k) /\ Deliver(a, Cells(r + 1))
    BY Zenon, <2>3
  <2> HIDE DEF a
  <2>8. Read + k = End[r + 1] /\ L = Length[r + 1]
    BY Zenon, <1>2, <1>4, <2>1
  <2> QED
    BY Zenon, <1>1, <1>3, <1>11, <2>4, <2>6, <2>7, <2>8, StreamDeliver
<1>13. CASE k # L - p
  <2>1. /\ buffer' = [i \in 1 .. p + k |-> <<r + 1, i>>]
           /\ partial' = [partial EXCEPT !["R"] = partial["R"] + k]
        /\ Goto("R", "look") /\ UNCHANGED <<lengthDone, got, received>>
    BY Zenon, <1>4, <1>8, <1>10, <1>13
  <2>2. partial'["R"] = p + k /\ partial'["S"] = partial["S"]
    BY Zenon, <1>5, <2>1 DEF RingSteps, Numbers, Sides
  <2>3. p + k \in Nat /\ p + k < L /\ R + k = E + (1 + (p + k))
    <3>1. R = E + (1 + p) /\ k <= L - p
      BY Zenon, <1>5, <1>6
    <3> QED
      BY <1>13, <3>1
  <2>4. lengthDone'["R"] = TRUE /\ lengthDone'["S"] = lengthDone["S"]
    BY Zenon, <1>1, <2>1 DEF RingSteps, Numbers, Sides
  <2>5. /\ Read + k = End[r] + (1 + (p + k)) /\ expected' = Length[r + 1] /\ p + k < expected'
    BY Zenon, <1>1, <1>2, <1>3, <1>4, <2>3
  <2> QED
    BY Zenon, <1>1, <1>3, <1>8, <1>11, <2>1, <2>2, <2>3, <2>4, <2>5, StreamMore
<1> QED
  BY Zenon, <1>12, <1>13

\* At the beginning nothing is written and nothing is read ...
LEMMA StreamInit == Init => Stream
<1> SUFFICES ASSUME Init PROVE Stream
  BY Zenon
<1>1. /\ bytesRead = 0 /\ bytesWritten = 0 /\ pending["S"] = 0 /\ pending["R"] = 0 /\ sent = 0
         /\ received = <<>>
      /\ lengthDone["S"] = FALSE /\ lengthDone["R"] = FALSE /\ partial["R"] = 0 /\ buffer = <<>>
         /\ got = None
  BY Zenon DEF Init, Sides
<1>2. Written = 0 /\ Read = 0
  BY <1>1 DEF Written, Read
<1>3. /\ Len(Length) \in Nat /\ End[0] = 0 /\ 0 \in 0 .. Len(Length)
      /\ 0 < Len(Length) => End[0] < End[0 + 1]
  <2>1. Len(Length) \in Nat /\ End[0] = 0 /\ 0 \in 0 .. Len(Length)
    BY EndFacts
  <2>2. 0 < Len(Length) => 0 + 1 \in 0 .. Len(Length) /\ 0 < 0 + 1
    BY <2>1
  <2> QED
    BY Zenon, <2>1, <2>2, EndGrows
<1>4. SenderAt
  <2>1. 0 <= 0 /\ 0 = 0 + 0
    OBVIOUS
  <2> QED
    BY Zenon, <1>1, <1>2, <1>3, <2>1 DEF SenderAt
<1>5. ReceiverAt
  <2>1. /\ <<>> \in Seq({Cells(m) : m \in Messages}) /\ Len(<<>>) = 0 /\ 0 <= 0 /\ 0 = 0 + 0
        /\ \A j \in 1 .. 0 : FALSE
    OBVIOUS
  <2>2. <<>> = [i \in 1 .. 0 |-> <<0 + 1, i>>]
    OBVIOUS
  <2> QED
    BY Zenon, <1>1, <1>2, <1>3, <2>1, <2>2 DEF ReceiverAt
<1>6. Window
  <2> SUFFICES ASSUME NEW m \in Messages, NEW i \in 0 .. Length[m], End[m - 1] + i < Written PROVE FALSE
    BY Zenon DEF Window
  <2>1. End[m - 1] \in Nat /\ Length[m] \in Nat
    BY Zenon, EndFacts
  <2> QED
    BY <1>2, <2>1
<1>7. Lent
  BY Zenon, <1>1 DEF Lent, None
<1> QED
  BY Zenon, <1>4, <1>5, <1>6, <1>7 DEF Stream

\* ... and every step keeps both sides in the same stream.
LEMMA StreamNext == RingSteps /\ Stream /\ [Next]_vars => Stream'
<1> SUFFICES ASSUME RingSteps, Stream, [Next]_vars PROVE Stream'
  BY Zenon
<1>1. CASE UNCHANGED vars
  <2>1. /\ UNCHANGED <<ring, sent, received, expected, buffer, bytesRead, bytesWritten, pending,
           lengthDone, partial, got, pc>>
    BY Zenon, <1>1 DEF vars, shm, local, history
  <2>2. Written' = Written /\ Read' = Read
    BY Zenon, <2>1 DEF Written, Read
  <2>3. SenderAt' /\ ReceiverAt' /\ Window' /\ Lent'
    BY Zenon, <2>1, <2>2 DEF Stream, SenderAt, ReceiverAt, Window, Lent
  <2> QED
    BY Zenon, <2>3 DEF Stream
<1>2. CASE Sender \/ \E f \in Flushes : Send(f)
  BY Zenon, <1>2, StreamSender, StreamChunk DEF Sender
<1>3. CASE Receiver
  BY Zenon, <1>3, StreamReceiver, StreamWord, StreamPart DEF Receiver
<1>4. CASE \E x \in Sides : Detach(x)
  BY Zenon, <1>4, StreamSender, StreamReceiver DEF Sides
<1>5. CASE \E x \in Sides : Waiting(x) \/ Leaving(x) \/ Starting(x) \/ NotifyAttach(x) \/ Abort(x)
  BY Zenon, <1>5, StreamWaiting
<1> QED
  BY Zenon, <1>1, <1>2, <1>3, <1>4, <1>5 DEF Next

\* What the receiver was given and has not given back is as it was.
LEMMA LentIntact == RingSteps /\ Stream => InUseIntact
<1> SUFFICES ASSUME RingSteps, Stream, got.at # -1 PROVE CellsAt(got.at, Len(got.cells)) = got.cells
  BY Zenon DEF InUseIntact
<1>1. PICK N \in Nat, R \in Nat, W \in Nat, q \in Nat :
        N = RingSize /\ R = Read /\ W = Written /\ q = pending["R"] /\ R <= W /\ W <= (R - q) + N /\ N > 0
  <2>1. /\ bytesRead \in Nat /\ bytesWritten \in Nat /\ pending["R"] \in Nat
        /\ pending["S"] \in Nat /\ RingSize \in Nat \ {0}
    BY Zenon, ShmMqAssumption DEF RingSteps, Numbers, Sides
  <2>2. Read \in Nat /\ Read - pending["R"] = bytesRead /\ Written \in Nat /\ bytesWritten <= Written
    BY <2>1 DEF Read, Written
  <2>3. Read <= bytesWritten /\ Written - bytesRead <= RingSize
    BY Zenon DEF RingSteps, Counters
  <2>4. Read <= Written /\ Written <= (Read - pending["R"]) + RingSize /\ RingSize \in Nat /\ RingSize > 0
    BY <2>1, <2>2, <2>3
  <2> QED
    BY Zenon, <2>1, <2>2, <2>4
<1>2. PICK r \in Nat : r = Len(received)
  BY DEF Stream, ReceiverAt
<1>3. /\ r >= 1 /\ got.cells = Cells(r) /\ ~lengthDone["R"] /\ q >= Length[r]
      /\ Length[r] > 0 => got.at = (End[r] - Length[r]) % RingSize /\ got.at + Length[r] <= RingSize
  BY Zenon, <1>1, <1>2 DEF Stream, Lent
<1>4. PICK L \in Nat, E \in Nat, F \in Nat :
        r \in Messages /\ L = Length[r] /\ E = End[r - 1] /\ F = End[r] /\ F = E + 1 + L
  <2>1. r \in Messages
    <3>1. r \in 0 .. Len(Length)
      BY Zenon, <1>2, SentBefore
    <3>2. r \in 1 .. Len(Length)
      BY <1>3, <3>1, EndFacts
    <3> QED
      BY <3>2, ShmMqAssumption DEF Messages
  <2>2. Length[r] \in Nat /\ End[r] \in Nat /\ End[r - 1] \in Nat /\ End[r] = End[r - 1] + 1 + Length[r]
    BY Zenon, <2>1, EndFacts
  <2> QED
    BY Zenon, <2>1, <2>2
<1>5. R = F
  <2>1. Read = End[r] + 0
    BY Zenon, <1>2, <1>3 DEF Stream, ReceiverAt
  <2>2. R = F + 0
    BY Zenon, <1>1, <1>4, <2>1
  <2> QED
    BY <2>2
<1>6. got.cells = [i \in 1 .. L |-> <<r, i>>]
  BY Zenon, <1>3, <1>4 DEF Cells
<1>7. Len(got.cells) = L
  BY <1>6
<1>8. \A i \in 1 .. L : ring[got.at + i - 1] = <<r, i>>
  <2> SUFFICES ASSUME NEW i \in 1 .. L PROVE ring[got.at + i - 1] = <<r, i>>
    BY Zenon
  <2>1. PICK x \in Nat, j \in Nat : x = F - L /\ j = i - 1 /\ x + j = E + i /\ i \in 0 .. L /\ j < L
    BY <1>4
  <2>2. got.at = x % RingSize /\ got.at + L <= RingSize
    <3>1. L > 0
      OBVIOUS
    <3> QED
      BY Zenon, <1>3, <1>4, <2>1, <3>1
  <2>3. PICK a \in Nat : a = got.at /\ a + L <= N /\ a = x % N
    <3>1. x % RingSize \in 0 .. RingSize - 1
      BY Zenon, <2>1, ModFacts
    <3>2. x % RingSize \in Nat
      BY <1>1, <3>1
    <3> QED
      BY Zenon, <1>1, <2>2, <3>2
  <2>4. /\ x + j < W /\ W - N <= x + j /\ j \in 0 .. N /\ a + j < N /\ a + i - 1 = a + j
    <3>1. R <= W /\ W <= (R - q) + N /\ q >= L
      BY Zenon, <1>1, <1>3, <1>4
    <3>2. j < L /\ x = F - L /\ j = i - 1 /\ a + L <= N
      BY Zenon, <2>1, <2>3
    <3> QED
      BY <1>5, <3>1, <3>2
  <2>5. (x + j) % N = a + j
    <3>1. (x + j) % RingSize = IF (x % RingSize) + j < RingSize THEN (x % RingSize) + j
              ELSE (x % RingSize) + j - RingSize
      BY Zenon, <1>1, <2>4, ModAdd
    <3> QED
      BY Zenon, <1>1, <2>3, <2>4, <3>1
  <2>6. ring[(End[r - 1] + i) % RingSize] = <<r, i>>
    <3>1. i \in 0 .. Length[r] /\ End[r - 1] + i < Written /\ Written - RingSize <= End[r - 1] + i
      BY Zenon, <1>1, <1>4, <2>1, <2>4
    <3> QED
      BY Zenon, <1>4, <3>1 DEF Stream, Window
  <2> QED
    BY Zenon, <1>1, <1>4, <2>1, <2>3, <2>4, <2>5, <2>6
<1> QED
  BY Zenon, <1>6, <1>7, <1>8 DEF CellsAt

\* "the return value remains valid until the next receive operation": shm_mq_send_bytes writes over
\* no cell of a message that shm_mq_receive returned a pointer to, with rings of any size, messages
\* of any length and however late the sender sees what was consumed.
THEOREM InUseCorrect == Spec => []InUseIntact
<1>1. Init => RingSteps /\ Stream
  BY Zenon, RingInit, StreamInit
<1>2. RingSteps /\ Stream /\ [Next]_vars => (RingSteps /\ Stream)'
  BY Zenon, RingNext, StreamNext
<1> QED
  BY <1>1, <1>2, LentIntact, PTL DEF Spec

-----------------------------------------------------------------------------
(***************************************************************************)
(* The ring is a queue of messages.                                        *)
(***************************************************************************)

\* The messages sent and not received.
Between(s, r) == [i \in 1 .. s - r |-> Cells(r + i)]

\* One more is sent, or the first of them received.
LEMMA BetweenFacts ==
  ASSUME NEW s \in Nat, NEW r \in Nat, r <= s
  PROVE  /\ Between(s + 1, r) = Append(Between(s, r), Cells(s + 1))
         /\ r < s => /\ Between(s, r) # <<>> /\ Head(Between(s, r)) = Cells(r + 1)
                     /\ Tail(Between(s, r)) = Between(s, r + 1)
<1>1. PICK n \in Nat : n = s - r /\ s = r + n
  OBVIOUS
<1>2. Between(s, r) = [i \in 1 .. n |-> Cells(r + i)]
          /\ Between(s + 1, r) = [i \in 1 .. n + 1 |-> Cells(r + i)]
  <2>1. (s + 1) - r = n + 1
    BY <1>1
  <2> QED
    BY Zenon, <1>1, <2>1 DEF Between
<1>3. [i \in 1 .. n + 1 |-> Cells(r + i)] = Append([i \in 1 .. n |-> Cells(r + i)], Cells(r + (n + 1)))
  OBVIOUS
<1>4. Cells(s + 1) = Cells(r + (n + 1))
  <2>1. s + 1 = r + (n + 1)
    BY <1>1
  <2> QED
    BY Zenon, <2>1
<1>5. ASSUME r < s
      PROVE  /\ Between(s, r) # <<>> /\ Head(Between(s, r)) = Cells(r + 1)
             /\ Tail(Between(s, r)) = Between(s, r + 1)
  <2>1. PICK k \in Nat : n = k + 1 /\ s - (r + 1) = k
    BY <1>1, <1>5
  <2>2. Between(s, r + 1) = [i \in 1 .. k |-> Cells((r + 1) + i)]
    BY Zenon, <2>1 DEF Between
  <2> DEFINE q == [i \in 1 .. k + 1 |-> Cells(r + i)]
  <2>3. q # <<>> /\ Head(q) = Cells(r + 1)
    OBVIOUS
  <2>4. Tail(q) = [i \in 1 .. k |-> Cells(r + (i + 1))]
    OBVIOUS
  <2>5. \A i \in 1 .. k : r + (i + 1) = (r + 1) + i
    OBVIOUS
  <2>6. Tail(q) = [i \in 1 .. k |-> Cells((r + 1) + i)]
    BY Zenon, <2>4, <2>5
  <2> QED
    BY Zenon, <1>2, <2>1, <2>2, <2>3, <2>6
<1> QED
  BY Zenon, <1>2, <1>3, <1>4, <1>5

\* What a step may do to the two histories.
LEMMA HistorySteps ==
  ASSUME RingSteps, [Next]_vars
  PROVE  \/ received' = received /\ sent' \in {sent, sent + 1}
         \/ sent' = sent /\ \E c : received' = Append(received, c)
<1>1. CASE UNCHANGED vars
  BY Zenon, <1>1 DEF vars, history
<1>2. CASE Sender \/ \E f \in Flushes : Send(f)
  <2>1. CASE SendChunk
    BY Zenon, <2>1, ChunkFacts
  <2>2. CASE \/ LookRead \/ SendDetached \/ SendUnknown \/ SendFull \/ FullLatch \/ Sent
                \/ LookReceiver \/ Flush
             \/ FlushLatch \/ (\E f \in Flushes : Send(f))
    BY Zenon, <2>2 DEF LookRead, SendDetached, SendUnknown, SendFull, FullLatch, Sent, LookReceiver,
           Flush, FlushLatch,
                Send, history
  <2> QED
    BY Zenon, <1>2, <2>1, <2>2 DEF Sender
<1>3. CASE Receiver
  <2>1. CASE ReceiveWord \/ ReceivePart
    BY Zenon, <2>1 DEF ReceiveWord, ReceivePart, Deliver
  <2>2. CASE \/ Receive \/ Consume \/ ConsumeLatch("consume_latch", "look") \/ LookWritten
                \/ ReceiveShort \/ Again
             \/ Short \/ ConsumeLatch("short_latch", "wait")
    BY Zenon, <2>2 DEF Receive, Consume, ConsumeLatch, LookWritten, ReceiveShort, Again, Short, history
  <2> QED
    BY Zenon, <1>3, <2>1, <2>2 DEF Receiver
<1>4. CASE \E x \in Sides :
               \/ Waiting(x) \/ Leaving(x) \/ Starting(x) \/ NotifyAttach(x) \/ Abort(x) \/ Detach(x)
  BY ZenonT(60), <1>4 DEF Waiting, Leaving, Starting, Wait, CheckAttached, CheckDetached, FailedAttach, Know,
         CounterpartyGone, WorkerDied, AttachedNowait, DetachInternal, NotifyDetach, Attach, NeverStarts,
         NotifyAttach, Abort, Detach, history
<1> QED
  BY Zenon, <1>1, <1>2, <1>3, <1>4 DEF Next

\* A step of the ring is one of the queue, or none.
LEMMA QueueSteps ==
  ASSUME RingSteps, Stream, Stream', [Next]_vars
  PROVE  [Queue!Next]_<<[i \in 1 .. sent - Len(received) |-> Cells(Len(received) + i)], received>>
<1>1. PICK s \in Nat, r \in Nat : s = sent /\ r = Len(received) /\ r <= s
  <2>1. Len(received) \in Nat
    BY DEF Stream, ReceiverAt
  <2> QED
    BY Zenon, <2>1 DEF RingSteps, Numbers, Stream, ReceiverAt
<1> DEFINE q == Between(s, r)
<1>2. CASE received' = received /\ sent' = sent
  BY Zenon, <1>2
<1>3. CASE received' = received /\ sent' = sent + 1
  <2>1. Between(sent', Len(received')) = Append(q, Cells(s + 1))
    BY Zenon, <1>1, <1>3, BetweenFacts
  <2>2. s + 1 \in Messages
    <3>1. s \in 0 .. Len(Length) /\ s + 1 \in 0 .. Len(Length)
      BY Zenon, <1>1, <1>3 DEF Stream, SenderAt
    <3>2. s < Len(Length)
      BY <3>1, EndFacts
    <3> QED
      BY Zenon, <3>1, <3>2, EndFacts
  <2>3. Cells(s + 1) \in {Cells(m) : m \in Messages}
    BY Zenon, <2>2
  <2>4. Queue!Put(Cells(s + 1))
    BY Zenon, <1>1, <1>3, <2>1 DEF Queue!Put, Between
  <2> QED
    BY Zenon, <2>3, <2>4 DEF Queue!Next
<1>4. CASE sent' = sent /\ \E c : received' = Append(received, c)
  <2>1. PICK c : received' = Append(received, c)
    BY Zenon, <1>4
  <2>2. Len(received') = r + 1 /\ received'[r + 1] = c
    <3>1. received \in Seq({Cells(m) : m \in Messages})
      BY Zenon DEF Stream, ReceiverAt
    <3> QED
      BY <1>1, <2>1, <3>1
  <2>3. c = Cells(r + 1) /\ r + 1 <= s
    <3>1. r + 1 \in 1 .. Len(received')
      BY <2>2
    <3> QED
      BY Zenon, <1>1, <1>4, <2>2, <3>1 DEF Stream, ReceiverAt
  <2>4. r < s
    BY <2>3
  <2>5. q # <<>> /\ Head(q) = Cells(r + 1) /\ Tail(q) = Between(sent', Len(received'))
    <3>1. q # <<>> /\ Head(q) = Cells(r + 1) /\ Tail(q) = Between(s, r + 1)
      BY Zenon, <1>1, <2>4, BetweenFacts
    <3> QED
      BY Zenon, <1>1, <1>4, <2>2, <3>1
  <2>6. Queue!Get
    BY Zenon, <1>1, <2>1, <2>3, <2>5 DEF Queue!Get, Between
  <2> QED
    BY Zenon, <2>6 DEF Queue!Next
<1> QED
  BY Zenon, <1>2, <1>3, <1>4, HistorySteps

\* shm_mq_sendv and shm_mq_receive implement a queue of messages: what is returned is what was sent,
\* whole, once and in order, with rings of any size and messages of any length, also longer than
\* the ring or wrapped around its end, and whenever a side detaches or fails.
THEOREM ShmMqIsQueue == Spec => ImplementsQueue
<1>1. Init => RingSteps /\ Stream
  BY Zenon, RingInit, StreamInit
<1>2. RingSteps /\ Stream /\ [Next]_vars => (RingSteps /\ Stream)'
  BY Zenon, RingNext, StreamNext
<1>3. Init => Queue!Init
  <2> SUFFICES ASSUME Init PROVE Queue!Init
    BY Zenon
  <2>1. sent = 0 /\ received = <<>>
    BY Zenon DEF Init
  <2>2. Len(<<>>) = 0 /\ [i \in 1 .. 0 - 0 |-> Cells(0 + i)] = <<>>
    OBVIOUS
  <2> QED
    BY Zenon, <2>1, <2>2 DEF Queue!Init
<1>4. RingSteps /\ Stream /\ Stream' /\ [Next]_vars =>
        [Queue!Next]_<<[i \in 1 .. sent - Len(received) |-> Cells(Len(received) + i)], received>>
  BY Zenon, QueueSteps
<1> QED
  BY <1>1, <1>2, <1>3, <1>4, PTL DEF Spec, ImplementsQueue, Queue!Spec

-----------------------------------------------------------------------------
(***************************************************************************)
(* Leaving.                                                                *)
(***************************************************************************)

\* Where a side does nothing more with the queue.
Final == {"notify_detach", "end", "detached"}

\* A sender that has not attached has not written, and a worker that is known to be gone has left.
Workers ==
  /\ worker \in [side : Sides, status : {"not_yet_started", "started", "stopped"}, handle : BOOLEAN]
     /\ attached \in [Sides -> BOOLEAN]
  /\ \A x \in Sides : pc[x] = "none" => worker.side = x
  /\ worker.status = "stopped" => pc[worker.side] = "end"
  /\ ~attached["S"] => pc["S"] \in {"none", "end"} /\ bytesWritten = 0

\* A receiver that sees the queue detached, or its sender gone, sees all that is ever written; it ends with
\* SHM_MQ_DETACHED when the next message is not complete in that.
Late ==
  /\ \/ detached /\ pc["R"] \notin Final
     \/ gone
     \/ pc["R"] \in {"failed_attach", "again?", "detached"}
     => pc["S"] \in Final
  /\ At("R", "again?") => ~Enough
  /\ At("R", "detached") /\ Len(received) < Len(Length) => bytesWritten < End[Len(received) + 1]

\* Every step but those of starting and of the last notification.
Moves(x, l) ==
  /\ Goto(x, l) /\ l # "none" /\ pc[x] \notin Final \cup {"none"}
  /\ UNCHANGED <<worker, attached>> /\ (x = "R" => UNCHANGED bytesWritten)

\* The steps of waiting.
LEMMA MovesWaiting ==
  ASSUME NEW x \in Sides, Waiting(x) \/ DetachInternal(x) \/ NotifyAttach(x) \/ Abort(x)
  PROVE  \E l : Moves(x, l)
<1>1. UNCHANGED <<worker, attached, bytesWritten>>
  BY Zenon DEF Waiting, Wait, CheckAttached, CheckDetached, FailedAttach, Know,
         CounterpartyGone, WorkerDied, AttachedNowait, DetachInternal, NotifyAttach, Abort, shm
<1>2. PICK l : Goto(x, l) /\ l # "none"
  BY DEF Waiting, Wait, CheckAttached, CheckDetached, FailedAttach, Know, Known,
         CounterpartyGone, WorkerDied, AttachedNowait, DetachInternal, NotifyAttach, Abort, EndDetached
<1>3. pc[x] \notin Final \cup {"none"}
  BY Zenon DEF Waiting, Wait, CheckAttached, CheckDetached, FailedAttach, Know,
         CounterpartyGone, WorkerDied, AttachedNowait, DetachInternal, NotifyAttach, Abort, At, Final
<1> QED
  BY Zenon, <1>1, <1>2, <1>3 DEF Moves

\* The steps of the sender.
LEMMA MovesSender ==
  ASSUME Sender \/ (\E f \in Flushes : Send(f)) \/ Detach("S")
  PROVE  \E l : Moves("S", l)
<1>1. UNCHANGED <<worker, attached>>
  BY ZenonT(30) DEF Sender, Detach, LookRead, SendDetached, SendUnknown, SendFull, FullLatch, SendChunk, Sent,
         LookReceiver, Flush,
         FlushLatch, Send, shm
<1>2. PICK l : Goto("S", l) /\ l # "none"
  <2>1. CASE LookRead
    BY <2>1 DEF LookRead
  <2>2. CASE SendDetached
    BY <2>2 DEF SendDetached, EndDetached
  <2>3. CASE SendUnknown
    BY <2>3 DEF SendUnknown
  <2>4. CASE SendFull
    BY <2>4 DEF SendFull
  <2>5. CASE FullLatch
    BY <2>5 DEF FullLatch
  <2>6. CASE SendChunk
    <3>1. Goto("S", "sent") \/ Goto("S", "look")
      BY Zenon, <2>6 DEF SendChunk
    <3> QED
      BY <3>1
  <2>7. CASE Sent
    BY <2>7 DEF Sent, EndDetached
  <2>8. CASE LookReceiver
    BY <2>8 DEF LookReceiver
  <2>9. CASE Flush
    BY <2>9 DEF Flush
  <2>10. CASE FlushLatch
    BY <2>10 DEF FlushLatch
  <2>11. CASE \E f \in Flushes : Send(f)
    BY <2>11 DEF Send
  <2>12. CASE Detach("S")
    BY <2>12 DEF Detach
  <2> QED
    BY Zenon, <2>1, <2>2, <2>3, <2>4, <2>5, <2>6, <2>7, <2>8, <2>9, <2>10, <2>11, <2>12 DEF Sender
<1>3. pc["S"] \notin Final \cup {"none"}
  BY Zenon DEF Sender, Detach, LookRead, SendDetached, SendUnknown, SendFull, FullLatch, SendChunk, Sent,
         LookReceiver, Flush,
         FlushLatch, Send, At, Final
<1> QED
  BY Zenon, <1>1, <1>2, <1>3 DEF Moves

\* The steps of the receiver.
LEMMA MovesReceiver ==
  ASSUME RingSteps, Receiver \/ Detach("R")
  PROVE  \E l : Moves("R", l)
<1>1. UNCHANGED <<worker, attached, bytesWritten>>
  <2>1. CASE Detach("R")
    BY <2>1 DEF Detach, RingSteps, Numbers
  <2>2. CASE Receiver
    BY Zenon, <2>2 DEF Receiver, Receive, Consume, ConsumeLatch, LookWritten, ReceiveWord, ReceivePart,
           ReceiveShort, Again, Short, shm
  <2> QED
    BY Zenon, <2>1, <2>2
<1>2. PICK l : Goto("R", l) /\ l # "none"
  <2>1. CASE Detach("R")
    BY <2>1 DEF Detach
  <2>2. CASE Receive
    BY <2>2 DEF Receive
  <2>3. CASE Consume \/ LookWritten \/ Short
    BY <2>3 DEF Consume, LookWritten, Short
  <2>4. CASE ConsumeLatch("consume_latch", "look") \/ ConsumeLatch("short_latch", "wait")
    BY <2>4 DEF ConsumeLatch
  <2>5. CASE ReceiveWord
    BY <2>5 DEF ReceiveWord, Deliver
  <2>6. CASE ReceivePart
    BY <2>6 DEF ReceivePart, Deliver
  <2>7. CASE ReceiveShort \/ Again
    BY <2>7 DEF ReceiveShort, Again, EndDetached
  <2> QED
    BY Zenon, <2>1, <2>2, <2>3, <2>4, <2>5, <2>6, <2>7 DEF Receiver
<1>3. pc["R"] \notin Final \cup {"none"}
  BY Zenon DEF Receiver, Detach, Receive, Consume, ConsumeLatch, LookWritten, ReceiveWord, ReceivePart,
         ReceiveShort, Again, Short,
         At, Final
<1> QED
  BY Zenon, <1>1, <1>2, <1>3 DEF Moves

\* Who starts, attaches and leaves.
LEMMA WorkersMove ==
  ASSUME RingSteps, Workers, NEW x \in Sides, NEW l, Moves(x, l)
  PROVE  Workers'
<1>1. /\ pc' = [pc EXCEPT ![x] = l] /\ l # "none" /\ pc[x] \notin Final \cup {"none"}
         /\ pc = [y \in Sides |-> pc[y]]
      /\ worker' = worker /\ attached' = attached /\ (x = "R" => bytesWritten' = bytesWritten)
  BY Zenon DEF Moves, Goto, RingSteps, Numbers
<1>2. \A y \in Sides : pc'[y] = IF y = x THEN l ELSE pc[y]
  BY Zenon, <1>1
<1>3. worker.side \in Sides
  BY Zenon DEF Workers
<1>4. worker.status = "stopped" => pc'[worker.side] = "end"
  BY Zenon, <1>1, <1>2, <1>3 DEF Workers, Final
<1>5. ~attached["S"] => pc'["S"] \in {"none", "end"} /\ bytesWritten' = bytesWritten
  <2>1. ~attached["S"] => x # "S"
    BY Zenon, <1>1 DEF Workers, Final
  <2> QED
    BY Zenon, <1>1, <1>2, <2>1 DEF Workers, Sides
<1> QED
  BY Zenon, <1>1, <1>2, <1>4, <1>5 DEF Workers

\* The worker attaches, is found not to start, or has left.
LEMMA WorkersStart ==
  ASSUME RingSteps, Workers, NEW x \in Sides, Attach(x) \/ NeverStarts(x) \/ NotifyDetach(x)
  PROVE  Workers' /\ pc' = [pc EXCEPT ![x] = pc'[x]] /\ bytesWritten' = bytesWritten
<1>0. pc = [y \in Sides |-> pc[y]]
          /\ worker \in [side : Sides, status : {"not_yet_started", "started", "stopped"}, handle : BOOLEAN]
      /\ attached \in [Sides -> BOOLEAN]
  BY Zenon DEF RingSteps, Numbers, Workers
<1>1. CASE Attach(x)
  <2>1. /\ pc[x] = "none" /\ pc' = [pc EXCEPT ![x] = "notify_attach"] /\ bytesWritten' = bytesWritten
        /\ attached' = [attached EXCEPT ![x] = TRUE]
        /\ worker' = [worker EXCEPT !.status = "started"]
    BY Zenon, <1>1 DEF Attach, At, Goto
  <2>2. worker' \in [side : Sides, status : {"not_yet_started", "started", "stopped"}, handle : BOOLEAN]
            /\ worker'.side = worker.side
        /\ worker'.status = "started"
    BY Zenon, <1>0, <2>1
  <2>3. \A y \in Sides : pc'[y] = IF y = x THEN "notify_attach" ELSE pc[y]
    BY Zenon, <1>0, <2>1
  <2>4. attached' \in [Sides -> BOOLEAN] /\ \A y \in Sides : attached'[y] = IF y = x THEN TRUE
            ELSE attached[y]
    BY Zenon, <1>0, <2>1
  <2>5. ~attached'["S"] => x # "S" /\ ~attached["S"]
    BY Zenon, <2>4 DEF Sides
  <2>6. ~attached'["S"] => pc'["S"] \in {"none", "end"} /\ bytesWritten' = 0
    BY Zenon, <2>1, <2>3, <2>5 DEF Workers, Sides
  <2>7. \A y \in Sides : pc'[y] = "none" => worker'.side = y
    BY Zenon, <2>2, <2>3 DEF Workers
  <2>8. Workers'
    BY Zenon, <2>2, <2>4, <2>6, <2>7 DEF Workers
  <2> QED
    BY Zenon, <2>1, <2>3, <2>8
<1>2. CASE NeverStarts(x)
  <2>1. /\ pc[x] = "none" /\ pc' = [pc EXCEPT ![x] = "end"] /\ bytesWritten' = bytesWritten
           /\ attached' = attached
        /\ worker' = [worker EXCEPT !.status = "stopped"]
    BY Zenon, <1>2 DEF NeverStarts, At, Goto, shm
  <2>2. worker' \in [side : Sides, status : {"not_yet_started", "started", "stopped"}, handle : BOOLEAN]
            /\ worker'.side = worker.side
    BY Zenon, <1>0, <2>1
  <2>3. \A y \in Sides : pc'[y] = IF y = x THEN "end" ELSE pc[y]
    BY Zenon, <1>0, <2>1
  <2>4. worker'.side = x
    BY Zenon, <2>1, <2>2 DEF Workers
  <2>5. pc'[worker'.side] = "end"
    BY Zenon, <2>3, <2>4
  <2>6. ~attached'["S"] => pc'["S"] \in {"none", "end"} /\ bytesWritten' = 0
    BY Zenon, <2>1, <2>3 DEF Workers, Sides
  <2>7. \A y \in Sides : pc'[y] = "none" => worker'.side = y
    BY Zenon, <2>2, <2>3 DEF Workers
  <2>8. Workers'
    BY Zenon, <1>0, <2>1, <2>2, <2>5, <2>6, <2>7 DEF Workers
  <2> QED
    BY Zenon, <2>1, <2>3, <2>8
<1>3. CASE NotifyDetach(x)
  <2>1. /\ pc[x] = "notify_detach" /\ pc' = [pc EXCEPT ![x] = "end"] /\ bytesWritten' = bytesWritten
           /\ attached' = attached
        /\ worker' = IF x = Leader THEN worker ELSE [worker EXCEPT !.status = "stopped"]
    BY Zenon, <1>3 DEF NotifyDetach, At, Goto, shm
  <2>2. worker' \in [side : Sides, status : {"not_yet_started", "started", "stopped"}, handle : BOOLEAN]
            /\ worker'.side = worker.side
        /\ (x = Leader => worker'.status = worker.status)
    BY Zenon, <1>0, <2>1
  <2>3. \A y \in Sides : pc'[y] = IF y = x THEN "end" ELSE pc[y]
    BY Zenon, <1>0, <2>1
  <2>4. x # Leader => worker.side = x
    BY Zenon, <1>0 DEF Leader, Other, Sides
  <2>5. worker'.status = "stopped" => pc'[worker'.side] = "end"
    BY Zenon, <2>2, <2>3, <2>4 DEF Workers
  <2>6. ~attached'["S"] => pc'["S"] \in {"none", "end"} /\ bytesWritten' = 0
    BY Zenon, <2>1, <2>3 DEF Workers, Sides
  <2>7. \A y \in Sides : pc'[y] = "none" => worker'.side = y
    BY Zenon, <2>2, <2>3 DEF Workers
  <2>8. Workers'
    BY Zenon, <1>0, <2>1, <2>2, <2>5, <2>6, <2>7 DEF Workers
  <2> QED
    BY Zenon, <2>1, <2>3, <2>8
<1> QED
  BY Zenon, <1>1, <1>2, <1>3

\* The sender's steps leave the receiver where it is.
LEMMA LateSender ==
  ASSUME RingSteps, Stream, Late, pc'["R"] = pc["R"], gone' = gone, received' = received,
         Enough' <=> Enough,
         \/ pc["S"] \notin Final /\ (detached' => detached \/ pc'["S"] \in Final)
         \/ pc["S"] \in Final /\ pc'["S"] \in Final /\ bytesWritten' = bytesWritten
  PROVE  Late'
<1>1. \/ (detached /\ pc["R"] \notin Final)'
      \/ gone'
      \/ pc'["R"] \in {"failed_attach", "again?", "detached"}
      => pc'["S"] \in Final
  BY Zenon DEF Late
<1>2. At("R", "again?")' => ~Enough'
  BY Zenon DEF Late, At
<1>3. (At("R", "detached") /\ Len(received) < Len(Length) => bytesWritten < End[Len(received) + 1])'
  <2>1. At("R", "detached") => pc["S"] \in Final
    BY Zenon DEF Late, At
  <2> QED
    BY Zenon, <2>1 DEF Late, At
<1> QED
  BY Zenon, <1>1, <1>2, <1>3 DEF Late

\* Whether the receiver has enough depends on what only it changes.
LEMMA EnoughKept ==
  ASSUME bytesRead' = bytesRead, expected' = expected, seen'["R"] = seen["R"], pending'["R"] = pending["R"],
         lengthDone'["R"] = lengthDone["R"], partial'["R"] = partial["R"]
  PROVE  Enough' <=> Enough
<1>1. Read' = Read /\ Needed' = Needed
  BY Zenon DEF Read, Needed
<1>2. Used' = Used /\ Offset' = Offset
  BY Zenon, <1>1 DEF Used, Offset
<1> QED
  BY Zenon, <1>1, <1>2 DEF Enough

\* The sender waits, starts or leaves.
LEMMA LateSenderWaits ==
  ASSUME RingSteps, Stream, Late, Waiting("S") \/ Leaving("S") \/ Starting("S") \/ NotifyAttach("S")
         \/ Abort("S")
  PROVE  Late'
<1>1. UNCHANGED <<gone, received, bytesRead, bytesWritten, expected, seen, pending, lengthDone, partial>>
  BY Zenon DEF Waiting, Leaving, Starting, Wait, CheckAttached, CheckDetached, FailedAttach, Know,
         CounterpartyGone, WorkerDied, AttachedNowait, DetachInternal, NotifyDetach, Attach, NeverStarts,
         NotifyAttach, Abort, shm, local, history
<1>2. Enough' <=> Enough
  BY Zenon, <1>1, EnoughKept
<1>3. PICK l : Goto("S", l)
  BY Zenon DEF Waiting, Leaving, Starting, Wait, CheckAttached, CheckDetached, FailedAttach, Know, Known,
         CounterpartyGone, WorkerDied, AttachedNowait, DetachInternal, NotifyDetach, Attach, NeverStarts,
             NotifyAttach, Abort, EndDetached
<1>4. pc'["R"] = pc["R"] /\ pc'["S"] = l
  BY Zenon, <1>3 DEF Goto, RingSteps, Numbers, Sides
<1>5. pc = [y \in Sides |-> pc[y]] /\ "S" \in Sides
  BY Zenon DEF RingSteps, Numbers, Sides
<1>6. CASE NotifyDetach("S")
  <2>1. pc["S"] \in Final /\ pc'["S"] \in Final
    BY Zenon, <1>5, <1>6 DEF NotifyDetach, At, Goto, Final
  <2> QED
    BY Zenon, <1>1, <1>2, <1>4, <2>1, LateSender
<1>7. CASE FailedAttach("S") \/ DetachInternal("S") \/ CounterpartyGone("S")
  <2>1. pc["S"] \notin Final
    BY Zenon, <1>7 DEF FailedAttach, DetachInternal, CounterpartyGone, WorkerDied, At, Final
  <2>2. CASE FailedAttach("S") \/ DetachInternal("S")
    <3>1. pc'["S"] \in Final
      BY Zenon, <1>5, <2>2 DEF FailedAttach, DetachInternal, EndDetached, Goto, Final
    <3> QED
      BY Zenon, <1>1, <1>2, <1>4, <2>1, <3>1, LateSender
  <2>3. CASE CounterpartyGone("S")
    <3>1. detached' => pc'["S"] = "detached"
      BY Zenon, <1>5, <2>3 DEF CounterpartyGone, WorkerDied, EndDetached, Goto
    <3>2. detached' => pc'["S"] \in Final
      BY Zenon, <3>1 DEF Final
    <3> QED
      BY Zenon, <1>1, <1>2, <1>4, <2>1, <3>2, LateSender
  <2> QED
    BY Zenon, <1>7, <2>2, <2>3
<1>8. CASE \/ Wait("S") \/ CheckAttached("S") \/ CheckDetached("S") \/ Know("S")
              \/ AttachedNowait("S") \/ Starting("S")
           \/ NotifyAttach("S") \/ Abort("S")
  <2>1. pc["S"] \notin Final
    BY Zenon, <1>8 DEF Starting, Wait, CheckAttached, CheckDetached, WorkerDied, Know, AttachedNowait,
                Attach, NeverStarts, NotifyAttach, Abort, At, Final
  <2>2. detached' = detached
    BY Zenon, <1>8 DEF Starting, Wait, CheckAttached, CheckDetached, WorkerDied, Know, AttachedNowait,
                Attach, NeverStarts, NotifyAttach, Abort, shm
  <2> QED
    BY Zenon, <1>1, <1>2, <1>4, <2>1, <2>2, LateSender
<1> QED
  BY Zenon, <1>6, <1>7, <1>8 DEF Waiting, Leaving

\* The sender sends or detaches.
LEMMA LateSenderSends ==
  ASSUME RingSteps, Stream, Late, Sender \/ (\E f \in Flushes : Send(f)) \/ Detach("S")
  PROVE  Late'
<1>1. PICK l : Goto("S", l) /\ pc["S"] \notin Final
  BY Zenon, MovesSender DEF Moves
<1>2. pc'["R"] = pc["R"]
  BY ZenonT(60), <1>1 DEF Goto, RingSteps, Numbers, Sides
<1>3. UNCHANGED <<gone, received, bytesRead, expected, detached>>
  BY Zenon DEF Sender, Detach, LookRead, SendDetached, SendUnknown, SendFull, FullLatch, SendChunk, Sent,
         LookReceiver, Flush,
         FlushLatch, Send, shm, local, history
<1>4. /\ \E v : seen' = [seen EXCEPT !["S"] = v] \/ seen' = seen
      /\ \E v : pending' = [pending EXCEPT !["S"] = v] \/ pending' = pending
      /\ \E v : lengthDone' = [lengthDone EXCEPT !["S"] = v] \/ lengthDone' = lengthDone
      /\ \E v : partial' = [partial EXCEPT !["S"] = v] \/ partial' = partial
  <2>1. CASE SendChunk
    BY Zenon, <2>1 DEF SendChunk
  <2>2. CASE Detach("S")
    BY Zenon, <2>2 DEF Detach
  <2>3. CASE \/ LookRead \/ SendDetached \/ SendUnknown \/ SendFull \/ FullLatch \/ Sent
                \/ LookReceiver \/ Flush
             \/ FlushLatch \/ \E f \in Flushes : Send(f)
    BY Zenon, <2>3 DEF LookRead, SendDetached, SendUnknown, SendFull, FullLatch, Sent, LookReceiver, Flush,
                FlushLatch, Send, local
  <2> QED
    BY Zenon, <2>1, <2>2, <2>3 DEF Sender
<1>5. seen'["R"] = seen["R"] /\ pending'["R"] = pending["R"] /\ lengthDone'["R"] = lengthDone["R"]
          /\ partial'["R"] = partial["R"]
  <2>1. /\ seen = [x \in Sides |-> seen[x]] /\ pending = [x \in Sides |-> pending[x]]
        /\ lengthDone = [x \in Sides |-> lengthDone[x]] /\ partial = [x \in Sides |-> partial[x]]
           /\ "R" \in Sides
    BY Zenon DEF RingSteps, Numbers, Sides
  <2> QED
    BY Zenon, <1>4, <2>1
<1>6. Enough' <=> Enough
  BY Zenon, <1>3, <1>5, EnoughKept
<1> QED
  BY Zenon, <1>1, <1>2, <1>3, <1>6, LateSender

\* A receiver that is told of no end.
LEMMA LateReceiver ==
  ASSUME RingSteps, Late, NEW l, Goto("R", l), l \notin {"failed_attach", "again?", "detached"},
         pc["R"] \notin Final \/ l \in Final, gone' = gone, bytesWritten' = bytesWritten,
             detached' = detached \/ l \in Final
  PROVE  Late'
<1>1. pc'["S"] = pc["S"] /\ pc'["R"] = l
  BY Zenon DEF Goto, RingSteps, Numbers, Sides
<1>2. l # "again?" /\ l # "detached"
  BY Zenon
<1>3. detached' /\ l \notin Final => detached /\ pc["R"] \notin Final
  BY Zenon
<1>4. (detached' /\ l \notin Final) \/ gone' \/ l \in {"failed_attach", "again?", "detached"}
          => pc["S"] \in Final
  BY Zenon, <1>3 DEF Late
<1> QED
  BY Zenon, <1>1, <1>2, <1>4 DEF Late, At

\* The next message is not complete in what a receiver has seen that has not enough.
LEMMA NotEnough ==
  ASSUME RingSteps, Stream, ~Enough, seen["R"] = bytesWritten, Len(received) < Len(Length)
  PROVE  bytesWritten < End[Len(received) + 1]
<1>1. PICK r \in Nat : r = Len(received)
  BY DEF Stream, ReceiverAt
<1>2. PICK E \in Nat, L \in Nat : E = End[r] /\ L = Length[r + 1] /\ End[r + 1] = E + 1 + L
  <2>1. r \in 0 .. Len(Length)
    BY Zenon, <1>1, SentBefore
  <2>2. r + 1 \in Messages /\ (r + 1) - 1 = r
    <3>1. (r + 1) - 1 = r
      OBVIOUS
    <3> QED
      BY Zenon, <1>1, <2>1, <3>1, EndFacts
  <2>3. End[r] \in Nat /\ Length[r + 1] \in Nat /\ End[r + 1] = End[r] + 1 + Length[r + 1]
    BY Zenon, <2>1, <2>2, EndFacts
  <2> QED
    BY Zenon, <2>3
<1>3. PICK R \in Nat, w \in Nat : R = Read /\ w = bytesWritten
  BY DEF RingSteps, Numbers, Sides, Read
<1>4. w - R < Needed
  <2>1. ~(Used >= Needed) /\ Used = w - R
    BY Zenon, <1>3 DEF Enough, Used
  <2>2. Needed \in Int
    BY SMTT(30) DEF RingSteps, Numbers, Sides, Needed
  <2> QED
    BY <2>1, <2>2
<1>5. CASE lengthDone["R"]
  <2>1. PICK p \in Nat : p = partial["R"]
    BY Zenon DEF RingSteps, Numbers, Sides
  <2>2. R = E + (1 + p) /\ Needed = L - p
    BY Zenon, <1>1, <1>2, <1>3, <1>5, <2>1 DEF Stream, ReceiverAt, Needed
  <2>3. w < E + 1 + L
    BY <1>4, <2>2
  <2> QED
    BY Zenon, <1>1, <1>2, <1>3, <2>3
<1>6. CASE ~lengthDone["R"]
  <2>1. R = E + 0 /\ Needed = 1
    BY Zenon, <1>1, <1>2, <1>3, <1>6 DEF Stream, ReceiverAt, Needed
  <2>2. w < E + 1 + L
    BY <1>4, <2>1
  <2> QED
    BY Zenon, <1>1, <1>2, <1>3, <2>2
<1> QED
  BY Zenon, <1>5, <1>6

\* The receiver waits, starts or leaves.
LEMMA LateReceiverWaits ==
  ASSUME RingSteps, Stream, Workers, Late, Waiting("R") \/ Leaving("R") \/ Starting("R")
         \/ NotifyAttach("R") \/ Abort("R")
  PROVE  Late'
<1>0. pc = [y \in Sides |-> pc[y]] /\ "S" \in Sides /\ "R" \in Sides /\ worker.side \in Sides
  BY Zenon DEF RingSteps, Numbers, Sides, Workers
<1>1. UNCHANGED <<received, bytesRead, bytesWritten, expected, seen, pending, lengthDone, partial>>
  BY Zenon DEF Waiting, Leaving, Starting, Wait, CheckAttached, CheckDetached, FailedAttach, Know,
         CounterpartyGone, WorkerDied, AttachedNowait, DetachInternal, NotifyDetach, Attach, NeverStarts,
         NotifyAttach, Abort, shm, local, history
<1>2. "R" = Leader /\ worker.status = "stopped" => pc["S"] \in Final
  <2>1. "R" = Leader => worker.side = "S"
    BY Zenon, <1>0 DEF Leader, Other, Sides
  <2> QED
    BY Zenon, <2>1 DEF Workers, Final
<1>3. ~attached["S"] /\ Len(received) < Len(Length) => bytesWritten < End[Len(received) + 1]
  <2> SUFFICES ASSUME ~attached["S"], Len(received) < Len(Length)
                          PROVE bytesWritten < End[Len(received) + 1]
    BY Zenon
  <2>1. bytesWritten = 0
    BY Zenon DEF Workers
  <2>2. PICK r \in Nat : r = Len(received)
    BY DEF Stream, ReceiverAt
  <2>3. r \in 0 .. Len(Length)
    BY Zenon, <2>2, SentBefore
  <2>4. r + 1 \in Messages
    BY Zenon, <2>2, <2>3, EndFacts
  <2>5. /\ End[r + 1] = End[(r + 1) - 1] + 1 + Length[r + 1] /\ End[(r + 1) - 1] \in Nat
           /\ Length[r + 1] \in Nat
    BY Zenon, <2>4, EndFacts
  <2>6. 0 < End[r + 1]
    BY <2>5
  <2> QED
    BY Zenon, <2>1, <2>2, <2>6
<1>4. CASE \/ Wait("R") \/ CheckAttached("R") \/ Know("R") \/ DetachInternal("R") \/ NotifyDetach("R")
              \/ Starting("R")
           \/ NotifyAttach("R") \/ Abort("R")
  <2>1. PICK l : Goto("R", l) /\ l \notin {"failed_attach", "again?", "detached"}
                 /\ (pc["R"] \notin Final \/ l \in Final)
                 /\ (detached' = detached \/ l \in Final)
    <3>1. CASE DetachInternal("R") \/ NotifyDetach("R")
      BY Zenon, <3>1 DEF DetachInternal, NotifyDetach, Final
    <3>2. CASE Wait("R") \/ CheckAttached("R") \/ Know("R") \/ Starting("R") \/ NotifyAttach("R")
                   \/ Abort("R")
      <4>1. PICK l : Goto("R", l) /\ l \notin {"failed_attach", "again?", "detached"}
        BY <3>2 DEF Wait, CheckAttached, Know, Known, Starting, Attach, NeverStarts, NotifyAttach, Abort
      <4>2. pc["R"] \notin Final
        BY Zenon, <3>2 DEF Wait, CheckAttached, Know, Starting, Attach, NeverStarts, NotifyAttach, Abort, At, Final
      <4>3. detached' = detached
        BY Zenon, <3>2 DEF Wait, CheckAttached, Know, Starting, Attach, NeverStarts, NotifyAttach, Abort, shm
      <4> QED
        BY Zenon, <4>1, <4>2, <4>3
    <3> QED
      BY Zenon, <1>4, <3>1, <3>2
  <2>2. gone' = gone
    BY Zenon, <1>4 DEF Wait, CheckAttached, Know, DetachInternal, NotifyDetach, Starting, Attach, NeverStarts,
           NotifyAttach, Abort, local
  <2> QED
    BY Zenon, <1>1, <2>1, <2>2, LateReceiver
<1>5. CASE CheckDetached("R")
  <2>1. /\ pc["R"] \in {"attached", "unattached"} /\ detached' = detached /\ gone' = gone
    BY Zenon, <1>5 DEF CheckDetached, WorkerDied, shm, local
  <2>2. pc["R"] \notin Final
    BY Zenon, <2>1 DEF Final
  <2>3. PICK l \in {"failed_attach", "know", "wait_attach"} :
          Goto("R", l) /\ (l = "failed_attach" => detached \/ ("R" = Leader /\ worker.status = "stopped"))
    BY Zenon, <1>5 DEF CheckDetached, WorkerDied
  <2>4. pc'["S"] = pc["S"] /\ pc'["R"] = l
    BY Zenon, <1>0, <2>3 DEF Goto
  <2>5. l = "failed_attach" => pc["S"] \in Final
    BY Zenon, <1>2, <2>2, <2>3 DEF Late
  <2>6. pc'["R"] \notin {"again?", "detached"} /\ pc'["R"] \notin Final
    BY Zenon, <2>3, <2>4 DEF Final
  <2> QED
    BY Zenon, <2>1, <2>2, <2>4, <2>5, <2>6 DEF Late, At
<1>6. CASE FailedAttach("R")
  <2>1. pc["R"] = "failed_attach" /\ gone' = gone
    BY Zenon, <1>6 DEF FailedAttach, At, local
  <2>2. pc["S"] \in Final
    BY Zenon, <2>1 DEF Late
  <2>3. \/ attached["S"] /\ Goto("R", "know")
        \/ ~attached["S"] /\ Goto("R", "detached")
    BY Zenon, <1>6 DEF FailedAttach, EndDetached
  <2>4. pc'["S"] = pc["S"] /\ (pc'["R"] = "know" \/ (~attached["S"] /\ pc'["R"] = "detached"))
    BY Zenon, <1>0, <2>3 DEF Goto
  <2>5. pc'["R"] # "again?" /\ (pc'["R"] = "detached" => ~attached["S"])
    BY Zenon, <2>4
  <2> QED
    BY Zenon, <1>1, <1>3, <2>2, <2>4, <2>5 DEF Late, At
<1>7. CASE CounterpartyGone("R")
  <2>1. pc["R"] = "gone?" /\ Goto("R", "attached_nowait?")
        /\ (gone' => detached \/ ("R" = Leader /\ worker.status = "stopped"))
        /\ (detached' => detached \/ ("R" = Leader /\ worker.status = "stopped"))
    BY Zenon, <1>7 DEF CounterpartyGone, WorkerDied, At
  <2>2. pc["R"] \notin Final
    BY Zenon, <2>1 DEF Final
  <2>3. (gone' => pc["S"] \in Final) /\ (detached' => pc["S"] \in Final)
    BY Zenon, <1>2, <2>1, <2>2 DEF Late
  <2>4. pc'["S"] = pc["S"] /\ pc'["R"] = "attached_nowait?"
    BY Zenon, <1>0, <2>1 DEF Goto
  <2>5. pc'["R"] \notin {"failed_attach", "again?", "detached"}
    BY Zenon, <2>4
  <2> QED
    BY Zenon, <2>3, <2>4, <2>5 DEF Late, At
<1>8. CASE AttachedNowait("R")
  <2>1. pc["R"] = "attached_nowait?" /\ gone' = gone /\ detached' = detached
    BY Zenon, <1>8 DEF AttachedNowait, At, local, shm
  <2>2. PICK l \in {"know", "detached", "wait"} : Goto("R", l) /\ (l = "detached" => gone /\ ~attached["S"])
    <3>1. attached[Other("R")] = attached["S"]
      BY Zenon DEF Other
    <3> QED
      BY Zenon, <1>8, <3>1 DEF AttachedNowait, EndDetached
  <2>3. pc["R"] \notin Final
    BY Zenon, <2>1 DEF Final
  <2>4. pc'["S"] = pc["S"] /\ pc'["R"] = l
    BY Zenon, <1>0, <2>2 DEF Goto
  <2>5. pc'["R"] \notin {"failed_attach", "again?"} /\ (pc'["R"] = "detached" => gone /\ ~attached["S"])
    BY Zenon, <2>2, <2>4
  <2> QED
    BY Zenon, <1>1, <1>3, <2>1, <2>3, <2>4, <2>5 DEF Late, At
<1> QED
  BY Zenon, <1>4, <1>5, <1>6, <1>7, <1>8 DEF Waiting, Leaving

\* The receiver receives or detaches.
LEMMA LateReceiverReceives ==
  ASSUME RingSteps, Stream, Late, Receiver \/ Detach("R")
  PROVE  Late'
<1>0. pc = [y \in Sides |-> pc[y]] /\ "S" \in Sides /\ "R" \in Sides
  BY Zenon DEF RingSteps, Numbers, Sides
<1>1. pc["R"] \notin Final /\ bytesWritten' = bytesWritten
  BY Zenon, MovesReceiver DEF Moves
<1>2. detached' = detached /\ gone' = gone
  BY Zenon DEF Receiver, Detach, Receive, Consume, ConsumeLatch, LookWritten, ReceiveWord, ReceivePart,
         ReceiveShort, Again, Short,
         shm, local
<1>3. CASE \/ Receive \/ Consume \/ ConsumeLatch("consume_latch", "look") \/ LookWritten
              \/ ReceiveWord \/ ReceivePart
           \/ Short \/ ConsumeLatch("short_latch", "wait") \/ Detach("R")
  <2>1. PICK l : Goto("R", l) /\ l \notin {"failed_attach", "again?", "detached"}
    <3>1. CASE Receive
      BY <3>1 DEF Receive
    <3>2. CASE Consume
      BY <3>2 DEF Consume
    <3>3. CASE ConsumeLatch("consume_latch", "look")
      BY <3>3 DEF ConsumeLatch
    <3>4. CASE LookWritten
      BY <3>4 DEF LookWritten
    <3>5. CASE ReceiveWord
      <4>1. Goto("R", "idle") \/ Goto("R", "look")
        BY Zenon, <3>5 DEF ReceiveWord, Deliver
      <4> QED
        BY <4>1
    <3>6. CASE ReceivePart
      <4>1. Goto("R", "idle") \/ Goto("R", "look")
        BY Zenon, <3>6 DEF ReceivePart, Deliver
      <4> QED
        BY <4>1
    <3>7. CASE Short
      BY <3>7 DEF Short
    <3>8. CASE ConsumeLatch("short_latch", "wait")
      BY <3>8 DEF ConsumeLatch
    <3>9. CASE Detach("R")
      <4>1. Goto("R", "detach")
        BY Zenon, <3>9 DEF Detach
      <4> QED
        BY <4>1
    <3> QED
      BY Zenon, <1>3, <3>1, <3>2, <3>3, <3>4, <3>5, <3>6, <3>7, <3>8, <3>9
  <2> QED
    BY Zenon, <1>1, <1>2, <2>1, LateReceiver
<1>4. CASE ReceiveShort
  <2>1. /\ ~Enough /\ Goto("R", IF detached THEN "again?" ELSE "short")
        /\ UNCHANGED <<bytesRead, expected, seen, pending, lengthDone, partial>>
    BY Zenon, <1>4 DEF ReceiveShort, shm, local
  <2>2. ~Enough'
    BY Zenon, <2>1, EnoughKept
  <2>3. CASE detached
    <3>1. pc["S"] \in Final
      BY Zenon, <1>1, <2>3 DEF Late
    <3>2. pc'["S"] = pc["S"] /\ pc'["R"] = "again?"
      BY Zenon, <1>0, <2>1, <2>3 DEF Goto
    <3>3. pc'["R"] # "detached"
      BY Zenon, <3>2
    <3> QED
      BY Zenon, <2>2, <3>1, <3>2, <3>3 DEF Late, At
  <2>4. CASE ~detached
    <3>1. Goto("R", "short")
      BY Zenon, <2>1, <2>4
    <3>2. "short" \notin {"failed_attach", "again?", "detached"}
      BY Zenon
    <3> QED
      BY Zenon, <1>1, <1>2, <3>1, <3>2, LateReceiver
  <2> QED
    BY Zenon, <2>3, <2>4
<1>5. CASE Again
  <2>1. /\ pc["R"] = "again?" /\ received' = received
        /\ IF seen["R"] # bytesWritten THEN Goto("R", "look") ELSE Goto("R", "detached")
    BY Zenon, <1>5 DEF Again, At, EndDetached, history
  <2>2. pc["S"] \in Final /\ ~Enough
    BY Zenon, <2>1 DEF Late, At
  <2>3. CASE seen["R"] # bytesWritten
    <3>1. Goto("R", "look")
      BY Zenon, <2>1, <2>3
    <3>2. "look" \notin {"failed_attach", "again?", "detached"}
      BY Zenon
    <3> QED
      BY Zenon, <1>1, <1>2, <3>1, <3>2, LateReceiver
  <2>4. CASE seen["R"] = bytesWritten
    <3>1. pc'["S"] = pc["S"] /\ pc'["R"] = "detached"
      BY Zenon, <1>0, <2>1, <2>4 DEF Goto
    <3>2. pc'["R"] # "again?"
      BY Zenon, <3>1
    <3>3. Len(received) < Len(Length) => bytesWritten < End[Len(received) + 1]
      BY Zenon, <2>2, <2>4, NotEnough
    <3> QED
      BY Zenon, <1>1, <2>1, <2>2, <3>1, <3>2, <3>3 DEF Late, At
  <2> QED
    BY Zenon, <2>3, <2>4
<1> QED
  BY Zenon, <1>3, <1>4, <1>5 DEF Receiver

\* All this holds at the beginning ...
LEMMA LeavingInit == Init => Workers /\ Late
<1> SUFFICES ASSUME Init PROVE Workers /\ Late
  BY Zenon
<1>1. worker \in [side : Sides, status : {"not_yet_started", "started", "stopped"}, handle : BOOLEAN]
          /\ worker.status = "not_yet_started"
  BY Zenon, ShmMqAssumption DEF Init, Other, Sides
<1>2. \A x \in Sides : Leader # x => worker.side = x
  BY Zenon, <1>1 DEF Leader, Other, Sides
<1>3. /\ \A x \in Sides : pc[x] = IF x = Leader THEN "idle" ELSE "none"
      /\ \A x \in Sides : attached[x] = (x = Leader)
      /\ attached \in [Sides -> BOOLEAN] /\ bytesWritten = 0 /\ detached = FALSE /\ gone = FALSE
  BY Zenon DEF Init
<1>4. Workers
  <2>1. \A x \in Sides : pc[x] = "none" => worker.side = x
    BY Zenon, <1>2, <1>3
  <2>2. ~attached["S"] => pc["S"] \in {"none", "end"}
    BY Zenon, <1>3 DEF Sides
  <2>3. worker.status # "stopped"
    BY Zenon, <1>1
  <2> QED
    BY Zenon, <1>1, <1>3, <2>1, <2>2, <2>3 DEF Workers
<1>5. Late
  <2>1. pc["R"] \in {"idle", "none"}
    BY Zenon, <1>3 DEF Sides
  <2>2. pc["R"] \notin {"failed_attach", "again?", "detached"} /\ pc["R"] # "again?" /\ pc["R"] # "detached"
    BY Zenon, <2>1
  <2> QED
    BY Zenon, <1>3, <2>2 DEF Late, At
<1> QED
  BY Zenon, <1>4, <1>5

\* ... and every step keeps it.
LEMMA LeavingNext == RingSteps /\ Stream /\ Workers /\ Late /\ [Next]_vars => (Workers /\ Late)'
<1> SUFFICES ASSUME RingSteps, Stream, Workers, Late, [Next]_vars PROVE Workers' /\ Late'
  BY Zenon
<1>1. CASE UNCHANGED vars
  <2>1. UNCHANGED <<worker, attached, pc, bytesWritten, detached, gone, received, bytesRead, expected,
            seen, pending, lengthDone, partial>>
    BY Zenon, <1>1 DEF vars, shm, local, history
  <2>2. Enough' <=> Enough
    BY Zenon, <2>1, EnoughKept
  <2>3. Workers'
    BY Zenon, <2>1 DEF Workers
  <2>4. Late'
    BY Zenon, <2>1, <2>2 DEF Late, At
  <2> QED
    BY Zenon, <2>3, <2>4
<1>2. CASE Sender \/ \E f \in Flushes : Send(f)
  <2>1. Workers'
    BY Zenon, <1>2, MovesSender, WorkersMove DEF Sides
  <2>2. Late'
    BY Zenon, <1>2, LateSenderSends
  <2> QED
    BY Zenon, <2>1, <2>2
<1>3. CASE Receiver
  <2>1. Workers'
    BY Zenon, <1>3, MovesReceiver, WorkersMove DEF Sides
  <2>2. Late'
    BY Zenon, <1>3, LateReceiverReceives
  <2> QED
    BY Zenon, <2>1, <2>2
<1>4. ASSUME NEW x \in Sides, Detach(x) PROVE Workers' /\ Late'
  <2>1. CASE x = "S"
    <3>1. Workers'
      BY Zenon, <1>4, <2>1, MovesSender, WorkersMove
    <3>2. Late'
      BY Zenon, <1>4, <2>1, LateSenderSends
    <3> QED
      BY Zenon, <3>1, <3>2
  <2>2. CASE x = "R"
    <3>1. Workers'
      BY Zenon, <1>4, <2>2, MovesReceiver, WorkersMove
    <3>2. Late'
      BY Zenon, <1>4, <2>2, LateReceiverReceives
    <3> QED
      BY Zenon, <3>1, <3>2
  <2> QED
    BY Zenon, <2>1, <2>2 DEF Sides
<1>5. ASSUME NEW x \in Sides, Waiting(x) \/ Leaving(x) \/ Starting(x) \/ NotifyAttach(x) \/ Abort(x)
      PROVE  Workers' /\ Late'
  <2>1. Workers'
    <3>1. CASE Waiting(x) \/ DetachInternal(x) \/ NotifyAttach(x) \/ Abort(x)
      BY Zenon, <3>1, MovesWaiting, WorkersMove
    <3>2. CASE Attach(x) \/ NeverStarts(x) \/ NotifyDetach(x)
      BY Zenon, <3>2, WorkersStart
    <3> QED
      BY Zenon, <1>5, <3>1, <3>2 DEF Leaving, Starting
  <2>2. CASE x = "S"
    BY Zenon, <1>5, <2>1, <2>2, LateSenderWaits
  <2>3. CASE x = "R"
    BY Zenon, <1>5, <2>1, <2>3, LateReceiverWaits
  <2> QED
    BY Zenon, <2>2, <2>3 DEF Sides
<1> QED
  BY Zenon, <1>1, <1>2, <1>3, <1>4, <1>5 DEF Next

\* What a receiver has had that was told of the end.
LEMMA HadAll == RingSteps /\ Stream /\ Late => DetachLosesNothing
<1> SUFFICES ASSUME RingSteps, Stream, Late, At("R", "detached")
             PROVE  /\ Messages \cap 1 .. Len(received) = Visible
                    /\ (At("S", "end") /\ pending["S"] = 0) => Len(received) = sent
  BY Zenon DEF DetachLosesNothing
<1>1. PICK r \in Nat, M \in Nat, w \in Nat, E \in Nat :
        r = Len(received) /\ M = Len(Length) /\ w = bytesWritten /\ E = End[r] /\ r \in 0 .. M /\ E <= w
  <2>1. Len(received) \in Nat
    BY DEF Stream, ReceiverAt
  <2>2. Len(received) \in 0 .. Len(Length) /\ End[Len(received)] \in Nat
    BY Zenon, <2>1, SentBefore
  <2>3. Len(Length) \in Nat /\ bytesWritten \in Nat
    BY Zenon, EndFacts DEF RingSteps, Numbers
  <2>4. End[Len(received)] <= Read
    <3>1. partial["R"] \in Nat
      BY Zenon DEF RingSteps, Numbers, Sides
    <3>2. Read = End[Len(received)] + (IF lengthDone["R"] THEN 1 + partial["R"] ELSE 0)
      BY Zenon DEF Stream, ReceiverAt
    <3> QED
      BY <2>2, <3>1, <3>2
  <2>5. Read <= bytesWritten /\ Read \in Nat
    BY DEF RingSteps, Counters, Numbers, Sides, Read
  <2>6. End[Len(received)] <= bytesWritten
    BY <2>2, <2>3, <2>4, <2>5
  <2> QED
    BY Zenon, <2>1, <2>2, <2>3, <2>6
<1>2. r < M => w < End[r + 1]
  BY Zenon, <1>1 DEF Late
<1>3. \A m \in Messages : m <= r <=> End[m] <= w
  <2> SUFFICES ASSUME NEW m \in Messages PROVE m <= r <=> End[m] <= w
    BY Zenon
  <2>1. m \in Nat /\ m \in 0 .. M /\ End[m] \in Nat
    BY Zenon, <1>1, EndFacts
  <2>2. CASE m < r
    <3>1. End[m] < E
      BY Zenon, <1>1, <2>1, <2>2, EndGrows
    <3> QED
      BY <1>1, <2>1, <2>2, <3>1
  <2>3. CASE m = r
    BY <1>1, <2>3
  <2>4. CASE m > r
    <3>1. r < M /\ r + 1 \in 0 .. M /\ (r + 1 = m \/ r + 1 < m)
      BY <2>1, <2>4
    <3>2. End[r + 1] \in Nat /\ (r + 1 = m \/ End[r + 1] < End[m])
      BY Zenon, <1>1, <2>1, <3>1, EndGrows, EndFacts
    <3>3. w < End[r + 1]
      BY Zenon, <1>2, <3>1
    <3>4. r + 1 = m => End[r + 1] = End[m]
      BY Zenon
    <3>5. ~(End[m] <= w)
      BY <1>1, <2>1, <3>2, <3>3, <3>4
    <3> QED
      BY <2>1, <2>4, <3>5
  <2> QED
    BY <2>1, <2>2, <2>3, <2>4
<1>4. Messages \cap 1 .. r = Visible
  <2>1. \A m \in Messages : m \in 1 .. r <=> m <= r
    BY EndFacts
  <2> QED
    BY Zenon, <1>1, <1>3, <2>1 DEF Visible
<1>5. ASSUME pending["S"] = 0 PROVE r = sent
  <2>1. PICK s \in Nat : s = sent /\ s \in 0 .. M /\ r <= s /\ End[s] <= w
    <3>1. Written = bytesWritten + 0
      BY Zenon, <1>5 DEF Written
    <3>2. Written = bytesWritten
      BY <1>1, <3>1
    <3>3. sent \in Nat /\ sent \in 0 .. M /\ r <= sent /\ End[sent] <= bytesWritten
      BY Zenon, <1>1, <3>2 DEF Stream, SenderAt, ReceiverAt, RingSteps, Numbers
    <3> QED
      BY Zenon, <1>1, <3>3
  <2>2. CASE s > 0
    <3>1. s \in Messages
      <4>1. s \in 1 .. Len(Length)
        BY <1>1, <2>1, <2>2
      <4> QED
        BY <4>1, ShmMqAssumption DEF Messages
    <3>2. s <= r
      BY Zenon, <1>3, <2>1, <3>1
    <3> QED
      BY <2>1, <3>2
  <2>3. CASE s = 0
    BY <2>1, <2>3
  <2> QED
    BY <2>1, <2>2, <2>3
<1> QED
  BY Zenon, <1>1, <1>4, <1>5

\* "When the sender detaches, the receiver can read any messages remaining in the queue": a receiver
\* to which shm_mq_receive returns SHM_MQ_DETACHED has had every message that was complete in
\* mq_bytes_written, and every message sent if the sender used shm_mq_detach, in whatever order the
\* two looked at the counters, mq_detached and the worker.
THEOREM DetachCorrect == Spec => []DetachLosesNothing
<1>1. Init => RingSteps /\ Stream /\ Workers /\ Late
  BY Zenon, RingInit, StreamInit, LeavingInit
<1>2. RingSteps /\ Stream /\ Workers /\ Late /\ [Next]_vars => (RingSteps /\ Stream /\ Workers /\ Late)'
  BY Zenon, RingNext, StreamNext, LeavingNext
<1> QED
  BY <1>1, <1>2, HadAll, PTL DEF Spec
-----------------------------------------------------------------------------
(***************************************************************************)
(* Being told.                                                             *)
(***************************************************************************)

\* What shm_mq_wait_internal and shm_mq_counterparty_gone find out.
Gone(x) == detached \/ WorkerDied(x)

\* Where a side has found the other attached; where a receiver goes only then.
Aware == {"know", "attached"}
Reading == {"consume", "consume_latch", "look", "act", "again?", "short", "short_latch"}

\* What a side at a label knows of the other.
Meets(x) ==
  /\ pc[x] = "none" => ~attached[x]
  /\ ~attached[x] => pc[x] \in {"none", "end"}
  /\ known[x] \/ pc[x] \in Aware => attached[Other(x)]
  /\ pc[x] = "notify_detach" => detached
  /\ pc[x] = "failed_attach" => Gone(x)

\* A worker that has attached and is stopped has detached; who has not attached has moved no counter.
There ==
  /\ latch \in [Sides -> BOOLEAN] /\ known \in [Sides -> BOOLEAN] /\ detached \in BOOLEAN
  /\ attached[Leader] /\ \A x \in Sides : Meets(x)
  /\ pc["S"] = "full" => known["S"]
  /\ Leader = "R" /\ pc["S"] \in {"flush", "flush_latch"} => known["S"]
  /\ pc["R"] \in Reading => known["R"]
  /\ pc["R"] = "wait" => known["R"] \/ nowait["R"]
  /\ pc["R"] \in {"gone?", "attached_nowait?"} => nowait["R"]
  /\ worker.status = "stopped" /\ attached[worker.side] => detached
  /\ ~attached["R"] => bytesRead = 0

\* The labels between a change of a counter and the latch, and those between a look at the other's counter
\* and the end of the wait.
Giving == {"consume_latch", "short_latch"}
Putting == {"full", "flush_latch", "detach", "notify_detach"}
LookedS == {"act", "full", "wait"}
LookedR == {"act", "short", "short_latch", "wait"}

\* Bytes that were read, or written, since a side has looked, are announced.
CountersSeen ==
  /\ pc["S"] \in LookedS => seen["S"] = bytesRead \/ latch["S"] \/ pc["R"] \in Giving
  /\ Leader = "R" /\ pc["R"] \in LookedR =>
       seen["R"] = bytesWritten \/ latch["R"] \/ pc["S"] \in Putting

\* A side that is past its last look at mq_detached and the worker.
Settling(x) ==
  \/ pc[x] \in {"full", "short", "short_latch", "wait", "wait_attach"}
  \/ pc[x] = "attached_nowait?" /\ ~(x = "R" /\ gone)

\* That the other side has left since then is announced.
EndSeen ==
  \A x \in Sides : Settling(x) => latch[x] \/ pc[Other(x)] = "notify_detach" \/ ~Gone(x)

\* A side that is past its last look at mq_sender or mq_receiver, which was NULL.
Unmet(x) == pc[x] \in {"unattached", "wait_attach"} \/ (pc[x] = "wait" /\ ~known[x])

\* That the other side has attached since then is announced.
StartSeen ==
  \A x \in Sides : Unmet(x) => ~attached[Other(x)] \/ latch[x] \/ pc[Other(x)] = "notify_attach"

News == There /\ CountersSeen /\ EndSeen /\ StartSeen

\* Nobody sleeps through any of this.
LEMMA NewsSeen == RingSteps /\ Workers /\ News => NoNewsMissed
<1> SUFFICES ASSUME RingSteps, Workers, News, NEW x \in Sides,
                    pc[x] \in {"wait", "wait_attach"}, ~latch[x], pc[Other(x)] \notin Telling
             PROVE  /\ ~detached /\ ~WorkerDied(x)
                    /\ known[x] \/ ~attached[Other(x)]
                    /\ x = "S" => seen["S"] = bytesRead
                    /\ x = "R" /\ Leader = "R" => seen["R"] = bytesWritten
  BY Zenon DEF NoNewsMissed
<1>1. /\ pc[Other(x)] # "notify_detach" /\ pc[Other(x)] # "notify_attach"
      /\ pc[Other(x)] \notin Giving /\ pc[Other(x)] \notin Putting
  BY Zenon DEF Telling, Giving, Putting
<1>2. ~Gone(x)
  BY Zenon, <1>1 DEF News, EndSeen, Settling
<1>3. known[x] \/ ~attached[Other(x)]
  BY Zenon, <1>1 DEF News, StartSeen, Unmet
<1>4. pc[x] = "wait_attach" => ~attached[Other(x)]
  BY Zenon, <1>1 DEF News, StartSeen, Unmet
<1>5. /\ bytesRead \in Nat /\ bytesWritten \in Nat /\ seen["S"] \in Nat /\ seen["R"] \in Nat
      /\ seen["S"] <= bytesRead /\ seen["R"] <= bytesWritten
  BY Zenon DEF RingSteps, Numbers, Counters, Sides
<1>6. /\ ~attached["R"] => seen["S"] = bytesRead
      /\ ~attached["S"] => seen["R"] = bytesWritten
  BY <1>5 DEF News, There, Workers
<1>7. /\ x = "S" => Other(x) = "R" /\ x # "R"
      /\ x = "R" => Other(x) = "S" /\ x # "S"
  BY Zenon DEF Other
<1>8. x = "S" => seen["S"] = bytesRead
  BY Zenon, <1>1, <1>4, <1>6, <1>7 DEF News, CountersSeen, LookedS
<1>9. x = "R" /\ Leader = "R" => seen["R"] = bytesWritten
  BY Zenon, <1>1, <1>4, <1>6, <1>7 DEF News, CountersSeen, LookedR
<1> QED
  BY Zenon, <1>2, <1>3, <1>8, <1>9 DEF Gone, WorkerDied

\* The two sides.
LEMMA TwoSides ==
  ASSUME NEW x \in Sides
  PROVE  /\ Other(x) \in Sides /\ Other(x) # x /\ Other(Other(x)) = x
         /\ \A z \in Sides : z = x \/ z = Other(x)
BY Zenon DEF Sides, Other

\* A step of x, which is not one of starting or of the last notification.  It resets no latch but its own,
\* and that only where it goes on to look at everything again.
Steps(x) ==
  /\ \E l : Moves(x, l)
  /\ latch' \in [Sides -> BOOLEAN] /\ (latch[Other(x)] => latch'[Other(x)])
  /\ pc'[x] \in {"start", "attached?", "look"} \/ latch'[x] = latch[x]
  /\ known' \in [Sides -> BOOLEAN] /\ known'[Other(x)] = known[Other(x)]
  /\ detached' \in BOOLEAN /\ (detached => detached') /\ nowait' = nowait

\* What such a step learns,
Learns(x) ==
  /\ known'[x] \/ pc'[x] \in Aware => attached[Other(x)]
  /\ pc'[x] = "notify_detach" => detached'
  /\ pc'[x] = "failed_attach" => Gone(x)
  /\ x = "S" /\ pc'["S"] = "full" => known'["S"]
  /\ x = "S" /\ Leader = "R" /\ pc'["S"] \in {"flush", "flush_latch"} => known'["S"]
  /\ x = "R" /\ pc'["R"] \in Reading => known'["R"]
  /\ x = "R" /\ pc'["R"] = "wait" => known'["R"] \/ nowait["R"]
  /\ x = "R" /\ pc'["R"] \in {"gone?", "attached_nowait?"} => nowait["R"]

\* how it moves and looks at the counters,
Counts(x) ==
  /\ x = "S" => /\ bytesRead' = bytesRead /\ seen'["R"] = seen["R"]
                /\ pc'["S"] \in LookedS =>
                     seen'["S"] = bytesRead \/ (pc["S"] \in LookedS /\ seen'["S"] = seen["S"])
                /\ bytesWritten' = bytesWritten \/ pc'["S"] \in Putting
                /\ pc["S"] \in Putting /\ Leader = "R" => pc'["S"] \in Putting \/ latch'["R"]
  /\ x = "R" => /\ bytesWritten' = bytesWritten /\ seen'["S"] = seen["S"]
                /\ pc'["R"] \in LookedR =>
                     seen'["R"] = bytesWritten \/ (pc["R"] \in LookedR /\ seen'["R"] = seen["R"])
                /\ bytesRead' = bytesRead \/ pc'["R"] \in Giving
                /\ pc["R"] \in Giving => latch'["S"]

\* and what it tells of leaving and of attaching.
Leaves(x) ==
  /\ x = "S" => gone' = gone
  /\ Settling(x)' => (Settling(x) /\ detached' = detached) \/ ~Gone(x)'
  /\ detached' => \/ detached \/ pc'[x] = "notify_detach" \/ ~attached[Other(x)]
                  \/ (x = Leader /\ worker.status = "stopped")

Arrives(x) ==
  /\ Unmet(x)' => ~attached[Other(x)] \/ pc[x] = "unattached"
  /\ pc[x] = "notify_attach" => latch'[Other(x)]

Heeds(x) == Steps(x) /\ Learns(x) /\ Counts(x) /\ Leaves(x) /\ Arrives(x)

\* What every such step leaves alone.
LEMMA StepsFacts ==
  ASSUME RingSteps, NEW x \in Sides, Steps(x)
  PROVE  /\ pc'[Other(x)] = pc[Other(x)] /\ pc'[x] # "none" /\ pc[x] \notin Final \cup {"none"}
         /\ worker' = worker /\ attached' = attached /\ Leader' = Leader
<1>1. PICK l : Moves(x, l)
  BY Zenon DEF Steps
<1>2. pc' = [pc EXCEPT ![x] = l] /\ pc = [y \in Sides |-> pc[y]] /\ l # "none"
      /\ pc[x] \notin Final \cup {"none"} /\ worker' = worker /\ attached' = attached
  BY Zenon, <1>1 DEF Moves, Goto, RingSteps, Numbers
<1>3. pc'[x] = l /\ pc'[Other(x)] = pc[Other(x)]
  BY Zenon, <1>2, TwoSides
<1> QED
  BY Zenon, <1>2, <1>3 DEF Leader

\* A heedful step of one side leaves both where There says.
LEMMA ThereSteps ==
  ASSUME RingSteps, Workers, There, NEW x \in Sides, Heeds(x)
  PROVE  There'
<1> DEFINE y == Other(x)
<1>1. /\ pc'[y] = pc[y] /\ pc'[x] # "none" /\ pc[x] \notin Final \cup {"none"}
      /\ worker' = worker /\ attached' = attached /\ Leader' = Leader
  BY Zenon, StepsFacts DEF Heeds
<1>2. y \in Sides /\ y # x /\ Other(y) = x /\ \A z \in Sides : z = x \/ z = y
  BY Zenon, TwoSides
<1> HIDE DEF y
<1>3. /\ latch' \in [Sides -> BOOLEAN] /\ known' \in [Sides -> BOOLEAN] /\ known'[y] = known[y]
      /\ detached' \in BOOLEAN /\ (detached => detached') /\ nowait' = nowait
  BY Zenon DEF Heeds, Steps, y
<1>4. attached[x]
  <2>1. pc[x] \notin {"none", "end"}
    BY Zenon, <1>1 DEF Final
  <2> QED
    BY Zenon, <2>1 DEF There, Meets
<1>5. Meets(x)'
  <2>1. /\ known'[x] \/ pc'[x] \in Aware => attached[Other(x)]
        /\ pc'[x] = "notify_detach" => detached'
        /\ pc'[x] = "failed_attach" => Gone(x)
    BY Zenon DEF Heeds, Learns
  <2>2. Gone(x) => Gone(x)'
    BY Zenon, <1>1, <1>3 DEF Gone, WorkerDied
  <2> QED
    BY Zenon, <1>1, <1>4, <2>1, <2>2 DEF Meets
<1>6. Meets(y)'
  <2>1. Gone(y) => Gone(y)'
    BY Zenon, <1>1, <1>3 DEF Gone, WorkerDied
  <2> QED
    BY Zenon, <1>1, <1>2, <1>3, <2>1 DEF There, Meets
<1>7. \A z \in Sides : Meets(z)'
  BY Zenon, <1>2, <1>5, <1>6
<1>8. CASE x = "S"
  <2>1. y = "R" /\ "S" # "R"
    BY Zenon, <1>8 DEF y, Other
  <2>2. /\ pc'["S"] = "full" => known'["S"]
        /\ Leader = "R" /\ pc'["S"] \in {"flush", "flush_latch"} => known'["S"]
    BY Zenon, <1>8 DEF Heeds, Learns
  <2>3. bytesRead' = bytesRead
    BY Zenon, <1>8 DEF Heeds, Counts
  <2> QED
    BY Zenon, <1>1, <1>3, <1>7, <2>1, <2>2, <2>3 DEF There
<1>9. CASE x = "R"
  <2>1. y = "S" /\ "S" # "R"
    BY Zenon, <1>9 DEF y, Other
  <2>2. /\ pc'["R"] \in Reading => known'["R"]
        /\ pc'["R"] = "wait" => known'["R"] \/ nowait["R"]
        /\ pc'["R"] \in {"gone?", "attached_nowait?"} => nowait["R"]
    BY Zenon, <1>9 DEF Heeds, Learns
  <2> QED
    BY Zenon, <1>1, <1>3, <1>4, <1>7, <1>9, <2>1, <2>2 DEF There
<1> QED
  BY Zenon, <1>8, <1>9 DEF Sides

\* A heedful step leaves no sleeper behind whose counter has moved.
LEMMA CountersSteps ==
  ASSUME RingSteps, CountersSeen, NEW x \in Sides, Heeds(x)
  PROVE  CountersSeen'
<1>1. /\ pc'[Other(x)] = pc[Other(x)] /\ Leader' = Leader
      /\ latch[Other(x)] => latch'[Other(x)]
      /\ pc'[x] \in {"start", "attached?", "look"} \/ latch'[x] = latch[x]
  BY Zenon, StepsFacts DEF Heeds, Steps
<1>2. CASE x = "S"
  <2>1. Other(x) = "R"
    BY Zenon, <1>2 DEF Other
  <2>2. pc'["S"] \in LookedS => pc'["S"] \notin {"start", "attached?", "look"}
    BY Zenon DEF LookedS
  <2>3. /\ bytesRead' = bytesRead /\ seen'["R"] = seen["R"]
        /\ pc'["S"] \in LookedS =>
             seen'["S"] = bytesRead \/ (pc["S"] \in LookedS /\ seen'["S"] = seen["S"])
        /\ bytesWritten' = bytesWritten \/ pc'["S"] \in Putting
        /\ pc["S"] \in Putting /\ Leader = "R" => pc'["S"] \in Putting \/ latch'["R"]
    BY Zenon, <1>2 DEF Heeds, Counts
  <2> QED
    BY Zenon, <1>1, <1>2, <2>1, <2>2, <2>3 DEF CountersSeen
<1>3. CASE x = "R"
  <2>1. Other(x) = "S"
    BY Zenon, <1>3 DEF Other
  <2>2. pc'["R"] \in LookedR => pc'["R"] \notin {"start", "attached?", "look"}
    BY Zenon DEF LookedR
  <2>3. /\ bytesWritten' = bytesWritten /\ seen'["S"] = seen["S"]
        /\ pc'["R"] \in LookedR =>
             seen'["R"] = bytesWritten \/ (pc["R"] \in LookedR /\ seen'["R"] = seen["R"])
        /\ bytesRead' = bytesRead \/ pc'["R"] \in Giving
        /\ pc["R"] \in Giving => latch'["S"]
    BY Zenon, <1>3 DEF Heeds, Counts
  <2> QED
    BY Zenon, <1>1, <1>3, <2>1, <2>2, <2>3 DEF CountersSeen
<1> QED
  BY Zenon, <1>2, <1>3 DEF Sides

\* A heedful step leaves no sleeper behind that ought to know of the end.
LEMMA EndSteps ==
  ASSUME RingSteps, Workers, There, EndSeen, NEW x \in Sides, Heeds(x)
  PROVE  EndSeen'
<1> DEFINE y == Other(x)
<1>1. /\ pc'[y] = pc[y] /\ worker' = worker /\ Leader' = Leader /\ pc[x] \notin Final \cup {"none"}
      /\ latch[y] => latch'[y]
      /\ pc'[x] \in {"start", "attached?", "look"} \/ latch'[x] = latch[x]
  BY Zenon, StepsFacts DEF Heeds, Steps
<1>2. y \in Sides /\ y # x /\ Other(y) = x /\ \A z \in Sides : z = x \/ z = y
  BY Zenon, TwoSides
<1>3. /\ x = "S" => gone' = gone
      /\ Settling(x)' => (Settling(x) /\ detached' = detached) \/ ~Gone(x)'
      /\ detached' => \/ detached \/ pc'[x] = "notify_detach" \/ ~attached[y]
                      \/ (x = Leader /\ worker.status = "stopped")
  BY Zenon DEF Heeds, Leaves
<1>4. y = "R" => x = "S"
  BY Zenon DEF y, Other
<1>5. x = Leader /\ worker.status = "stopped" => ~Settling(y)
  <2>1. x = Leader => worker.side = y
    BY Zenon DEF Workers, Leader, Other, Sides, y
  <2>2. pc[y] = "end" => ~Settling(y)
    BY Zenon DEF Settling
  <2> QED
    BY Zenon, <2>1, <2>2 DEF Workers
<1>6. pc[x] # "notify_detach"
  BY Zenon, <1>1 DEF Final
<1> HIDE DEF y
<1>11. ~attached[y] => ~Settling(y)
  <2>1. ~attached[y] => pc[y] \in {"none", "end"}
    BY Zenon, <1>2 DEF There, Meets
  <2> QED
    BY Zenon, <2>1 DEF Settling
<1>7. Settling(y)' => Settling(y)
  BY Zenon, <1>1, <1>3, <1>4 DEF Settling
<1>8. Settling(y)' => latch'[y] \/ pc'[x] = "notify_detach" \/ ~Gone(y)'
  <2>1. Settling(y) => latch[y] \/ ~Gone(y)
    BY Zenon, <1>2, <1>6 DEF EndSeen
  <2>2. Settling(y) => ~Gone(y)' \/ Gone(y) \/ pc'[x] = "notify_detach"
    BY Zenon, <1>1, <1>3, <1>5, <1>11 DEF Gone, WorkerDied
  <2> QED
    BY Zenon, <1>1, <1>7, <2>1, <2>2
<1>9. Settling(x)' => latch'[x] \/ pc'[y] = "notify_detach" \/ ~Gone(x)'
  <2>1. Settling(x)' => latch'[x] = latch[x]
    <3>1. Settling(x)' => pc'[x] \notin {"start", "attached?", "look"}
      BY Zenon DEF Settling
    <3> QED
      BY Zenon, <1>1, <3>1
  <2>2. Settling(x) => latch[x] \/ pc[y] = "notify_detach" \/ ~Gone(x)
    BY Zenon DEF EndSeen, y
  <2>3. detached' = detached => (Gone(x)' => Gone(x))
    <3>1. WorkerDied(x)' => WorkerDied(x)
      BY Zenon, <1>1 DEF WorkerDied
    <3>2. detached' = detached => (detached' => detached)
      OBVIOUS
    <3> QED
      BY Zenon, <3>1, <3>2 DEF Gone
  <2> QED
    BY Zenon, <1>1, <1>3, <2>1, <2>2, <2>3
<1>10. Other(x) = y
  BY Zenon DEF y
<1> QED
  BY Zenon, <1>2, <1>8, <1>9, <1>10 DEF EndSeen

\* A heedful step leaves no sleeper behind that ought to know of an attach.
LEMMA StartSteps ==
  ASSUME RingSteps, StartSeen, NEW x \in Sides, Heeds(x)
  PROVE  StartSeen'
<1> DEFINE y == Other(x)
<1>1. /\ pc'[y] = pc[y] /\ attached' = attached /\ (latch[y] => latch'[y])
      /\ pc'[x] \in {"start", "attached?", "look"} \/ latch'[x] = latch[x]
      /\ known'[y] = known[y]
  BY Zenon, StepsFacts DEF Heeds, Steps
<1>2. y \in Sides /\ y # x /\ Other(y) = x /\ \A z \in Sides : z = x \/ z = y
  BY Zenon, TwoSides
<1>3. /\ Unmet(x)' => ~attached[y] \/ pc[x] = "unattached"
      /\ pc[x] = "notify_attach" => latch'[y]
  BY Zenon DEF Heeds, Arrives
<1>4. Other(x) = y
  BY Zenon DEF y
<1> HIDE DEF y
<1>5. Unmet(y)' => ~attached'[x] \/ latch'[y] \/ pc'[x] = "notify_attach"
  <2>1. Unmet(y)' => Unmet(y)
    BY Zenon, <1>1 DEF Unmet
  <2> QED
    BY Zenon, <1>1, <1>2, <1>3, <2>1 DEF StartSeen
<1>6. Unmet(x)' => ~attached'[y] \/ latch'[x] \/ pc'[y] = "notify_attach"
  <2>1. Unmet(x)' => latch'[x] = latch[x]
    <3>1. Unmet(x)' => pc'[x] \notin {"start", "attached?", "look"}
      BY Zenon DEF Unmet
    <3> QED
      BY Zenon, <1>1, <3>1
  <2>2. pc[x] = "unattached" => ~attached[y] \/ latch[x] \/ pc[y] = "notify_attach"
    BY Zenon, <1>4 DEF StartSeen, Unmet
  <2> QED
    BY Zenon, <1>1, <1>3, <2>1, <2>2
<1> QED
  BY Zenon, <1>2, <1>4, <1>5, <1>6 DEF StartSeen

\* So such a step keeps all of it.
LEMMA NewsSteps ==
  ASSUME RingSteps, Workers, News, NEW x \in Sides, Heeds(x)
  PROVE  News'
BY Zenon, ThereSteps, CountersSteps, EndSteps, StartSteps DEF News

\* Where a step goes.
LEMMA GotoIs ==
  ASSUME RingSteps, NEW x \in Sides, NEW l, Goto(x, l)
  PROVE  pc'[x] = l
BY Zenon DEF RingSteps, Numbers, Goto

\* Who is known is there.
LEMMA HaveMet ==
  ASSUME There
  PROVE  (known["S"] => attached["R"]) /\ (known["R"] => attached["S"])
<1>1. Meets("S") /\ Meets("R")
  BY Zenon DEF There, Sides
<1> QED
  BY Zenon, <1>1 DEF Meets, Other

\* A step that only looks, and at which labels it may end.
Looks(x) ==
  /\ \E l : Moves(x, l)
  /\ UNCHANGED <<latch, known, seen, bytesRead, bytesWritten, detached, gone, nowait>>
  /\ pc[x] \notin Giving \cup Putting \cup {"notify_attach"}
  /\ pc'[x] \in {"attached_nowait?", "full", "act", "short_latch", "flush", "flush_latch",
                 "consume_latch", "notify_detach"} => FALSE
  /\ pc'[x] \in Aware => attached[Other(x)]
  /\ pc'[x] = "failed_attach" => Gone(x)
  /\ pc'[x] = "unattached" => ~attached[Other(x)]
  /\ pc'[x] = "wait_attach" => pc[x] = "unattached" /\ ~Gone(x)
  /\ pc'[x] = "wait" => ~attached[Other(x)] /\ Settling(x)
  /\ pc'[x] = "short" => x = "R" /\ pc["R"] = "act" /\ ~detached
  /\ x = "R" /\ pc'["R"] \in Reading => known["R"]
  /\ x = "R" /\ pc'["R"] \in {"gone?", "wait"} => nowait["R"]

\* A step that only looks is heedful.
LEMMA LooksHeeds ==
  ASSUME RingSteps, Workers, There, NEW x \in Sides, Looks(x)
  PROVE  Heeds(x)
<1>1. /\ latch' = latch /\ known' = known /\ seen' = seen /\ bytesRead' = bytesRead
      /\ bytesWritten' = bytesWritten /\ detached' = detached /\ gone' = gone
      /\ nowait' = nowait
  BY Zenon DEF Looks
<1>2. Steps(x)
  <2>1. /\ latch' \in [Sides -> BOOLEAN] /\ known' \in [Sides -> BOOLEAN] /\ detached' \in BOOLEAN
        /\ (latch[Other(x)] => latch'[Other(x)]) /\ latch'[x] = latch[x]
        /\ known'[Other(x)] = known[Other(x)] /\ (detached => detached')
    BY Zenon, <1>1 DEF There
  <2> QED
    BY Zenon, <1>1, <2>1 DEF Looks, Steps
<1>3. worker' = worker /\ attached' = attached /\ Leader' = Leader
  BY Zenon, <1>2, StepsFacts
<1>4. known[x] => attached[Other(x)]
  BY Zenon DEF There, Meets
<1>5. Learns(x)
  <2>1. pc'[x] # "full" /\ pc'[x] \notin {"flush", "flush_latch"} /\ pc'[x] # "notify_detach"
    BY Zenon DEF Looks
  <2>2. /\ x = "R" /\ pc'["R"] = "wait" => nowait["R"]
        /\ x = "R" /\ pc'["R"] \in {"gone?", "attached_nowait?"} => nowait["R"]
    BY Zenon DEF Looks
  <2> QED
    BY Zenon, <1>1, <1>4, <2>1, <2>2 DEF Looks, Learns
<1>6. Counts(x)
  <2>1. pc[x] \notin Giving /\ pc[x] \notin Putting
    BY Zenon DEF Looks
  <2>2. /\ ~attached["R"] => seen["S"] = bytesRead
        /\ ~attached["S"] => seen["R"] = bytesWritten
    <3>1. /\ bytesRead \in Nat /\ bytesWritten \in Nat /\ seen["S"] \in Nat /\ seen["R"] \in Nat
          /\ seen["S"] <= bytesRead /\ seen["R"] <= bytesWritten
      BY Zenon DEF RingSteps, Numbers, Counters, Sides
    <3> QED
      BY <3>1 DEF There, Workers
  <2>3. x = "S" => (pc'["S"] \in LookedS => seen["S"] = bytesRead)
    <3>1. x = "S" /\ pc'["S"] \in LookedS => pc'[x] = "wait"
      BY Zenon DEF Looks, LookedS
    <3>2. x = "S" => Other(x) = "R"
      BY Zenon DEF Other
    <3> QED
      BY Zenon, <2>2, <3>1, <3>2 DEF Looks
  <2>4. x = "R" => (pc'["R"] \in LookedR => seen["R"] = bytesWritten \/ pc["R"] \in LookedR)
    <3>1. x = "R" /\ pc'["R"] \in LookedR => pc'[x] = "wait" \/ pc'[x] = "short"
      BY Zenon DEF Looks, LookedR
    <3>2. x = "R" => Other(x) = "S"
      BY Zenon DEF Other
    <3>3. pc["R"] = "act" => pc["R"] \in LookedR
      BY Zenon DEF LookedR
    <3> QED
      BY Zenon, <2>2, <3>1, <3>2, <3>3 DEF Looks
  <2> QED
    BY Zenon, <1>1, <2>1, <2>3, <2>4 DEF Counts
<1>7. Leaves(x)
  <2>1. ~Gone(x) => ~Gone(x)'
    BY Zenon, <1>1, <1>3 DEF Gone, WorkerDied
  <2>2. pc'[x] = "short" => ~Gone(x)
    <3>1. x = "R" /\ x = Leader => worker.side = "S"
      BY Zenon DEF Workers, Leader, Other, Sides
    <3>2. pc["R"] = "act" => attached["S"]
      <4>1. pc["R"] = "act" => pc["R"] \in Reading
        BY Zenon DEF Reading
      <4>2. pc["R"] = "act" => known["R"]
        BY Zenon, <4>1 DEF There
      <4> QED
        BY Zenon, <4>2, HaveMet
    <3> QED
      BY Zenon, <3>1, <3>2 DEF Looks, Gone, WorkerDied, There
  <2>3. Settling(x)' => pc'[x] \in {"short", "wait", "wait_attach"}
    BY Zenon DEF Settling, Looks
  <2>4. Settling(x)' => Settling(x) \/ ~Gone(x)
    BY Zenon, <2>2, <2>3 DEF Looks
  <2> QED
    BY Zenon, <1>1, <2>1, <2>4 DEF Leaves
<1>8. Arrives(x)
  <2>1. Unmet(x)' => pc'[x] \in {"unattached", "wait_attach", "wait"}
    BY Zenon DEF Unmet
  <2> QED
    BY Zenon, <2>1 DEF Looks, Arrives
<1> QED
  BY Zenon, <1>2, <1>5, <1>6, <1>7, <1>8 DEF Heeds

\* The steps of the sender that only look.
LEMMA SenderLooks ==
  ASSUME RingSteps, There, SendDetached \/ SendUnknown \/ SendChunk \/ Sent \/ (\E f \in Flushes : Send(f))
  PROVE  Looks("S")
<1> USE DEF Sides
<1>1. \E l : Moves("S", l)
  BY Zenon, MovesSender DEF Sender
<1>2. UNCHANGED <<latch, known, seen, bytesRead, bytesWritten, detached, gone, nowait>>
  BY Zenon DEF SendDetached, SendUnknown, SendChunk, Sent, Send, shm, local
<1>3. pc["S"] \in {"act", "sent", "idle"}
  BY Zenon DEF SendDetached, SendUnknown, SendChunk, Sent, Send, At
<1>4. pc'["S"] \in {"detached", "gone?", "attached?", "sent", "look", "receiver?"}
  <2>1. CASE SendDetached
    BY Zenon, <2>1, GotoIs DEF SendDetached, EndDetached
  <2>2. CASE SendUnknown
    <3>1. pc'["S"] = IF nowait["S"] THEN "gone?" ELSE "attached?"
      BY Zenon, <2>2, GotoIs DEF SendUnknown
    <3> QED
      BY Zenon, <3>1
  <2>3. CASE SendChunk
    <3>1. Goto("S", "sent") \/ Goto("S", "look")
      BY Zenon, <2>3 DEF SendChunk
    <3> QED
      BY Zenon, <3>1, GotoIs
  <2>4. CASE Sent
    <3>1. Goto("S", "detached") \/ Goto("S", "receiver?")
      BY Zenon, <2>4 DEF Sent, EndDetached
    <3> QED
      BY Zenon, <3>1, GotoIs
  <2>5. CASE \E f \in Flushes : Send(f)
    BY Zenon, <2>5, GotoIs DEF Send
  <2> QED
    BY Zenon, <2>1, <2>2, <2>3, <2>4, <2>5
<1>5. /\ pc["S"] \notin Giving \cup Putting \cup {"notify_attach"}
      /\ pc'["S"] \notin {"attached_nowait?", "full", "act", "short_latch", "flush", "flush_latch",
                          "consume_latch", "notify_detach"}
      /\ pc'["S"] \notin Aware \cup {"failed_attach", "unattached", "wait_attach", "wait", "short"}
      /\ "S" # "R"
  BY Zenon, <1>3, <1>4 DEF Giving, Putting, Aware
<1> QED
  BY Zenon, <1>1, <1>2, <1>5 DEF Looks

\* The steps of the receiver that only look.
LEMMA ReceiverLooks ==
  ASSUME RingSteps, There, Receive \/ ReceiveWord \/ ReceivePart \/ ReceiveShort \/ Again
  PROVE  Looks("R")
<1> USE DEF Sides
<1>1. \E l : Moves("R", l)
  BY Zenon, MovesReceiver DEF Receiver
<1>2. UNCHANGED <<latch, known, seen, bytesRead, bytesWritten, detached, gone, nowait>>
  BY Zenon DEF Receive, ReceiveWord, ReceivePart, ReceiveShort, Again, shm, local
<1>3. pc["R"] \in {"idle", "start"} \/ pc["R"] \in {"act", "again?"}
  BY Zenon DEF Receive, ReceiveWord, ReceivePart, ReceiveShort, Again, At
<1>4. \/ pc'["R"] = "consume" /\ known["R"]
      \/ pc'["R"] = "gone?" /\ nowait["R"]
      \/ pc'["R"] \in {"attached?", "idle", "detached"}
      \/ pc["R"] = "act" /\ pc'["R"] = "short" /\ ~detached
      \/ pc["R"] \in {"act", "again?"} /\ pc'["R"] \in {"again?", "look"}
  <2>1. CASE Receive
    <3>1. PICK l : Goto("R", l) /\ l = CASE known["R"] -> "consume"
                                         [] ~ known["R"] /\ nowait["R"] -> "gone?"
                                         [] OTHER -> "attached?"
      BY Zenon, <2>1 DEF Receive
    <3>2. pc'["R"] = l
      BY Zenon, <3>1, GotoIs
    <3> QED
      BY Zenon, <3>1, <3>2
  <2>2. CASE ReceiveWord \/ ReceivePart
    <3>1. pc["R"] = "act" /\ (Goto("R", "idle") \/ Goto("R", "look"))
      BY Zenon, <2>2 DEF ReceiveWord, ReceivePart, Deliver, At
    <3> QED
      BY Zenon, <3>1, GotoIs
  <2>3. CASE ReceiveShort
    <3>1. pc["R"] = "act" /\ pc'["R"] = IF detached THEN "again?" ELSE "short"
      BY Zenon, <2>3, GotoIs DEF ReceiveShort, At
    <3> QED
      BY Zenon, <3>1
  <2>4. CASE Again
    <3>1. pc["R"] = "again?" /\ (Goto("R", "look") \/ Goto("R", "detached"))
      BY Zenon, <2>4 DEF Again, EndDetached, At
    <3> QED
      BY Zenon, <3>1, GotoIs
  <2> QED
    BY Zenon, <2>1, <2>2, <2>3, <2>4
<1>5. pc["R"] \in {"act", "again?"} => known["R"]
  <2>1. pc["R"] \in {"act", "again?"} => pc["R"] \in Reading
    BY Zenon DEF Reading
  <2> QED
    BY Zenon, <2>1 DEF There
<1>6. /\ pc["R"] \notin Giving \cup Putting \cup {"notify_attach"}
      /\ pc'["R"] \notin {"attached_nowait?", "full", "act", "short_latch", "flush", "flush_latch",
                          "consume_latch", "notify_detach"}
      /\ pc'["R"] \notin Aware \cup {"failed_attach", "unattached", "wait_attach", "wait"}
      /\ pc'["R"] = "short" => pc["R"] = "act" /\ ~detached
      /\ pc'["R"] \in Reading => known["R"]
      /\ pc'["R"] \in {"gone?", "wait"} => nowait["R"]
  BY Zenon, <1>3, <1>4, <1>5 DEF Giving, Putting, Aware, Reading
<1> QED
  BY Zenon, <1>1, <1>2, <1>6 DEF Looks

\* The steps of waiting that only look.
LEMMA WaitingLooks ==
  ASSUME RingSteps, There, NEW x \in Sides,
         CheckAttached(x) \/ CheckDetached(x) \/ AttachedNowait(x) \/ Abort(x)
  PROVE  Looks(x)
<1>1. \E l : Moves(x, l)
  BY Zenon, MovesWaiting DEF Waiting
<1>2. UNCHANGED <<latch, known, seen, bytesRead, bytesWritten, detached, gone, nowait>>
  BY Zenon DEF CheckAttached, CheckDetached, WorkerDied, AttachedNowait, Abort, shm, local
<1>3. \/ pc[x] = "attached?" /\ pc'[x] = "attached" /\ attached[Other(x)]
      \/ pc[x] = "attached?" /\ pc'[x] = "unattached" /\ ~attached[Other(x)]
      \/ pc[x] \in {"attached", "unattached"} /\ pc'[x] = "failed_attach" /\ Gone(x)
      \/ pc[x] = "attached" /\ pc'[x] = "know"
      \/ pc[x] = "unattached" /\ pc'[x] = "wait_attach" /\ ~Gone(x)
      \/ pc[x] = "attached_nowait?" /\ pc'[x] = "know" /\ attached[Other(x)]
      \/ pc[x] = "attached_nowait?" /\ pc'[x] = "detached"
      \/ pc[x] = "attached_nowait?" /\ pc'[x] = "wait" /\ ~attached[Other(x)] /\ ~(x = "R" /\ gone)
      \/ pc[x] \in {"idle", "wait", "wait_attach"} /\ pc'[x] = "detach"
  <2>1. CASE CheckAttached(x)
    <3>1. pc[x] = "attached?" /\ pc'[x] = IF attached[Other(x)] THEN "attached" ELSE "unattached"
      BY Zenon, <2>1, GotoIs DEF CheckAttached, At
    <3> QED
      BY Zenon, <3>1
  <2>2. CASE CheckDetached(x)
    <3>1. PICK l : /\ pc'[x] = l
                   /\ l = CASE detached -> "failed_attach"
                            [] ~ detached /\ At(x, "attached") -> "know"
                            [] OTHER -> IF WorkerDied(x) THEN "failed_attach" ELSE "wait_attach"
      BY Zenon, <2>2, GotoIs DEF CheckDetached, WorkerDied
    <3>2. pc[x] \in {"attached", "unattached"}
      BY Zenon, <2>2 DEF CheckDetached, WorkerDied
    <3> QED
      BY Zenon, <3>1, <3>2 DEF Gone, WorkerDied, At
  <2>3. CASE AttachedNowait(x)
    <3>1. /\ pc[x] = "attached_nowait?"
          /\ \/ attached[Other(x)] /\ Goto(x, "know")
             \/ Goto(x, "detached")
             \/ ~attached[Other(x)] /\ ~(x = "R" /\ gone) /\ Goto(x, "wait")
      BY Zenon, <2>3 DEF AttachedNowait, EndDetached, At
    <3> QED
      BY Zenon, <3>1, GotoIs
  <2>4. CASE Abort(x)
    BY Zenon, <2>4, GotoIs DEF Abort
  <2> QED
    BY Zenon, <2>1, <2>2, <2>3, <2>4
<1>4. pc[x] = "attached" => attached[Other(x)]
  <2>1. pc[x] = "attached" => pc[x] \in Aware
    BY Zenon DEF Aware
  <2> QED
    BY Zenon, <2>1 DEF There, Meets
<1>5. pc'[x] \in Aware => attached[Other(x)]
  BY Zenon, <1>3, <1>4 DEF Aware
<1>6. /\ pc[x] \notin Giving \cup Putting \cup {"notify_attach"}
      /\ pc'[x] \notin {"attached_nowait?", "full", "act", "short_latch", "flush", "flush_latch",
                          "consume_latch", "notify_detach", "short"} \cup Reading
  BY Zenon, <1>3 DEF Giving, Putting, Reading
<1>7. /\ pc'[x] = "failed_attach" => Gone(x)
      /\ pc'[x] = "unattached" => ~attached[Other(x)]
      /\ pc'[x] = "wait_attach" => pc[x] = "unattached" /\ ~Gone(x)
      /\ pc'[x] = "wait" => ~attached[Other(x)] /\ pc[x] = "attached_nowait?" /\ ~(x = "R" /\ gone)
      /\ pc'[x] # "gone?"
  BY Zenon, <1>3
<1>8. pc'[x] = "wait" => ~attached[Other(x)] /\ Settling(x)
  BY Zenon, <1>7 DEF Settling
<1>9. x = "R" => pc'["R"] \notin Reading
  BY Zenon, <1>6
<1>10. x = "R" /\ pc'["R"] \in {"gone?", "wait"} => nowait["R"]
  BY Zenon, <1>7 DEF There
<1> QED
  BY Zenon, <1>1, <1>2, <1>5, <1>6, <1>7, <1>8, <1>9, <1>10 DEF Looks

\* Who knows the other side, in a queue that is open, is not alone.
LEMMA NotGone ==
  ASSUME Workers, There, NEW x \in Sides, known[x], ~detached
  PROVE  ~Gone(x)
<1>1. attached[Other(x)]
  BY Zenon DEF There, Meets
<1>2. x = Leader => worker.side = Other(x)
  BY Zenon DEF Workers, Leader, Other, Sides
<1> QED
  BY Zenon, <1>1, <1>2 DEF Gone, WorkerDied, There

\* A step that sets no latch but the other's, and knows no more than before.
LEMMA StepsPlain ==
  ASSUME There, NEW x \in Sides, \E l : Moves(x, l), known' = known, nowait' = nowait,
         latch' = latch \/ SetLatch(Other(x)) \/ latch' = [latch EXCEPT ![Other(x)] = @ \/ known[x]],
         detached' = detached \/ detached' = TRUE
  PROVE  Steps(x)
<1>1. /\ latch' \in [Sides -> BOOLEAN] /\ (latch[Other(x)] => latch'[Other(x)])
      /\ latch'[x] = latch[x]
  <2>1. latch \in [Sides -> BOOLEAN] /\ known[x] \in BOOLEAN
    BY Zenon DEF There
  <2>2. Other(x) \in Sides /\ Other(x) # x
    BY Zenon, TwoSides
  <2> QED
    BY Zenon, <2>1, <2>2 DEF SetLatch
<1>2. known' \in [Sides -> BOOLEAN] /\ known'[Other(x)] = known[Other(x)]
  BY Zenon DEF There
<1>3. detached' \in BOOLEAN /\ (detached => detached')
  BY Zenon DEF There
<1> QED
  BY Zenon, <1>1, <1>2, <1>3 DEF Steps

\* The sender reads mq_bytes_read.
LEMMA LookReadHeeds == ASSUME RingSteps, Workers, There, LookRead PROVE Heeds("S")
<1>1. /\ pc["S"] = "look" /\ pc'["S"] = "act" /\ latch' = latch /\ detached' = detached /\ known' = known
      /\ gone' = gone /\ nowait' = nowait /\ bytesRead' = bytesRead /\ bytesWritten' = bytesWritten
      /\ seen' = [seen EXCEPT !["S"] = bytesRead]
  BY Zenon, GotoIs DEF LookRead, At, shm, Sides
<1>2. seen'["S"] = bytesRead /\ seen'["R"] = seen["R"]
  BY Zenon, <1>1 DEF RingSteps, Numbers, Sides
<1>3. Steps("S")
  BY Zenon, <1>1, MovesSender, StepsPlain DEF Sender, Sides
<1>4. Learns("S") /\ Arrives("S")
  BY Zenon, <1>1, HaveMet DEF Learns, Arrives, Unmet, Aware, Other
<1>5. Counts("S") /\ Leaves("S")
  BY Zenon, <1>1, <1>2 DEF Counts, Leaves, Settling, Putting
<1> QED
  BY Zenon, <1>3, <1>4, <1>5 DEF Heeds

\* The sender makes known what it has written, and says so.
LEMMA SendFullHeeds == ASSUME RingSteps, Workers, There, SendFull PROVE Heeds("S")
<1>1. /\ pc["S"] = "act" /\ pc'["S"] = "full" /\ latch' = latch /\ detached' = detached /\ known' = known
      /\ gone' = gone /\ nowait' = nowait /\ bytesRead' = bytesRead /\ seen' = seen /\ known["S"] /\ ~detached
  BY Zenon, GotoIs DEF SendFull, At, Sides
<1>2. Steps("S")
  BY Zenon, <1>1, MovesSender, StepsPlain DEF Sender, Sides
<1>3. worker' = worker /\ Leader' = Leader
  BY Zenon, <1>2, StepsFacts DEF Sides
<1>4. ~Gone("S")'
  <2>1. ~Gone("S")
    BY Zenon, <1>1, NotGone DEF Sides
  <2> QED
    BY Zenon, <1>1, <1>3, <2>1 DEF Gone, WorkerDied
<1>5. Learns("S") /\ Arrives("S")
  BY Zenon, <1>1, HaveMet DEF Learns, Arrives, Unmet, Aware, Other
<1>6. Counts("S")
  BY Zenon, <1>1 DEF Counts, LookedS, Putting
<1>7. Leaves("S")
  BY Zenon, <1>1, <1>4 DEF Leaves
<1> QED
  BY Zenon, <1>2, <1>5, <1>6, <1>7 DEF Heeds

\* shm_mq_send_bytes, ring full: SetLatch of the receiver, before the sender sleeps.
LEMMA FullLatchHeeds == ASSUME RingSteps, Workers, There, FullLatch PROVE Heeds("S")
<1>1. /\ pc["S"] = "full" /\ pc'["S"] = "wait" /\ SetLatch("R") /\ detached' = detached /\ known' = known
      /\ gone' = gone /\ nowait' = nowait /\ bytesRead' = bytesRead /\ bytesWritten' = bytesWritten /\ seen' = seen
  BY Zenon, GotoIs DEF FullLatch, At, shm, local, Sides
<1>2. Steps("S")
  <2>1. Other("S") = "R"
    BY Zenon DEF Other
  <2> QED
    BY Zenon, <1>1, <2>1, MovesSender, StepsPlain DEF Sender, Sides
<1>3. known["S"] /\ attached["R"]
  BY Zenon, <1>1, HaveMet DEF There
<1>4. latch'["R"]
  BY Zenon, <1>1 DEF SetLatch, There, Sides
<1>5. Learns("S")
  BY Zenon, <1>1, <1>3 DEF Learns, Aware, Other
<1>6. Arrives("S")
  BY Zenon, <1>1, <1>3 DEF Arrives, Unmet
<1>7. Counts("S")
  BY Zenon, <1>1, <1>4 DEF Counts, LookedS
<1>8. Leaves("S")
  BY Zenon, <1>1 DEF Leaves, Settling
<1> QED
  BY Zenon, <1>2, <1>5, <1>6, <1>7, <1>8 DEF Heeds

\* The sender looks whether somebody receives.
LEMMA LookReceiverHeeds == ASSUME RingSteps, Workers, There, LookReceiver PROVE Heeds("S")
<1>1. /\ pc["S"] = "receiver?" /\ latch' = latch /\ detached' = detached
      /\ known' = [known EXCEPT !["S"] = attached["R"]]
      /\ gone' = gone /\ nowait' = nowait /\ bytesRead' = bytesRead /\ bytesWritten' = bytesWritten /\ seen' = seen
  BY Zenon DEF LookReceiver, At, shm
<1>2. pc'["S"] \in {"flush", "idle"}
  <2>1. pc'["S"] = IF FlushNow THEN "flush" ELSE "idle"
    BY Zenon, GotoIs DEF LookReceiver, Sides
  <2> QED
    BY Zenon, <2>1
<1>3. known' \in [Sides -> BOOLEAN] /\ known'["S"] = attached["R"] /\ known'["R"] = known["R"]
  BY Zenon, <1>1 DEF There, Workers, Sides
<1>4. Steps("S")
  <2>1. Other("S") = "R"
    BY Zenon DEF Other
  <2>2. \E l : Moves("S", l)
    BY Zenon, MovesSender DEF Sender
  <2>3. /\ latch' \in [Sides -> BOOLEAN] /\ (latch["R"] => latch'["R"]) /\ latch'["S"] = latch["S"]
        /\ detached' \in BOOLEAN /\ (detached => detached')
    BY Zenon, <1>1 DEF There
  <2> QED
    BY Zenon, <1>1, <1>3, <2>1, <2>2, <2>3 DEF Steps
<1>5. Leader = "R" => attached["R"]
  BY Zenon DEF There
<1>6. Learns("S")
  BY Zenon, <1>2, <1>3, <1>5 DEF Learns, Aware, Other
<1>7. Arrives("S")
  BY Zenon, <1>1, <1>2 DEF Arrives, Unmet
<1>8. Counts("S")
  BY Zenon, <1>1, <1>2 DEF Counts, LookedS, Putting
<1>9. Leaves("S")
  BY Zenon, <1>1, <1>2 DEF Leaves, Settling
<1> QED
  BY Zenon, <1>4, <1>6, <1>7, <1>8, <1>9 DEF Heeds

\* shm_mq_sendv, at the end of the message: what is left unflushed is made visible.
LEMMA FlushHeeds == ASSUME RingSteps, Workers, There, Flush PROVE Heeds("S")
<1>1. /\ pc["S"] = "flush" /\ pc'["S"] = "flush_latch" /\ latch' = latch /\ detached' = detached
      /\ known' = known /\ gone' = gone /\ nowait' = nowait /\ bytesRead' = bytesRead /\ seen' = seen
  BY Zenon, GotoIs DEF Flush, At, Sides
<1>2. Steps("S")
  BY Zenon, <1>1, MovesSender, StepsPlain DEF Sender, Sides
<1>3. Leader = "R" => known["S"]
  BY Zenon, <1>1 DEF There
<1>4. Learns("S") /\ Arrives("S")
  BY Zenon, <1>1, <1>3, HaveMet DEF Learns, Arrives, Unmet, Aware, Other
<1>5. Counts("S") /\ Leaves("S")
  BY Zenon, <1>1 DEF Counts, Leaves, Settling, Putting, LookedS
<1> QED
  BY Zenon, <1>2, <1>4, <1>5 DEF Heeds

\* shm_mq_sendv: SetLatch of the receiver behind the last flush.
LEMMA FlushLatchHeeds == ASSUME RingSteps, Workers, There, FlushLatch PROVE Heeds("S")
<1>1. /\ pc["S"] = "flush_latch" /\ pc'["S"] = "idle" /\ latch' = [latch EXCEPT !["R"] = @ \/ known["S"]]
      /\ detached' = detached /\ known' = known
      /\ gone' = gone /\ nowait' = nowait /\ bytesRead' = bytesRead /\ bytesWritten' = bytesWritten /\ seen' = seen
  BY Zenon, GotoIs DEF FlushLatch, At, shm, local, Sides
<1>2. Steps("S")
  <2>1. Other("S") = "R"
    BY Zenon DEF Other
  <2> QED
    BY Zenon, <1>1, <2>1, MovesSender, StepsPlain DEF Sender, Sides
<1>3. Leader = "R" => latch'["R"]
  <2>1. Leader = "R" => known["S"]
    BY Zenon, <1>1 DEF There
  <2> QED
    BY Zenon, <1>1, <2>1 DEF There, Sides
<1>4. Learns("S") /\ Arrives("S")
  BY Zenon, <1>1, HaveMet DEF Learns, Arrives, Unmet, Aware, Other
<1>5. Counts("S") /\ Leaves("S")
  BY Zenon, <1>1, <1>3 DEF Counts, Leaves, Settling, LookedS
<1> QED
  BY Zenon, <1>2, <1>4, <1>5 DEF Heeds

\* shm_mq_detach: a sender makes known what it has written.
LEMMA DetachHeeds == ASSUME RingSteps, Workers, There, NEW x \in Sides, Detach(x) PROVE Heeds(x)
<1>1. /\ pc[x] \in {"idle", "wait"} /\ pc'[x] = "detach" /\ latch' = latch /\ detached' = detached
      /\ known' = known /\ gone' = gone /\ nowait' = nowait /\ bytesRead' = bytesRead /\ seen' = seen
  BY Zenon, GotoIs DEF Detach, At
<1>2. x = "R" => bytesWritten' = bytesWritten
  BY DEF Detach, RingSteps, Numbers
<1>3. Steps(x)
  <2>1. \E l : Moves(x, l)
    BY Zenon, MovesSender, MovesReceiver DEF Sides
  <2> QED
    BY Zenon, <1>1, <2>1, StepsPlain
<1>4. known[x] => attached[Other(x)]
  BY Zenon DEF There, Meets
<1>5. Learns(x) /\ Arrives(x)
  BY Zenon, <1>1, <1>4 DEF Learns, Arrives, Unmet, Aware, Reading
<1>6. Counts(x) /\ Leaves(x)
  BY Zenon, <1>1, <1>2 DEF Counts, Leaves, Settling, Putting, Giving, LookedS, LookedR
<1> QED
  BY Zenon, <1>3, <1>5, <1>6 DEF Heeds

\* The receiver gives back what it has consumed, and says so.
LEMMA ConsumeHeeds == ASSUME RingSteps, Workers, There, Consume PROVE Heeds("R")
<1>1. /\ pc["R"] = "consume" /\ latch' = latch /\ detached' = detached /\ known' = known
      /\ gone' = gone /\ nowait' = nowait /\ bytesWritten' = bytesWritten /\ seen' = seen
  BY Zenon DEF Consume, At
<1>2. pc'["R"] = "consume_latch" \/ (pc'["R"] = "look" /\ bytesRead' = bytesRead)
  BY Zenon, GotoIs DEF Consume, Sides
<1>3. Steps("R")
  BY Zenon, <1>1, MovesReceiver, StepsPlain DEF Receiver, Sides
<1>4. known["R"]
  <2>1. pc["R"] \in Reading
    BY Zenon, <1>1 DEF Reading
  <2> QED
    BY Zenon, <2>1 DEF There
<1>5. Learns("R") /\ Arrives("R")
  BY Zenon, <1>1, <1>2, <1>4, HaveMet DEF Learns, Arrives, Unmet, Aware, Other
<1>6. Counts("R") /\ Leaves("R")
  BY Zenon, <1>1, <1>2 DEF Counts, Leaves, Settling, Giving, LookedR
<1> QED
  BY Zenon, <1>3, <1>5, <1>6 DEF Heeds

\* shm_mq_inc_bytes_read: SetLatch of the sender behind the counter.
LEMMA ConsumeLatchHeeds ==
  ASSUME RingSteps, Workers, There,
         ConsumeLatch("consume_latch", "look") \/ ConsumeLatch("short_latch", "wait")
  PROVE  Heeds("R")
<1>1. /\ SetLatch("S") /\ detached' = detached /\ known' = known
      /\ gone' = gone /\ nowait' = nowait /\ bytesRead' = bytesRead /\ bytesWritten' = bytesWritten /\ seen' = seen
  BY Zenon DEF ConsumeLatch, shm, local
<1>2. \/ pc["R"] = "consume_latch" /\ pc'["R"] = "look"
      \/ pc["R"] = "short_latch" /\ pc'["R"] = "wait"
  BY Zenon, GotoIs DEF ConsumeLatch, At, Sides
<1>3. Steps("R")
  <2>1. Other("R") = "S"
    BY Zenon DEF Other
  <2> QED
    BY Zenon, <1>1, <2>1, MovesReceiver, StepsPlain DEF Receiver, Sides
<1>4. known["R"]
  <2>1. pc["R"] \in Reading
    BY Zenon, <1>2 DEF Reading
  <2> QED
    BY Zenon, <2>1 DEF There
<1>5. latch'["S"]
  BY Zenon, <1>1 DEF SetLatch, There, Sides
<1>6. Learns("R")
  BY Zenon, <1>1, <1>2, <1>4, HaveMet DEF Learns, Aware, Other
<1>7. Arrives("R")
  BY Zenon, <1>1, <1>2, <1>4 DEF Arrives, Unmet
<1>8. Counts("R")
  BY Zenon, <1>1, <1>2, <1>5 DEF Counts, LookedR
<1>9. Leaves("R")
  BY Zenon, <1>1, <1>2 DEF Leaves, Settling
<1> QED
  BY Zenon, <1>3, <1>6, <1>7, <1>8, <1>9 DEF Heeds

\* shm_mq_receive_bytes: before it waits it gives back what it has consumed.
LEMMA ShortHeeds == ASSUME RingSteps, Workers, There, Short PROVE Heeds("R")
<1>1. /\ pc["R"] = "short" /\ latch' = latch /\ detached' = detached /\ known' = known
      /\ gone' = gone /\ nowait' = nowait /\ bytesRead' = Read /\ bytesWritten' = bytesWritten /\ seen' = seen
  BY Zenon DEF Short, At
<1>2. pc'["R"] = "short_latch" \/ (pc'["R"] = "wait" /\ bytesRead' = bytesRead)
  <2>1. pc'["R"] = IF pending["R"] > 0 THEN "short_latch" ELSE "wait"
    BY Zenon, GotoIs DEF Short, Sides
  <2>2. bytesRead \in Nat /\ pending["R"] \in Nat
    BY Zenon DEF RingSteps, Numbers, Sides
  <2>3. pending["R"] > 0 \/ bytesRead' = bytesRead
    BY <1>1, <2>2 DEF Read
  <2> QED
    BY Zenon, <2>1, <2>3
<1>3. Steps("R")
  BY Zenon, <1>1, MovesReceiver, StepsPlain DEF Receiver, Sides
<1>4. known["R"]
  <2>1. pc["R"] \in Reading
    BY Zenon, <1>1 DEF Reading
  <2> QED
    BY Zenon, <2>1 DEF There
<1>5. Learns("R")
  BY Zenon, <1>1, <1>2, <1>4, HaveMet DEF Learns, Aware, Other
<1>6. Arrives("R")
  BY Zenon, <1>1, <1>2, <1>4 DEF Arrives, Unmet
<1>7. Counts("R")
  BY Zenon, <1>1, <1>2 DEF Counts, Giving, LookedR
<1>8. Leaves("R")
  BY Zenon, <1>1, <1>2 DEF Leaves, Settling
<1> QED
  BY Zenon, <1>3, <1>5, <1>6, <1>7, <1>8 DEF Heeds

\* The receiver reads mq_bytes_written.
LEMMA LookWrittenHeeds == ASSUME RingSteps, Workers, There, LookWritten PROVE Heeds("R")
<1>1. /\ pc["R"] = "look" /\ pc'["R"] = "act" /\ latch' = latch /\ detached' = detached /\ known' = known
      /\ gone' = gone /\ nowait' = nowait /\ bytesRead' = bytesRead /\ bytesWritten' = bytesWritten
      /\ seen' = [seen EXCEPT !["R"] = bytesWritten]
  BY Zenon, GotoIs DEF LookWritten, At, shm, Sides
<1>2. seen'["R"] = bytesWritten /\ seen'["S"] = seen["S"]
  BY Zenon, <1>1 DEF RingSteps, Numbers, Sides
<1>3. Steps("R")
  BY Zenon, <1>1, MovesReceiver, StepsPlain DEF Receiver, Sides
<1>4. known["R"]
  <2>1. pc["R"] \in Reading
    BY Zenon, <1>1 DEF Reading
  <2> QED
    BY Zenon, <2>1 DEF There
<1>5. Learns("R") /\ Arrives("R")
  BY Zenon, <1>1, <1>4, HaveMet DEF Learns, Arrives, Unmet, Aware, Other
<1>6. Counts("R") /\ Leaves("R")
  BY Zenon, <1>1, <1>2 DEF Counts, Leaves, Settling, Giving
<1> QED
  BY Zenon, <1>3, <1>5, <1>6 DEF Heeds

\* The latch was set, and is reset.
LEMMA WaitHeeds == ASSUME RingSteps, Workers, There, NEW x \in Sides, Wait(x) PROVE Heeds(x)
<1>1. /\ pc[x] \in {"wait", "wait_attach"} /\ latch' = [latch EXCEPT ![x] = FALSE]
      /\ detached' = detached /\ known' = known
      /\ gone' = gone /\ nowait' = nowait /\ bytesRead' = bytesRead /\ bytesWritten' = bytesWritten /\ seen' = seen
  BY Zenon DEF Wait, shm, local
<1>2. PICK l : /\ pc'[x] = l
               /\ l = CASE nowait[x] /\ x = "R" -> "start"
                        [] ~ nowait[x] /\ At(x, "wait_attach") -> "attached?"
                        [] OTHER -> "look"
  BY Zenon, GotoIs DEF Wait
<1>3. pc'[x] \in {"start", "attached?", "look"}
  BY Zenon, <1>2
<1>4. x = "R" /\ pc'[x] = "look" => pc[x] = "wait" /\ ~nowait[x]
  BY Zenon, <1>1, <1>2 DEF At
<1>5. Steps(x)
  <2>1. latch' \in [Sides -> BOOLEAN] /\ (latch[Other(x)] => latch'[Other(x)])
    BY Zenon, <1>1, TwoSides DEF There
  <2>2. \E m : Moves(x, m)
    BY Zenon, MovesWaiting DEF Waiting
  <2>3. /\ known' \in [Sides -> BOOLEAN] /\ known'[Other(x)] = known[Other(x)]
        /\ detached' \in BOOLEAN /\ (detached => detached')
    BY Zenon, <1>1 DEF There
  <2> QED
    BY Zenon, <1>1, <1>3, <2>1, <2>2, <2>3 DEF Steps
<1>6. known[x] => attached[Other(x)]
  BY Zenon DEF There, Meets
<1>7. x = "R" /\ pc'[x] = "look" => known["R"]
  BY Zenon, <1>4 DEF There
<1>8. Learns(x)
  BY Zenon, <1>1, <1>3, <1>6, <1>7 DEF Learns, Aware, Reading
<1>9. Arrives(x)
  BY Zenon, <1>1, <1>3 DEF Arrives, Unmet
<1>10. Counts(x)
  BY Zenon, <1>1, <1>3 DEF Counts, LookedS, LookedR, Putting, Giving
<1>11. Leaves(x)
  BY Zenon, <1>1, <1>3 DEF Leaves, Settling
<1> QED
  BY Zenon, <1>5, <1>8, <1>9, <1>10, <1>11 DEF Heeds

\* A side that looked for the other in vain sets mq_detached.
LEMMA FailedAttachHeeds ==
  ASSUME RingSteps, Workers, There, NEW x \in Sides, FailedAttach(x)
  PROVE  Heeds(x)
<1>1. /\ pc[x] = "failed_attach" /\ latch' = latch /\ known' = known
      /\ gone' = gone /\ nowait' = nowait /\ bytesRead' = bytesRead /\ bytesWritten' = bytesWritten
      /\ seen' = seen
  BY Zenon DEF FailedAttach, At, local
<1>2. \/ x = "R" /\ attached["S"] /\ pc'[x] = "know" /\ detached' = detached
      \/ pc'[x] = "detached" /\ detached' = TRUE
  BY Zenon, GotoIs DEF FailedAttach, EndDetached
<1>3. Gone(x)
  BY Zenon, <1>1 DEF There, Meets
<1>4. Steps(x)
  <2>1. \E m : Moves(x, m)
    BY Zenon, MovesWaiting DEF Waiting
  <2>2. detached' = detached \/ detached' = TRUE
    BY Zenon, <1>2
  <2> QED
    BY Zenon, <1>1, <2>1, <2>2, StepsPlain
<1>5. known[x] => attached[Other(x)]
  BY Zenon DEF There, Meets
<1>6. x = "R" => Other(x) = "S"
  BY Zenon DEF Other
<1>7. Learns(x)
  BY Zenon, <1>1, <1>2, <1>5, <1>6 DEF Learns, Aware, Reading
<1>8. Arrives(x)
  BY Zenon, <1>1, <1>2 DEF Arrives, Unmet
<1>9. Counts(x)
  BY Zenon, <1>1, <1>2 DEF Counts, LookedS, LookedR, Putting, Giving
<1>10. Leaves(x)
  BY Zenon, <1>1, <1>2, <1>3 DEF Leaves, Settling, Gone, WorkerDied
<1> QED
  BY Zenon, <1>4, <1>7, <1>8, <1>9, <1>10 DEF Heeds

\* mqh_counterparty_attached is set.
LEMMA KnowHeeds == ASSUME RingSteps, Workers, There, NEW x \in Sides, Know(x) PROVE Heeds(x)
<1>1. /\ pc[x] = "know" /\ latch' = latch /\ detached' = detached
      /\ known' = [known EXCEPT ![x] = TRUE]
      /\ gone' = gone /\ nowait' = nowait /\ bytesRead' = bytesRead /\ bytesWritten' = bytesWritten
      /\ seen' = seen
  BY Zenon DEF Know, At, shm
<1>2. pc'[x] = IF x = "S" THEN "look" ELSE "consume"
  BY Zenon, GotoIs DEF Know, Known
<1>3. attached[Other(x)]
  <2>1. pc[x] \in Aware
    BY Zenon, <1>1 DEF Aware
  <2> QED
    BY Zenon, <2>1 DEF There, Meets
<1>4. known' \in [Sides -> BOOLEAN] /\ known'[Other(x)] = known[Other(x)] /\ known'[x]
  BY Zenon, <1>1, TwoSides DEF There
<1>5. Steps(x)
  <2>1. \E m : Moves(x, m)
    BY Zenon, MovesWaiting DEF Waiting
  <2>2. /\ latch' \in [Sides -> BOOLEAN] /\ (latch[Other(x)] => latch'[Other(x)])
        /\ latch'[x] = latch[x]
        /\ detached' \in BOOLEAN /\ (detached => detached')
    BY Zenon, <1>1 DEF There
  <2> QED
    BY Zenon, <1>1, <1>4, <2>1, <2>2 DEF Steps
<1>6. Learns(x)
  BY Zenon, <1>2, <1>3, <1>4 DEF Learns, Sides
<1>7. Arrives(x)
  BY Zenon, <1>1, <1>2 DEF Arrives, Unmet
<1>8. Counts(x)
  BY Zenon, <1>1, <1>2 DEF Counts, LookedS, LookedR, Putting, Giving
<1>9. Leaves(x)
  BY Zenon, <1>1, <1>2 DEF Leaves, Settling
<1> QED
  BY Zenon, <1>5, <1>6, <1>7, <1>8, <1>9 DEF Heeds

\* shm_mq_counterparty_gone sets mq_detached.
LEMMA CounterpartyGoneHeeds ==
  ASSUME RingSteps, Workers, There, NEW x \in Sides, CounterpartyGone(x)
  PROVE  Heeds(x)
<1>1. /\ pc[x] = "gone?" /\ latch' = latch /\ known' = known
      /\ nowait' = nowait /\ bytesRead' = bytesRead /\ bytesWritten' = bytesWritten
      /\ seen' = seen
  BY Zenon DEF CounterpartyGone, WorkerDied, At
<1>2. detached' = Gone(x)
  BY Zenon DEF CounterpartyGone, Gone, WorkerDied
<1>3. \/ x = "S" /\ pc'[x] = "detached" /\ gone' = gone
      \/ pc'[x] = "attached_nowait?" /\ x = "R" /\ gone' = Gone(x)
      \/ pc'[x] = "attached_nowait?" /\ x = "S" /\ gone' = gone /\ ~Gone(x)
  <2>1. \/ x = "S" /\ Gone(x) /\ Goto(x, "detached") /\ gone' = gone
        \/ /\ ~(x = "S" /\ Gone(x)) /\ Goto(x, "attached_nowait?")
           /\ gone' = (IF x = "R" THEN Gone(x) ELSE gone)
    BY Zenon DEF CounterpartyGone, EndDetached, Gone, WorkerDied
  <2>2. CASE x = "S"
    <3>1. x # "R"
      BY Zenon, <2>2
    <3> QED
      BY Zenon, <2>1, <2>2, <3>1, GotoIs
  <2>3. CASE x = "R"
    <3>1. x # "S"
      BY Zenon, <2>3
    <3> QED
      BY Zenon, <2>1, <2>3, <3>1, GotoIs
  <2> QED
    BY Zenon, <2>2, <2>3 DEF Sides
<1>4. detached' \in BOOLEAN /\ (detached => detached')
  BY Zenon, <1>2 DEF Gone, WorkerDied, There
<1>5. Steps(x)
  <2>1. \E m : Moves(x, m)
    BY Zenon, MovesWaiting DEF Waiting
  <2>2. /\ latch' \in [Sides -> BOOLEAN] /\ (latch[Other(x)] => latch'[Other(x)])
        /\ latch'[x] = latch[x]
        /\ known' \in [Sides -> BOOLEAN] /\ known'[Other(x)] = known[Other(x)]
    BY Zenon, <1>1 DEF There
  <2> QED
    BY Zenon, <1>1, <1>4, <2>1, <2>2 DEF Steps
<1>6. worker' = worker /\ Leader' = Leader
  BY Zenon, <1>5, StepsFacts
<1>7. known[x] => attached[Other(x)]
  BY Zenon DEF There, Meets
<1>8. x = "R" => nowait["R"]
  BY Zenon, <1>1 DEF There
<1>9. Learns(x)
  BY Zenon, <1>1, <1>3, <1>7, <1>8 DEF Learns, Aware, Reading
<1>10. Arrives(x)
  BY Zenon, <1>1, <1>3 DEF Arrives, Unmet
<1>11. Counts(x)
  BY Zenon, <1>1, <1>3 DEF Counts, LookedS, LookedR, Putting, Giving
<1>12. Leaves(x)
  <2>1. x = "S" => gone' = gone
    BY Zenon, <1>3
  <2>2. detached' => Gone(x)
    BY Zenon, <1>2
  <2>3. Settling(x)' => ~Gone(x)
    BY Zenon, <1>3 DEF Settling
  <2>4. ~Gone(x) => ~Gone(x)'
    BY Zenon, <1>2, <1>6 DEF Gone, WorkerDied
  <2> QED
    BY Zenon, <2>1, <2>2, <2>3, <2>4 DEF Leaves, Gone, WorkerDied
<1> QED
  BY Zenon, <1>5, <1>9, <1>10, <1>11, <1>12 DEF Heeds

\* The worker that has attached says so.
LEMMA NotifyAttachHeeds ==
  ASSUME RingSteps, Workers, There, NEW x \in Sides, NotifyAttach(x)
  PROVE  Heeds(x)
<1>1. /\ pc[x] = "notify_attach" /\ pc'[x] = "idle" /\ SetLatch(Other(x)) /\ known' = known
      /\ detached' = detached /\ gone' = gone
      /\ nowait' = nowait /\ bytesRead' = bytesRead /\ bytesWritten' = bytesWritten /\ seen' = seen
  BY Zenon, GotoIs DEF NotifyAttach, At, shm, local
<1>2. Steps(x)
  BY Zenon, <1>1, MovesWaiting, StepsPlain
<1>3. known[x] => attached[Other(x)]
  BY Zenon DEF There, Meets
<1>4. latch'[Other(x)]
  BY Zenon, <1>1, TwoSides DEF SetLatch, There
<1>5. Learns(x)
  BY Zenon, <1>1, <1>3 DEF Learns, Aware, Reading
<1>6. Arrives(x)
  BY Zenon, <1>1, <1>4 DEF Arrives, Unmet
<1>7. Counts(x)
  BY Zenon, <1>1 DEF Counts, LookedS, LookedR, Putting, Giving
<1>8. Leaves(x)
  BY Zenon, <1>1 DEF Leaves, Settling
<1> QED
  BY Zenon, <1>2, <1>5, <1>6, <1>7, <1>8 DEF Heeds

\* shm_mq_detach_internal sets mq_detached.
LEMMA DetachInternalHeeds ==
  ASSUME RingSteps, Workers, There, NEW x \in Sides, DetachInternal(x)
  PROVE  Heeds(x)
<1>1. /\ pc[x] = "detach" /\ latch' = latch /\ known' = known
      /\ pc'[x] = "notify_detach" \/ (pc'[x] = "end" /\ ~attached[Other(x)])
      /\ detached' = TRUE /\ gone' = gone
      /\ nowait' = nowait /\ bytesRead' = bytesRead /\ bytesWritten' = bytesWritten /\ seen' = seen
  BY Zenon, GotoIs DEF DetachInternal, At, local
<1>2. Steps(x)
  BY Zenon, <1>1, MovesWaiting, StepsPlain
<1>3. known[x] => attached[Other(x)]
  BY Zenon DEF There, Meets
<1>4. Learns(x)
  BY Zenon, <1>1, <1>3 DEF Learns, Aware, Reading
<1>5. Arrives(x)
  BY Zenon, <1>1 DEF Arrives, Unmet
<1>6. Counts(x)
  <2>1. x = "S" /\ Leader = "R" => attached[Other(x)]
    BY Zenon DEF There, Other
  <2> QED
    BY Zenon, <1>1, <2>1 DEF Counts, LookedS, LookedR, Putting, Giving
<1>7. Leaves(x)
  BY Zenon, <1>1 DEF Leaves, Settling
<1> QED
  BY Zenon, <1>2, <1>4, <1>5, <1>6, <1>7 DEF Heeds

\* The steps of x outside the queue: it attaches, is found not to start, or has said that it leaves.
Turns(x) ==
  /\ pc[x] \in {"none", "notify_detach"} /\ pc'[x] \in {"notify_attach", "end"}
  /\ pc'[Other(x)] = pc[Other(x)]
  /\ UNCHANGED <<detached, known, nowait, gone, seen, bytesRead, bytesWritten>>
  /\ latch' \in [Sides -> BOOLEAN] /\ (latch[Other(x)] => latch'[Other(x)])
  /\ attached'[Other(x)] = attached[Other(x)] /\ (attached[x] => attached'[x])
  /\ attached'[x] => attached[x] \/ pc'[x] = "notify_attach"
  /\ ~attached'[x] => pc'[x] = "end"
  /\ Leader' = Leader /\ (worker'.status = "stopped" /\ attached'[worker'.side] => detached)
  /\ worker'.handle = worker.handle /\ (worker.status = "stopped" => worker'.status = "stopped")
  /\ worker'.status = "stopped" => worker.status = "stopped" \/ latch'[Other(x)]
  /\ pc[x] = "notify_detach" => latch'[Other(x)] \/ ~attached[Other(x)]

\* Such a step leaves no sleeper behind either.
LEMMA TurnsNews ==
  ASSUME RingSteps, Workers, News, NEW x \in Sides, Turns(x)
  PROVE  News'
<1> DEFINE y == Other(x)
<1>1. y \in Sides /\ y # x /\ Other(y) = x /\ \A z \in Sides : z = x \/ z = y
  BY Zenon, TwoSides
<1>2. /\ detached' = detached /\ known' = known /\ nowait' = nowait /\ gone' = gone /\ seen' = seen
      /\ bytesRead' = bytesRead /\ bytesWritten' = bytesWritten
  BY Zenon DEF Turns
<1>3. /\ pc[x] \in {"none", "notify_detach"} /\ pc'[x] \in {"notify_attach", "end"}
      /\ pc'[y] = pc[y] /\ latch' \in [Sides -> BOOLEAN] /\ (latch[y] => latch'[y])
      /\ attached'[y] = attached[y] /\ (attached[x] => attached'[x])
      /\ attached'[x] => attached[x] \/ pc'[x] = "notify_attach"
      /\ ~attached'[x] => pc'[x] = "end"
      /\ Leader' = Leader /\ (worker'.status = "stopped" /\ attached'[worker'.side] => detached)
      /\ worker'.handle = worker.handle /\ (worker.status = "stopped" => worker'.status = "stopped")
      /\ worker'.status = "stopped" => worker.status = "stopped" \/ latch'[y]
      /\ pc[x] = "notify_detach" => latch'[y] \/ ~attached[y]
  BY Zenon DEF Turns
<1>4. \A z \in Sides : ~attached'[z] => ~attached[z]
  BY Zenon, <1>1, <1>3
<1>5. Other(x) = y
  BY Zenon DEF y
<1> HIDE DEF y
<1>6. /\ pc'[x] \notin Aware /\ pc'[x] \notin Reading /\ pc'[x] \notin LookedS /\ pc'[x] \notin LookedR
      /\ pc[x] \notin Giving /\ (pc[x] \in Putting => pc[x] = "notify_detach")
      /\ pc'[x] \notin {"full", "flush", "flush_latch", "wait", "gone?", "attached_nowait?", "none",
                        "notify_detach", "failed_attach"}
  BY Zenon, <1>3 DEF Aware, Reading, LookedS, LookedR, Giving, Putting
<1>7. ~attached[y] => pc[y] \in {"none", "end"}
  BY Zenon, <1>1 DEF News, There, Meets
<1>8. There'
  <2>1. attached'[Leader]
    <3>1. Leader \in Sides /\ attached[Leader]
      BY Zenon DEF News, There, Leader, Other, Sides
    <3> QED
      BY Zenon, <1>4, <3>1
  <2>2. Meets(x)'
    <3>1. known[x] => attached[y]
      BY Zenon, <1>5 DEF News, There, Meets
    <3>2. known'[x] => attached'[Other(x)]
      BY Zenon, <1>2, <1>3, <1>5, <3>1
    <3> QED
      BY Zenon, <1>3, <1>6, <3>2 DEF Meets
  <2>3. Meets(y)'
    <3>1. Meets(y)
      BY Zenon, <1>1 DEF News, There
    <3>2. Gone(y) => Gone(y)'
      BY Zenon, <1>2, <1>3 DEF Gone, WorkerDied
    <3>3. attached[Other(y)] => attached'[Other(y)]
      BY Zenon, <1>1, <1>3
    <3>4. /\ pc'[y] = "none" => ~attached'[y]
          /\ ~attached'[y] => pc'[y] \in {"none", "end"}
          /\ known'[y] \/ pc'[y] \in Aware => attached'[Other(y)]
          /\ pc'[y] = "notify_detach" => detached'
      BY Zenon, <1>2, <1>3, <3>1, <3>3 DEF Meets
    <3> QED
      BY Zenon, <1>3, <3>1, <3>2, <3>4 DEF Meets
  <2>4. \A z \in Sides : Meets(z)'
    BY Zenon, <1>1, <2>2, <2>3
  <2>5. ~attached'["R"] => bytesRead' = 0
    <3>1. ~attached'["R"] => ~attached["R"]
      BY Zenon, <1>4 DEF Sides
    <3> QED
      BY Zenon, <1>2, <3>1 DEF News, There
  <2>6. /\ known' \in [Sides -> BOOLEAN] /\ detached' \in BOOLEAN
        /\ worker'.status = "stopped" /\ attached'[worker'.side] => detached'
    BY Zenon, <1>2, <1>3 DEF News, There
  <2>7. CASE x = "S"
    <3>1. y = "R"
      BY Zenon, <2>7 DEF y, Other
    <3>2. /\ pc'["R"] \in Reading => known'["R"]
          /\ pc'["R"] = "wait" => known'["R"] \/ nowait'["R"]
          /\ pc'["R"] \in {"gone?", "attached_nowait?"} => nowait'["R"]
      BY Zenon, <1>2, <1>3, <3>1 DEF News, There
    <3>3. pc'["S"] # "full" /\ pc'["S"] \notin {"flush", "flush_latch"}
      BY Zenon, <1>6, <2>7
    <3> QED
      BY Zenon, <1>3, <2>1, <2>4, <2>5, <2>6, <3>2, <3>3 DEF There
  <2>8. CASE x = "R"
    <3>1. y = "S"
      BY Zenon, <2>8 DEF y, Other
    <3>2. /\ pc'["S"] = "full" => known'["S"]
          /\ Leader' = "R" /\ pc'["S"] \in {"flush", "flush_latch"} => known'["S"]
      BY Zenon, <1>2, <1>3, <3>1 DEF News, There
    <3>3. pc'["R"] \notin Reading /\ pc'["R"] # "wait" /\ pc'["R"] \notin {"gone?", "attached_nowait?"}
      BY Zenon, <1>6, <2>8
    <3> QED
      BY Zenon, <1>3, <2>1, <2>4, <2>5, <2>6, <3>2, <3>3 DEF There
  <2> QED
    BY Zenon, <2>7, <2>8 DEF Sides
<1>9. CountersSeen'
  <2>1. CASE x = "S"
    <3>1. y = "R"
      BY Zenon, <2>1 DEF y, Other
    <3>2. pc["R"] \in LookedR => attached["R"]
      <4>1. pc["R"] \in LookedR => pc["R"] \notin {"none", "end"}
        BY Zenon DEF LookedR
      <4> QED
        BY Zenon, <1>7, <3>1, <4>1
    <3>3. Leader' = "R" /\ pc'["R"] \in LookedR =>
            seen'["R"] = bytesWritten' \/ latch'["R"] \/ pc'["S"] \in Putting
      BY Zenon, <1>2, <1>3, <1>6, <2>1, <3>1, <3>2 DEF News, CountersSeen
    <3> QED
      BY Zenon, <1>6, <2>1, <3>3 DEF CountersSeen
  <2>2. CASE x = "R"
    <3>1. y = "S"
      BY Zenon, <2>2 DEF y, Other
    <3>2. pc'["S"] \in LookedS => seen'["S"] = bytesRead' \/ latch'["S"] \/ pc'["R"] \in Giving
      BY Zenon, <1>2, <1>3, <1>6, <2>2, <3>1 DEF News, CountersSeen
    <3> QED
      BY Zenon, <1>6, <2>2, <3>2 DEF CountersSeen
  <2> QED
    BY Zenon, <2>1, <2>2 DEF Sides
<1>10. EndSeen'
  <2>1. ~Settling(x)'
    BY Zenon, <1>3 DEF Settling
  <2>2. Settling(y)' => Settling(y)
    BY Zenon, <1>2, <1>3 DEF Settling
  <2>3. Settling(y) => attached[y]
    <3>1. Settling(y) => pc[y] \notin {"none", "end"}
      BY Zenon DEF Settling
    <3> QED
      BY Zenon, <1>7, <3>1
  <2>4. Gone(y)' => Gone(y) \/ latch'[y]
    BY Zenon, <1>2, <1>3 DEF Gone, WorkerDied
  <2>5. Settling(y) => latch[y] \/ pc[x] = "notify_detach" \/ ~Gone(y)
    BY Zenon, <1>1 DEF News, EndSeen
  <2>6. Settling(y)' => latch'[y] \/ pc'[x] = "notify_detach" \/ ~Gone(y)'
    BY Zenon, <1>3, <2>2, <2>3, <2>4, <2>5
  <2> QED
    BY Zenon, <1>1, <2>1, <2>6 DEF EndSeen
<1>11. StartSeen'
  <2>1. ~Unmet(x)'
    BY Zenon, <1>3 DEF Unmet
  <2>2. Unmet(y)' => Unmet(y)
    BY Zenon, <1>2, <1>3 DEF Unmet
  <2>3. Unmet(y) => ~attached[x] \/ latch[y]
    <3>1. pc[x] # "notify_attach"
      BY Zenon, <1>3
    <3> QED
      BY Zenon, <1>1, <3>1 DEF News, StartSeen
  <2>4. Unmet(y)' => ~attached'[x] \/ latch'[y] \/ pc'[x] = "notify_attach"
    BY Zenon, <1>3, <2>2, <2>3
  <2> QED
    BY Zenon, <1>1, <2>1, <2>4 DEF StartSeen
<1> QED
  BY Zenon, <1>8, <1>9, <1>10, <1>11 DEF News

\* shm_mq_set_sender and shm_mq_set_receiver under the mutex.
LEMMA AttachTurns == ASSUME RingSteps, Workers, There, NEW x \in Sides, Attach(x) PROVE Turns(x)
<1>1. /\ pc[x] = "none" /\ pc' = [pc EXCEPT ![x] = "notify_attach"] /\ latch' = latch
      /\ worker.status = "not_yet_started" /\ worker' = [worker EXCEPT !.status = "started"]
      /\ attached' = [attached EXCEPT ![x] = TRUE]
  BY Zenon DEF Attach, At, Goto
<1>2. UNCHANGED <<detached, known, nowait, gone, seen, bytesRead, bytesWritten>>
  BY Zenon DEF Attach, local
<1>3. pc'[x] = "notify_attach" /\ pc'[Other(x)] = pc[Other(x)]
  BY Zenon, <1>1, TwoSides DEF RingSteps, Numbers
<1>4. /\ worker'.side = worker.side /\ worker'.status # "stopped" /\ worker.status # "stopped"
      /\ worker'.handle = worker.handle /\ Leader' = Leader
  BY Zenon, <1>1 DEF Workers, Leader
<1>5. attached'[x] /\ attached'[Other(x)] = attached[Other(x)]
  BY Zenon, <1>1, TwoSides DEF Workers
<1>6. latch' \in [Sides -> BOOLEAN] /\ (latch[Other(x)] => latch'[Other(x)])
  BY Zenon, <1>1 DEF There
<1>7. pc[x] # "notify_detach"
  BY Zenon, <1>1
<1> QED
  BY Zenon, <1>1, <1>2, <1>3, <1>4, <1>5, <1>6, <1>7 DEF Turns

\* The postmaster finds that the worker is not going to run, and tells its registrant.
LEMMA NeverStartsTurns == ASSUME RingSteps, Workers, There, NEW x \in Sides, NeverStarts(x) PROVE Turns(x)
<1>1. /\ pc[x] = "none" /\ pc' = [pc EXCEPT ![x] = "end"] /\ SetLatch(Leader)
      /\ worker' = [worker EXCEPT !.status = "stopped"] /\ attached' = attached
  BY Zenon DEF NeverStarts, At, Goto, shm
<1>2. UNCHANGED <<detached, known, nowait, gone, seen, bytesRead, bytesWritten>>
  BY Zenon DEF NeverStarts, shm, local
<1>3. pc'[x] = "end" /\ pc'[Other(x)] = pc[Other(x)]
  BY Zenon, <1>1, TwoSides DEF RingSteps, Numbers
<1>4. worker.side = x
  BY Zenon, <1>1 DEF Workers
<1>5. /\ worker'.side = worker.side /\ worker'.handle = worker.handle /\ worker'.status = "stopped"
      /\ Leader' = Leader /\ Leader = Other(x)
  BY Zenon, <1>1, <1>4 DEF Workers, Leader
<1>6. ~attached[x]
  BY Zenon, <1>1 DEF There, Meets
<1>7. latch' \in [Sides -> BOOLEAN] /\ latch'[Other(x)]
  BY Zenon, <1>1, <1>5, TwoSides DEF There, SetLatch
<1>8. attached'[Other(x)] = attached[Other(x)] /\ ~attached'[x] /\ ~attached'[worker'.side]
  BY Zenon, <1>1, <1>4, <1>5, <1>6
<1> QED
  BY Zenon, <1>1, <1>2, <1>3, <1>5, <1>6, <1>7, <1>8 DEF Turns

\* shm_mq_detach_internal: SetLatch of the other side.
LEMMA NotifyDetachTurns == ASSUME RingSteps, Workers, There, NEW x \in Sides, NotifyDetach(x) PROVE Turns(x)
<1>1. /\ pc[x] = "notify_detach" /\ pc' = [pc EXCEPT ![x] = "end"] /\ attached' = attached
      /\ SetLatch(Other(x))
      /\ worker' = IF x = Leader THEN worker ELSE [worker EXCEPT !.status = "stopped"]
  BY Zenon DEF NotifyDetach, At, Goto, shm
<1>2. UNCHANGED <<detached, known, nowait, gone, seen, bytesRead, bytesWritten>>
  BY Zenon DEF NotifyDetach, shm, local
<1>3. pc'[x] = "end" /\ pc'[Other(x)] = pc[Other(x)]
  BY Zenon, <1>1, TwoSides DEF RingSteps, Numbers
<1>4. /\ worker'.side = worker.side /\ worker'.handle = worker.handle /\ Leader' = Leader
      /\ worker.status = "stopped" => worker'.status = "stopped"
      /\ x = Leader => worker'.status = worker.status
  BY Zenon, <1>1 DEF Workers, Leader
<1>5. detached
  BY Zenon, <1>1 DEF There, Meets
<1>6. latch' \in [Sides -> BOOLEAN] /\ latch'[Other(x)]
  BY Zenon, <1>1, TwoSides DEF There, SetLatch
<1>8. attached'[Other(x)] = attached[Other(x)] /\ (attached[x] <=> attached'[x])
  BY Zenon, <1>1
<1> QED
  BY Zenon, <1>1, <1>2, <1>3, <1>4, <1>5, <1>6, <1>8 DEF Turns

\* All this holds at the beginning ...
LEMMA NewsInit == Init => News
<1> SUFFICES ASSUME Init PROVE News
  BY Zenon
<1>1. /\ \A x \in Sides : pc[x] = IF x = Leader THEN "idle" ELSE "none"
      /\ \A x \in Sides : attached[x] = (x = Leader) /\ ~known[x]
      /\ latch \in [Sides -> BOOLEAN] /\ known \in [Sides -> BOOLEAN] /\ detached = FALSE
      /\ bytesRead = 0
  BY Zenon DEF Init
<1>2. worker.status = "not_yet_started" /\ worker.side \in Sides
  BY Zenon, ShmMqAssumption DEF Init, Other, Sides
<1>3. Leader \in Sides
  BY Zenon DEF Leader, Other, Sides
<1>4. \A x \in Sides : pc[x] \in {"idle", "none"} /\ (pc[x] = "none" <=> ~attached[x])
  BY Zenon, <1>1, <1>3
<1>5. \A x \in Sides : Meets(x)
  BY Zenon, <1>1, <1>4 DEF Meets, Aware
<1>6. attached[Leader]
  BY Zenon, <1>1, <1>3
<1>7. pc["S"] \in {"idle", "none"} /\ pc["R"] \in {"idle", "none"}
  BY Zenon, <1>4 DEF Sides
<1>8. There
  <2>1. /\ pc["S"] # "full" /\ pc["S"] \notin {"flush", "flush_latch"} /\ pc["R"] \notin Reading
        /\ pc["R"] # "wait" /\ pc["R"] \notin {"gone?", "attached_nowait?"}
    BY Zenon, <1>7 DEF Reading
  <2>2. worker.status # "stopped" /\ detached \in BOOLEAN
    BY Zenon, <1>1, <1>2
  <2> QED
    BY Zenon, <1>1, <1>5, <1>6, <2>1, <2>2 DEF There
<1>9. CountersSeen
  BY Zenon, <1>7 DEF CountersSeen, LookedS, LookedR
<1>10. EndSeen
  BY Zenon, <1>4 DEF EndSeen, Settling
<1>11. StartSeen
  BY Zenon, <1>4 DEF StartSeen, Unmet
<1> QED
  BY Zenon, <1>8, <1>9, <1>10, <1>11 DEF News

\* ... and every step keeps it.
LEMMA NewsNext == RingSteps /\ Workers /\ News /\ [Next]_vars => News'
<1> SUFFICES ASSUME RingSteps, Workers, News, [Next]_vars PROVE News'
  BY Zenon
<1>0. There
  BY Zenon DEF News
<1>1. CASE UNCHANGED vars
  <2>1. /\ pc' = pc /\ latch' = latch /\ known' = known /\ detached' = detached /\ attached' = attached
        /\ worker' = worker /\ gone' = gone /\ nowait' = nowait /\ seen' = seen
        /\ bytesRead' = bytesRead /\ bytesWritten' = bytesWritten
    BY Zenon, <1>1 DEF vars, shm, local
  <2>2. Leader' = Leader
    BY Zenon, <2>1 DEF Leader
  <2>3. There'
    BY Zenon, <2>1, <2>2 DEF News, There, Meets, Gone, WorkerDied
  <2>4. CountersSeen'
    BY Zenon, <2>1, <2>2 DEF News, CountersSeen
  <2>5. EndSeen'
    BY Zenon, <2>1, <2>2 DEF News, EndSeen, Settling, Gone, WorkerDied
  <2>6. StartSeen'
    BY Zenon, <2>1, <2>2 DEF News, StartSeen, Unmet
  <2> QED
    BY Zenon, <2>3, <2>4, <2>5, <2>6 DEF News
<1>2. CASE Sender \/ \E f \in Flushes : Send(f)
  <2>1. ASSUME SendDetached \/ SendUnknown \/ SendChunk \/ Sent \/ (\E f \in Flushes : Send(f)) PROVE Heeds("S")
    BY Zenon, <1>0, <2>1, SenderLooks, LooksHeeds DEF Sides
  <2>2. ASSUME LookRead \/ SendFull \/ FullLatch PROVE Heeds("S")
    BY Zenon, <1>0, <2>2, LookReadHeeds, SendFullHeeds, FullLatchHeeds
  <2>3. ASSUME LookReceiver \/ Flush \/ FlushLatch PROVE Heeds("S")
    BY Zenon, <1>0, <2>3, LookReceiverHeeds, FlushHeeds, FlushLatchHeeds
  <2>4. Heeds("S")
    BY Zenon, <1>2, <2>1, <2>2, <2>3 DEF Sender
  <2> QED
    BY Zenon, <2>4, NewsSteps DEF Sides
<1>3. CASE Receiver
  <2>1. ASSUME Receive \/ ReceiveWord \/ ReceivePart \/ ReceiveShort \/ Again PROVE Heeds("R")
    BY Zenon, <1>0, <2>1, ReceiverLooks, LooksHeeds DEF Sides
  <2>2. ASSUME Consume \/ LookWritten \/ Short PROVE Heeds("R")
    BY Zenon, <1>0, <2>2, ConsumeHeeds, LookWrittenHeeds, ShortHeeds
  <2>3. ASSUME ConsumeLatch("consume_latch", "look") \/ ConsumeLatch("short_latch", "wait") PROVE Heeds("R")
    BY Zenon, <1>0, <2>3, ConsumeLatchHeeds
  <2>4. Heeds("R")
    BY Zenon, <1>3, <2>1, <2>2, <2>3 DEF Receiver
  <2> QED
    BY Zenon, <2>4, NewsSteps DEF Sides
<1>4. ASSUME NEW x \in Sides, Waiting(x) \/ NotifyAttach(x) \/ Detach(x) \/ Abort(x) \/ DetachInternal(x)
      PROVE  News'
  <2>1. ASSUME CheckAttached(x) \/ CheckDetached(x) \/ AttachedNowait(x) \/ Abort(x) PROVE Heeds(x)
    BY Zenon, <1>0, <2>1, WaitingLooks, LooksHeeds
  <2>2. ASSUME Wait(x) \/ FailedAttach(x) \/ Know(x) \/ CounterpartyGone(x) PROVE Heeds(x)
    BY Zenon, <1>0, <2>2, WaitHeeds, FailedAttachHeeds, KnowHeeds, CounterpartyGoneHeeds
  <2>3. ASSUME NotifyAttach(x) \/ Detach(x) \/ DetachInternal(x) PROVE Heeds(x)
    BY Zenon, <1>0, <2>3, NotifyAttachHeeds, DetachHeeds, DetachInternalHeeds
  <2>4. Heeds(x)
    BY Zenon, <1>4, <2>1, <2>2, <2>3 DEF Waiting
  <2> QED
    BY Zenon, <2>4, NewsSteps
<1>5. ASSUME NEW x \in Sides, Attach(x) \/ NeverStarts(x) \/ NotifyDetach(x) PROVE News'
  <2>1. Turns(x)
    BY Zenon, <1>0, <1>5, AttachTurns, NeverStartsTurns, NotifyDetachTurns
  <2> QED
    BY Zenon, <2>1, TurnsNews
<1> QED
  BY Zenon, <1>1, <1>2, <1>3, <1>4, <1>5 DEF Next, Leaving, Starting

\* "the counterparty must be certain to see the change after waking up": no order of the steps of the
\* two sides, of the worker's start or failure, of errors and of detaching leaves a side of the queue
\* asleep with its latch unset while there are bytes, space, an attachment or an end that it has not
\* seen (the end of a worker that never attached only if there is a handle for it), unless the
\* other side is about to set the latch (shm_mq_send_bytes, shm_mq_receive_bytes, shm_mq_wait_internal,
\* shm_mq_detach_internal).
THEOREM LatchCorrect == Spec => []NoNewsMissed
<1>1. Init => RingSteps /\ Stream /\ Workers /\ Late /\ News
  BY Zenon, RingInit, StreamInit, LeavingInit, NewsInit
<1>2. RingSteps /\ Stream /\ Workers /\ Late /\ News /\ [Next]_vars
        => (RingSteps /\ Stream /\ Workers /\ Late /\ News)'
  BY Zenon, RingNext, StreamNext, LeavingNext, NewsNext
<1> QED
  BY <1>1, <1>2, NewsSeen, PTL DEF Spec
=============================================================================
