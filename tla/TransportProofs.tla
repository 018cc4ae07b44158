----------------------------- MODULE TransportProofs -----------------------------
(***************************************************************************)
(* Proofs about the two USB patterns of transport.py: StreamWrites, for    *)
(* streams and queues of every length, and UsbPipe, for operations and     *)
(* buffers of every size.  The two systems share no variable.              *)
(***************************************************************************)
EXTENDS StreamWrites, UsbPipe, SequenceTheorems, TLAPS

-----------------------------------------------------------------------------
(* StreamWrites.                                                           *)

Burst == 1..Bursts
Item == Burst \cup {None}

InHand == IF inHand = None THEN 0 ELSE 1
EndQueued == q # <<>> /\ q[Len(q)] = None
Queued == IF EndQueued THEN Len(q) - 1 ELSE Len(q)

\* Which thread is where: the writer has a burst exactly while it ships one, the None
\* is the last thing put and the last thing taken, and a writer that is over was ended
\* by the None or has left an entry in `fail`, after a USB error.
StreamStage ==
  /\ caller = "put" <=> next <= Bursts
  /\ writer = "write" <=> inHand # None
  /\ caller \in {"put", "end"} => writer # "ended" /\ ~EndQueued
  /\ caller \notin {"put", "end"} /\ Alive => EndQueued
  /\ writer = "ended" => q = <<>>
  /\ writer = "failed" => failList
  /\ failList => usbError
  /\ caller \in {"status", "reset", "returned"} => writer = "ended"

NoneLast == \A i \in 1..Len(q) : q[i] = None => i = Len(q)

\* Shipped, in hand and queued are consecutive bursts, up to the last one encoded.
OrderInv ==
  writer # "failed" =>
    /\ Len(shipped) + InHand + Queued = next - 1
    /\ \A i \in 1..Len(shipped) : shipped[i] = i
    /\ inHand # None => inHand = Len(shipped) + 1
    /\ \A i \in 1..Queued : q[i] = Len(shipped) + InHand + i

StreamTypeInv == StreamTypeOK /\ StreamStage /\ NoneLast

-----------------------------------------------------------------------------
\* What the bounds of the constants come to.
LEMMA Bounds ==
  /\ Bursts \in Nat /\ Bursts > 0 /\ QueueSize \in Nat /\ JoinTicks \in Nat
  /\ None \notin Burst /\ None \in Item /\ Burst \subseteq Item
BY StreamAssumption DEF Burst, Item

\* What the types say of the queue and of the bursts already shipped.
LEMMA QueueType ==
  ASSUME StreamTypeOK
  PROVE  /\ q \in Seq(Item) /\ Len(q) \in Nat /\ Queued \in Nat
         /\ shipped \in Seq(Burst) /\ Len(shipped) \in Nat
         /\ q # <<>> <=> Len(q) > 0
<1>1. q \in Seq(Item) /\ shipped \in Seq(Burst)
  BY DEF StreamTypeOK, Item, Burst
<1>2. Len(q) \in Nat /\ Len(shipped) \in Nat /\ (q # <<>> => Len(q) \in Nat \ {0})
  BY <1>1, LenProperties, EmptySeq
<1>3. q = <<>> => Len(q) = 0
  BY EmptySeq
<1> QED BY <1>1, <1>2, <1>3 DEF Queued, EndQueued

\* What Put does to the queue.
LEMMA PutQueue ==
  ASSUME StreamTypeOK, NEW x \in Item, Put(x)
  PROVE  /\ q' \in Seq(Item) /\ Len(q') <= QueueSize
         /\ EndQueued' <=> x = None
         /\ Len(q') = Len(q) + 1 /\ q'[Len(q) + 1] = x
         /\ \A i \in 1..Len(q) : q'[i] = q[i]
<1>1. q' = Append(q, x) /\ Len(q) < QueueSize
  BY DEF Put
<1>2. /\ q' \in Seq(Item) /\ q' # <<>> /\ Len(q') = Len(q) + 1 /\ q'[Len(q) + 1] = x
      /\ \A i \in 1..Len(q) : q'[i] = q[i]
  BY <1>1, QueueType, AppendProperties
<1> QED BY <1>1, <1>2, QueueType, Bounds DEF EndQueued

\* What Get does to it: the None stays the last item, unless it is the one taken.
LEMMA GetQueue ==
  ASSUME StreamTypeOK, Get
  PROVE  /\ q' \in Seq(Item) /\ Len(q) > 0 /\ Len(q') = Len(q) - 1
         /\ Head(q) = q[1] /\ q[1] \in Item
         /\ \A i \in 1..(Len(q) - 1) : q'[i] = q[i + 1]
         /\ EndQueued' <=> EndQueued /\ Len(q) > 1
         /\ Len(q) = 1 => q' = <<>>
<1>1. q # <<>> /\ q' = Tail(q)
  BY DEF Get
<1>2. /\ q' \in Seq(Item) /\ Len(q') = Len(q) - 1 /\ Len(q) > 0 /\ Len(q) \in Nat
      /\ \A i \in 1..(Len(q) - 1) : q'[i] = q[i + 1]
  BY <1>1, QueueType, HeadTailProperties
<1>3. Head(q) = q[1] /\ q[1] \in Item
  BY <1>2, QueueType, ElementOfSeq
<1>4. (q' # <<>>) <=> Len(q) > 1
  BY <1>2, EmptySeq
<1>5. Len(q) > 1 => q'[Len(q')] = q[Len(q)]
  BY <1>2
<1> QED BY <1>1, <1>2, <1>3, <1>4, <1>5 DEF EndQueued

\* The first state has the types, and nothing is out of order.
LEMMA StreamInitType == StreamInit => StreamTypeInv /\ OrderInv
<1> SUFFICES ASSUME StreamInit PROVE StreamTypeInv /\ OrderInv
  OBVIOUS
<1> USE Bounds DEF StreamInit
<1>1. q = <<>> /\ shipped = <<>> /\ Len(q) = 0 /\ Len(shipped) = 0
      /\ q \in Seq(Item) /\ shipped \in Seq(Burst)
  BY EmptySeq
<1>2. StreamTypeOK
  <2>1. next \in 1..Bursts + 1 /\ waited \in 0..JoinTicks /\ Len(q) <= QueueSize
    BY <1>1
  <2> QED BY <1>1, <2>1 DEF StreamTypeOK, Item, Burst
<1>3. Queued = 0 /\ InHand = 0 /\ ~EndQueued
  BY <1>1 DEF Queued, InHand, EndQueued
<1>4. StreamStage
  BY <1>3 DEF StreamStage, Alive
<1>5. OrderInv
  BY <1>1, <1>3 DEF OrderInv
<1> QED BY <1>1, <1>2, <1>4, <1>5 DEF StreamTypeInv, NoneLast

\* Every step keeps the types.
LEMMA StreamNextType == StreamTypeInv /\ [StreamNext]_streamVars => StreamTypeInv'
<1> SUFFICES ASSUME StreamTypeInv, [StreamNext]_streamVars PROVE StreamTypeInv'
  OBVIOUS
<1> USE Bounds, QueueType DEF StreamTypeInv
<1>1. CASE PutBurst
  <2>1. next \in Burst /\ next # None
    BY <1>1 DEF PutBurst, StreamTypeOK, Burst
  <2>2. q' \in Seq(Item) /\ Len(q') <= QueueSize /\ ~EndQueued'
    BY <1>1, <2>1, PutQueue DEF PutBurst
  <2>3. StreamTypeOK'
    BY <1>1, <2>1, <2>2 DEF PutBurst, StreamTypeOK, Item, Burst
  <2>4. StreamStage'
    BY <1>1, <2>1, <2>2 DEF PutBurst, StreamStage, Alive, Burst
  <2>5. \A i \in 1..Len(q) : q[i] # None
    BY <1>1 DEF PutBurst, StreamStage, NoneLast, EndQueued
  <2>6. NoneLast'
    <3>1. /\ Len(q') = Len(q) + 1 /\ q'[Len(q) + 1] = next
          /\ \A i \in 1..Len(q) : q'[i] = q[i]
      BY <1>1, <2>1, PutQueue DEF PutBurst
    <3>2. ASSUME NEW i \in 1..Len(q') PROVE q'[i] # None
      <4>1. i \in 1..Len(q) \/ i = Len(q) + 1
        BY <3>1
      <4> QED BY <2>1, <2>5, <3>1, <4>1
    <3> QED BY <3>2 DEF NoneLast
  <2> QED BY <2>3, <2>4, <2>6
<1>2. CASE PutNone
  <2>1. q' \in Seq(Item) /\ Len(q') <= QueueSize /\ EndQueued'
    BY <1>2, PutQueue DEF PutNone
  <2>2. StreamTypeOK'
    BY <1>2, <2>1 DEF PutNone, StreamTypeOK, Item, Burst
  <2>3. StreamStage'
    BY <1>2, <2>1 DEF PutNone, StreamStage, Alive
  <2>4. NoneLast'
    BY <1>2, PutQueue DEF PutNone, StreamStage, NoneLast, EndQueued
  <2> QED BY <2>2, <2>3, <2>4
<1>3. CASE JoinWriter \/ ReadStatus \/ ResetStatus
  <2>1. StreamTypeOK'
    BY <1>3 DEF JoinWriter, ReadStatus, ResetStatus, StreamTypeOK
  <2>2. UNCHANGED <<q, writer, next, inHand, failList>> /\ (EndQueued' <=> EndQueued)
    BY <1>3 DEF JoinWriter, ReadStatus, ResetStatus, EndQueued
  <2>3. caller' = "status" => writer = "ended"
    BY <1>3 DEF JoinWriter, ReadStatus, ResetStatus, Alive, StreamStage, StreamTypeOK
  <2>4. caller \notin {"put", "end"} /\ caller' \notin {"put", "end"} /\ (usbError => usbError')
    BY <1>3 DEF JoinWriter, ReadStatus, ResetStatus, StreamStage
  <2>5. caller' \in {"reset", "returned"} => caller \in {"status", "reset"}
    BY <1>3 DEF JoinWriter, ReadStatus, ResetStatus
  <2> QED BY <2>1, <2>2, <2>3, <2>4, <2>5 DEF StreamStage, Alive, NoneLast
<1>4. CASE Get
  <2>1. q' \in Seq(Item) /\ Len(q') <= QueueSize
    BY <1>4, GetQueue DEF StreamTypeOK
  <2>2. StreamTypeOK'
    BY <1>4, <2>1, GetQueue DEF Get, StreamTypeOK, Item, Burst
  <2>3. NoneLast'
    BY <1>4, GetQueue, SMTT(30) DEF NoneLast
  <2>4. CASE Head(q) = None
    <3>1. Len(q) = 1
      BY <1>4, <2>4, GetQueue DEF NoneLast
    <3>2. EndQueued /\ q' = <<>> /\ ~EndQueued' /\ writer = "get"
      BY <1>4, <2>4, <3>1, GetQueue DEF Get, EndQueued
    <3> QED BY <1>4, <2>2, <2>3, <2>4, <3>2 DEF Get, StreamStage, Alive
  <2>5. CASE Head(q) # None
    <3>1. EndQueued' <=> EndQueued
      BY <1>4, <2>5, GetQueue DEF EndQueued
    <3> QED BY <1>4, <2>2, <2>3, <2>5, <3>1 DEF Get, StreamStage, Alive
  <2> QED BY <2>4, <2>5
<1>5. CASE Ship
  <2>1. inHand \in Burst
    BY <1>5 DEF Ship, StreamStage, StreamTypeOK, Burst
  <2>2. shipped' \in Seq(Burst)
    BY <1>5, <2>1, AppendProperties DEF Ship
  <2>3. StreamTypeOK'
    BY <1>5, <2>2 DEF Ship, StreamTypeOK, Burst
  <2>4. StreamStage'
    BY <1>5 DEF Ship, StreamStage, Alive, EndQueued
  <2> QED BY <1>5, <2>3, <2>4 DEF Ship, NoneLast
<1>6. CASE ShipFails
  <2>1. StreamTypeOK'
    BY <1>6 DEF ShipFails, StreamTypeOK
  <2>2. StreamStage'
    BY <1>6 DEF ShipFails, StreamStage, Alive, EndQueued
  <2> QED BY <1>6, <2>1, <2>2 DEF ShipFails, NoneLast
<1>7. CASE UNCHANGED streamVars
  BY <1>7 DEF streamVars, StreamTypeOK, StreamStage, NoneLast, Alive, EndQueued
<1> QED
  BY <1>1, <1>2, <1>3, <1>4, <1>5, <1>6, <1>7 DEF StreamNext, Main, Writer

\* Every reachable state of a write stream is well typed; in particular the queue
\* never holds more than maxsize items and the join never waits past its timeout.
THEOREM StreamTypeCorrect == StreamSpec => []StreamTypeOK
<1>1. StreamInit => StreamTypeInv
  BY StreamInitType
<1>2. StreamTypeInv => StreamTypeOK
  BY DEF StreamTypeInv
<1> QED BY <1>1, <1>2, StreamNextType, PTL DEF StreamSpec

-----------------------------------------------------------------------------
\* Every step keeps the bursts in the order they were queued.
LEMMA NextOrder == StreamTypeInv /\ StreamTypeInv' /\ OrderInv /\ [StreamNext]_streamVars => OrderInv'
<1> SUFFICES ASSUME StreamTypeInv, StreamTypeInv', OrderInv, [StreamNext]_streamVars, writer' # "failed"
             PROVE  OrderInv'
  BY DEF OrderInv
<1> USE Bounds, QueueType DEF StreamTypeInv
<1>a. writer # "failed" /\ InHand \in {0, 1} /\ next \in Nat
  BY DEF StreamNext, Main, Writer, PutBurst, PutNone, JoinWriter, ReadStatus, ResetStatus, Get, Ship,
     ShipFails, streamVars, InHand, StreamTypeOK
<1>1. CASE PutBurst
  <2>1. next \in Burst /\ next # None
    BY <1>1 DEF PutBurst, StreamTypeOK, Burst
  <2>2. Queued = Len(q) /\ Queued' = Len(q) + 1
    BY <1>1, <2>1, PutQueue DEF PutBurst, StreamStage, Queued
  <2>3. /\ q'[Len(q) + 1] = next
        /\ \A i \in 1..Len(q) : q'[i] = q[i]
    BY <1>1, <2>1, PutQueue DEF PutBurst
  <2>4. InHand' = InHand /\ shipped' = shipped /\ inHand' = inHand /\ next' = next + 1
    BY <1>1 DEF PutBurst, InHand
  <2>5. ASSUME NEW i \in 1..(Len(q) + 1) PROVE q'[i] = Len(shipped) + InHand + i
    <3>1. CASE i \in 1..Len(q)
      BY <1>a, <2>2, <2>3, <3>1 DEF OrderInv
    <3>2. CASE i = Len(q) + 1
      BY <1>a, <2>2, <2>3, <3>2 DEF OrderInv
    <3> QED BY <3>1, <3>2
  <2> QED BY <1>a, <2>2, <2>4, <2>5 DEF OrderInv
<1>2. CASE PutNone
  <2>1. Queued = Len(q) /\ Queued' = Len(q)
    BY <1>2, PutQueue DEF PutNone, StreamStage, Queued
  <2> QED BY <1>2, <1>a, <2>1, PutQueue DEF PutNone, OrderInv, InHand
<1>3. CASE JoinWriter \/ ReadStatus \/ ResetStatus
  BY <1>3, <1>a DEF JoinWriter, ReadStatus, ResetStatus, OrderInv, InHand, Queued, EndQueued
<1>4. CASE Get
  <2>1. InHand = 0 /\ writer = "get" /\ shipped' = shipped /\ next' = next
    BY <1>4 DEF Get, StreamStage, InHand
  <2>2. CASE Head(q) = None
    <3>1. Len(q) = 1 /\ EndQueued
      BY <1>4, <2>2, GetQueue DEF NoneLast, EndQueued
    <3>2. Queued = 0 /\ Queued' = 0
      BY <1>4, <3>1, GetQueue DEF Queued
    <3> QED BY <1>4, <1>a, <2>1, <2>2, <3>2 DEF Get, OrderInv, InHand
  <2>3. CASE Head(q) # None
    <3>1. EndQueued => Len(q) > 1
      BY <1>4, <2>3, GetQueue DEF EndQueued
    <3>2. Queued' = Queued - 1 /\ Queued > 0 /\ Queued <= Len(q)
      BY <1>4, <3>1, GetQueue DEF Queued
    <3>3. inHand' = q[1] /\ InHand' = 1
      BY <1>4, <2>3, GetQueue DEF Get, InHand
    <3>4. q[1] = Len(shipped) + 1
      BY <1>a, <2>1, <3>2 DEF OrderInv
    <3>5. \A i \in 1..(Queued - 1) : q'[i] = Len(shipped) + 1 + i
      <4>1. \A i \in 1..(Len(q) - 1) : q'[i] = q[i + 1]
        BY <1>4, GetQueue
      <4>2. \A i \in 1..Queued : q[i] = Len(shipped) + i
        BY <1>a, <2>1 DEF OrderInv
      <4>3. ASSUME NEW i \in 1..(Queued - 1) PROVE q'[i] = Len(shipped) + 1 + i
        <5>1. i \in 1..(Len(q) - 1) /\ i + 1 \in 1..Queued /\ i \in Nat
          BY <3>2
        <5>2. q'[i] = q[i + 1] /\ q[i + 1] = Len(shipped) + (i + 1)
          BY <4>1, <4>2, <5>1
        <5> QED BY <5>1, <5>2
      <4> QED BY <4>3
    <3> QED BY <1>a, <2>1, <3>2, <3>3, <3>4, <3>5 DEF OrderInv
  <2> QED BY <2>2, <2>3
<1>5. CASE Ship
  <2>1. inHand \in Burst /\ inHand # None /\ InHand = 1 /\ inHand' = None /\ InHand' = 0
    BY <1>5 DEF Ship, StreamStage, StreamTypeOK, Burst, InHand
  <2>2. /\ Len(shipped') = Len(shipped) + 1 /\ shipped'[Len(shipped) + 1] = inHand
        /\ \A i \in 1..Len(shipped) : shipped'[i] = shipped[i]
    BY <1>5, <2>1, AppendProperties DEF Ship
  <2>3. UNCHANGED <<q, next>> /\ Queued' = Queued
    BY <1>5 DEF Ship, Queued, EndQueued
  <2>4. \A i \in 1..(Len(shipped) + 1) : shipped'[i] = i
    BY <1>a, <2>1, <2>2 DEF OrderInv
  <2> QED BY <1>a, <2>1, <2>2, <2>3, <2>4 DEF OrderInv
<1>6. CASE ShipFails
  BY <1>6 DEF ShipFails
<1>7. CASE UNCHANGED streamVars
  BY <1>7, <1>a DEF streamVars, OrderInv, InHand, Queued, EndQueued
<1> QED
  BY <1>1, <1>2, <1>3, <1>4, <1>5, <1>6, <1>7 DEF StreamNext, Main, Writer

\* The types and the order hold in every reachable state.
LEMMA Ordered == StreamSpec => [](StreamTypeInv /\ OrderInv)
<1>1. StreamTypeInv /\ [StreamNext]_streamVars => StreamTypeInv'
  BY StreamNextType
<1> QED BY StreamInitType, <1>1, NextOrder, PTL DEF StreamSpec

\* The status scan goes out only when the writer is over and every burst has gone out.
THEOREM StatusLast == StreamSpec => []StatusAfterStream
<1>1. StreamTypeInv /\ OrderInv => StatusAfterStream
  <2> SUFFICES ASSUME StreamTypeInv, OrderInv, caller \in {"status", "reset", "returned"}
               PROVE  writer = "ended" /\ Len(shipped) = Bursts
    BY DEF StatusAfterStream
  <2>1. writer = "ended" /\ q = <<>> /\ inHand = None
    BY DEF StreamTypeInv, StreamStage
  <2>2. Queued = 0 /\ InHand = 0
    BY <2>1, EmptySeq DEF Queued, EndQueued, InHand
  <2>3. next = Bursts + 1
    BY Bounds DEF StreamTypeInv, StreamTypeOK, StreamStage
  <2> QED BY <2>1, <2>2, <2>3, Bounds, QueueType DEF OrderInv, StreamTypeInv
<1> QED BY <1>1, Ordered, PTL

\* Between the two threads no burst is lost, doubled or overtaken: what was shipped,
\* what the writer holds and what the queue holds are the stream so far.
THEOREM StreamInOrder == StreamSpec => []InOrder
<1>1. StreamTypeInv /\ OrderInv => InOrder
  <2> SUFFICES ASSUME StreamTypeInv, OrderInv, writer # "failed" PROVE InOrder
    BY DEF InOrder
  <2> DEFINE pending == IF inHand = None THEN <<>> ELSE <<inHand>>
             data == IF EndQueued THEN SubSeq(q, 1, Len(q) - 1) ELSE q
             stream == [i \in 1..next - 1 |-> i]
             n == Len(shipped)
  <2> USE Bounds, QueueType DEF StreamTypeInv
  <2>1. /\ next - 1 \in Nat /\ n + InHand + Queued = next - 1 /\ InHand \in {0, 1}
        /\ inHand \in Item
    BY DEF StreamTypeOK, OrderInv, InHand, Item, Burst
  <2>2. pending \in Seq(Item) /\ Len(pending) = InHand
        /\ \A i \in 1..InHand : pending[i] = n + i
    <3>1. CASE inHand = None
      BY <3>1, EmptySeq DEF InHand
    <3>2. CASE inHand # None
      BY <2>1, <3>2 DEF InHand, OrderInv
    <3> QED BY <3>1, <3>2
  <2>3. data \in Seq(Item) /\ Len(data) = Queued
        /\ \A i \in 1..Queued : data[i] = n + InHand + i
    <3>1. CASE EndQueued
      <4>1. Len(q) > 0 /\ \A i \in 1..(Len(q) - 1) : q[i] \in Item
        BY <3>1, ElementOfSeq DEF EndQueued
      <4>2. /\ SubSeq(q, 1, Len(q) - 1) \in Seq(Item)
            /\ Len(SubSeq(q, 1, Len(q) - 1)) = Len(q) - 1
            /\ \A i \in 1..(Len(q) - 1) : SubSeq(q, 1, Len(q) - 1)[i] = q[i]
        <5>1. Len(q) - 1 \in Int /\ 1 \in Int /\ Len(q) - 1 - 1 + 1 = Len(q) - 1
              /\ \A i \in 1..(Len(q) - 1) : 1 + i - 1 = i
          BY <4>1
        <5>2. \A i \in 1..Len(q) - 1 : q[i] \in Item
          BY <4>1
        <5> HIDE DEF StreamTypeInv
        <5> QED BY <4>1, <5>1, <5>2, SubSeqProperties
      <4> QED BY <3>1, <4>1, <4>2 DEF Queued, OrderInv
    <3>2. CASE ~EndQueued
      BY <3>2 DEF Queued, OrderInv
    <3> QED BY <3>1, <3>2
  <2>4. stream \in Seq(Item) /\ Len(stream) = next - 1
    BY <2>1 DEF StreamTypeOK, Item, Burst
  <2> HIDE DEF pending, data, stream
  <2>5. shipped \in Seq(Item) /\ \A i \in 1..n : shipped[i] = i
    BY SeqMonotonic DEF OrderInv
  <2>6. /\ shipped \o pending \in Seq(Item) /\ Len(shipped \o pending) = n + InHand
        /\ \A i \in 1..(n + InHand) : (shipped \o pending)[i] = i
    <3>1. pending \in Seq(Item) /\ Len(pending) = InHand /\ n \in Nat /\ InHand \in {0, 1}
      BY <2>1, <2>2
    <3>2. /\ shipped \o pending \in Seq(Item) /\ Len(shipped \o pending) = n + InHand
          /\ \A i \in 1..(n + InHand) :
               (shipped \o pending)[i] = IF i <= n THEN shipped[i] ELSE pending[i - n]
      <4> HIDE DEF StreamTypeInv
      <4>1. shipped \in Seq(Item) /\ Len(shipped) = n
        BY <2>5
      <4> HIDE DEF n
      <4> QED BY <3>1, <4>1, ConcatProperties
    <3> QED BY <2>2, <2>5, <3>1, <3>2
  <2>7. /\ shipped \o pending \o data \in Seq(Item)
        /\ Len(shipped \o pending \o data) = next - 1
        /\ \A i \in 1..next - 1 : (shipped \o pending \o data)[i] = i
    <3> DEFINE front == shipped \o pending
    <3>1. front \in Seq(Item) /\ Len(front) = n + InHand /\ \A i \in 1..(n + InHand) : front[i] = i
      BY <2>6
    <3> HIDE DEF front
    <3>2. /\ front \o data \in Seq(Item) /\ Len(front \o data) = n + InHand + Queued
          /\ \A i \in 1..(n + InHand + Queued) :
               (front \o data)[i] = IF i <= n + InHand THEN front[i] ELSE data[i - (n + InHand)]
      <4>1. /\ front \o data \in Seq(Item) /\ Len(front \o data) = Len(front) + Len(data)
            /\ \A i \in 1..(Len(front) + Len(data)) :
                 (front \o data)[i] = IF i <= Len(front) THEN front[i] ELSE data[i - Len(front)]
        BY <2>3, <3>1, ConcatProperties
      <4> QED BY <2>3, <3>1, <4>1, Zenon
    <3>3. ASSUME NEW i \in 1..next - 1 PROVE (front \o data)[i] = i
      <4>1. CASE i <= n + InHand
        BY <2>1, <3>1, <3>2, <4>1
      <4>2. CASE ~(i <= n + InHand)
        <5>1. i - (n + InHand) \in 1..Queued
          BY <2>1, <4>2
        <5> QED BY <2>1, <2>3, <3>2, <4>2, <5>1
      <4> QED BY <4>1, <4>2
    <3> QED BY <2>1, <3>2, <3>3 DEF front
  <2>8. \A i \in 1..next - 1 : stream[i] = i
    BY DEF stream
  <2>9. shipped \o pending \o data = stream
    BY <2>4, <2>7, <2>8, SeqEqual
  <2> QED BY <2>9 DEF InOrder, pending, data, stream, EndQueued
<1> QED BY <1>1, Ordered, PTL

-----------------------------------------------------------------------------
(***************************************************************************)
(* The timeout of the join.  What is left to ship when the caller begins   *)
(* to wait fits the queue and the writer's hand, and each burst shipped    *)
(* takes a tick at most.                                                   *)
(***************************************************************************)
WaitInv ==
  /\ caller \in {"put", "end"} => waited = 0
  /\ caller = "join" /\ Alive => waited + InHand + Queued <= QueueSize
  /\ caller = "raised" => usbError

\* Nobody waits for the queue at first.
LEMMA InitWait == StreamInit => WaitInv
BY DEF StreamInit, WaitInv

\* Every step keeps what the wait for the queue counts, the queue being shorter than the wait.
LEMMA NextWait ==
  ASSUME QueueSize < JoinTicks, StreamTypeInv, StreamTypeInv', WaitInv, [StreamNext]_streamVars
  PROVE  WaitInv'
<1> USE Bounds, QueueType DEF StreamTypeInv, WaitInv
<1>a. waited \in Nat /\ InHand \in {0, 1} /\ Len(q) <= QueueSize
  BY DEF StreamTypeOK, InHand
<1>1. CASE PutBurst
  BY <1>1, <1>a DEF PutBurst, StreamStage
<1>2. CASE PutNone
  <2>1. Queued' = Len(q) /\ Len(q) < QueueSize
    BY <1>2, PutQueue DEF PutNone, Put, StreamStage, Queued
  <2>2. InHand' = InHand /\ waited' = 0 /\ caller' = "join"
    BY <1>2 DEF PutNone, InHand
  <2> QED BY <1>a, <2>1, <2>2
<1>3. CASE JoinWriter
  <2>1. caller = "join" /\ caller' \in {"raised", "status"} /\ usbError' = usbError
    BY <1>3 DEF JoinWriter
  <2>2. ~(Alive /\ waited = JoinTicks)
    BY <1>a, <2>1
  <2>3. caller' = "raised" => failList
    BY <1>3, <2>2 DEF JoinWriter
  <2> QED BY <2>1, <2>3 DEF StreamStage
<1>4. CASE ReadStatus \/ ResetStatus
  BY <1>4 DEF ReadStatus, ResetStatus
<1>5. CASE Get
  <2>1. UNCHANGED <<caller, waited, usbError>> /\ InHand = 0 /\ Alive
    BY <1>5 DEF Get, StreamStage, InHand, Alive
  <2>2. CASE Head(q) = None
    BY <1>5, <2>1, <2>2 DEF Get, Alive
  <2>3. CASE Head(q) # None
    <3>1. EndQueued => Len(q) > 1
      BY <1>5, <2>3, GetQueue DEF EndQueued
    <3>2. Queued' = Queued - 1
      BY <1>5, <3>1, GetQueue DEF Queued
    <3>3. InHand' = 1
      BY <1>5, <2>3 DEF Get, InHand
    <3> QED BY <1>a, <2>1, <3>2, <3>3
  <2> QED BY <2>2, <2>3
<1>6. CASE Ship
  <2>1. UNCHANGED <<caller, usbError>> /\ InHand = 1 /\ InHand' = 0 /\ Alive
    BY <1>6 DEF Ship, StreamStage, InHand, Alive
  <2>2. Queued' = Queued
    BY <1>6 DEF Ship, Queued, EndQueued
  <2>3. waited' \in Nat /\ waited' <= waited + 1 /\ (caller # "join" => waited' = waited)
    BY <1>6, <1>a DEF Ship
  <2> QED BY <1>a, <2>1, <2>2, <2>3
<1>7. CASE ShipFails
  BY <1>7 DEF ShipFails, Alive
<1>8. CASE UNCHANGED streamVars
  BY <1>8 DEF streamVars, Alive, InHand, Queued, EndQueued
<1> QED
  BY <1>1, <1>2, <1>3, <1>4, <1>5, <1>6, <1>7, <1>8 DEF StreamNext, Main, Writer

\* If the join waits for more ticks than the queue has places (10 s against 4 bursts of
\* 1 s in the code), the call raises only after a USB error, however long the stream.
THEOREM RaisesRightly ==
  ASSUME QueueSize < JoinTicks
  PROVE  StreamSpec => []RaisesOnlyOnUsbError
<1>1. StreamInit => StreamTypeInv /\ WaitInv
  BY StreamInitType, InitWait
<1>2. StreamTypeInv /\ WaitInv /\ [StreamNext]_streamVars => StreamTypeInv' /\ WaitInv'
  <2>1. StreamTypeInv /\ [StreamNext]_streamVars => StreamTypeInv'
    BY StreamNextType
  <2> QED BY <2>1, NextWait
<1>3. WaitInv => RaisesOnlyOnUsbError
  BY DEF WaitInv, RaisesOnlyOnUsbError
<1> QED BY <1>1, <1>2, <1>3, PTL DEF StreamSpec

-----------------------------------------------------------------------------
(* UsbPipe.                                                                *)

Result == Seq(Unit) \cup {Raised}

\* An operation between its first write and its end.
Running == main \in {"write", "recv", "join"}

\* Which operation the caller is at, and who reads its answer: the caller itself in
\* "recv", the reader of the operation in "join".
StageInv ==
  /\ main = "over" <=> op > Len(Sizes)
  /\ Running => sent <= Sizes[op]
  /\ main = "recv" => ~Streamed(op)
  /\ main = "join" => Streamed(op)
  /\ main \in {"recv", "join"} => sent = Sizes[op]
  /\ alive \cup fail \subseteq 1..op
  /\ \A o \in Ops : o > op => buffer[o] = <<>>
  /\ main = "drain" => buffer[op] = <<>> /\ op \notin alive \cup fail
  /\ main # "recv" => got = <<>>
  /\ ~Running => sent = 0

TypeInv == TypeOK /\ StageInv /\ results \in Seq(Result)

-----------------------------------------------------------------------------
\* Sizes are at least one scan.
LEMMA SizesType ==
  /\ Len(Sizes) \in Nat /\ Len(Sizes) > 0
  /\ \A o \in Ops : Sizes[o] \in Nat /\ Sizes[o] > 0
BY PipeAssumption, LenProperties, ElementOfSeq, EmptySeq DEF Ops

\* What moving a unit does to the queue it comes from and to the one it goes to.
LEMMA TakeUnit ==
  ASSUME NEW s \in Seq(Unit), s # <<>>
  PROVE  /\ Head(s) = s[1] /\ Head(s) \in Unit
         /\ Tail(s) \in Seq(Unit) /\ Len(Tail(s)) = Len(s) - 1
         /\ Len(s) \in Nat /\ Len(s) > 0
         /\ \A i \in 1..(Len(s) - 1) : Tail(s)[i] = s[i + 1]
<1>1. Len(s) \in Nat /\ Len(s) > 0
  BY EmptySeq, LenProperties
<1>2. s[1] \in Unit
  BY <1>1, ElementOfSeq
<1>3. Tail(s) \in Seq(Unit) /\ Len(Tail(s)) = Len(s) - 1
      /\ \A i \in 1..(Len(s) - 1) : Tail(s)[i] = s[i + 1]
  BY <1>1, HeadTailProperties
<1> QED BY <1>1, <1>2, <1>3

\* What appending one unit to a sequence of units gives.
LEMMA AddUnit ==
  ASSUME NEW s \in Seq(Unit), NEW u \in Unit
  PROVE  /\ Append(s, u) \in Seq(Unit) /\ Len(Append(s, u)) = Len(s) + 1
         /\ Len(s) \in Nat
         /\ Append(s, u)[Len(s) + 1] = u
         /\ \A i \in 1..Len(s) : Append(s, u)[i] = s[i]
BY AppendProperties, LenProperties

\* The first state has the types.
LEMMA InitType == Init => TypeInv
<1> SUFFICES ASSUME Init PROVE TypeInv
  OBVIOUS
<1> USE SizesType, PipeAssumption DEF Init
<1>1. /\ got \in Seq(Unit) /\ outq \in Seq(Unit) /\ inq \in Seq(Unit)
      /\ results \in Seq(Result) /\ Len(results) = 0 /\ Len(outq) = 0 /\ Len(inq) = 0
      /\ buffer \in [Ops -> Seq(Unit)]
  BY EmptySeq
<1>2. TypeOK
  BY <1>1 DEF TypeOK
<1>3. StageInv
  BY DEF StageInv, Running, Ops
<1> QED BY <1>1, <1>2, <1>3 DEF TypeInv

\* What Finish does, whatever the result: on to the next operation.
LEMMA FinishType ==
  ASSUME TypeInv, NEW r \in Result, Finish(r), op \in Ops,
         UNCHANGED <<mode, buffer>>, alive' \cup fail' \subseteq 1..op, alive' \cup fail' \subseteq Ops,
         inq' \in Seq(Unit), Len(inq') <= InSize, outq' = outq, fails' \in 0..MaxFails
  PROVE  TypeInv'
<1> USE SizesType DEF TypeInv
<1>1. /\ results' \in Seq(Result) /\ Len(results') = Len(results) + 1
      /\ got' = <<>> /\ got' \in Seq(Unit)
  BY AppendProperties, EmptySeq DEF Finish
<1>2. op \in 1..Len(Sizes) /\ op' = op + 1 /\ sent' = 0 /\ Len(results) = op - 1
      /\ main' = (IF op = Len(Sizes) THEN "over" ELSE "drain")
  BY DEF Finish, Ops, TypeOK
<1>3. TypeOK'
  BY <1>1, <1>2 DEF TypeOK
<1>4. StageInv'
  <2>1. \A o \in Ops : o > op => buffer'[o] = <<>>
    BY DEF StageInv
  <2>2. main' = "over" <=> op' > Len(Sizes)'
    BY <1>2
  <2>3. main' \in {"over", "drain"} /\ ~Running'
    BY <1>2 DEF Running
  <2>4. alive' \cup fail' \subseteq 1..op'
    BY <1>2
  <2>5. \A o \in Ops' : o > op' => buffer'[o] = <<>>
    BY <1>2, <2>1 DEF Ops
  <2>6. main' = "drain" => buffer'[op'] = <<>> /\ op' \notin alive' \cup fail'
    BY <1>2, <2>1 DEF Ops
  <2> QED BY <1>1, <1>2, <2>2, <2>3, <2>4, <2>5, <2>6 DEF StageInv
<1> QED BY <1>1, <1>3, <1>4

\* Every step keeps the types.
LEMMA NextType == TypeInv /\ [Next]_vars => TypeInv'
<1> SUFFICES ASSUME TypeInv, [Next]_vars PROVE TypeInv'
  OBVIOUS
<1> USE SizesType DEF TypeInv
<1>a. main # "over" => op \in Ops
  BY DEF TypeOK, StageInv, Ops
<1>b. <<>> \in Seq(Unit) /\ Len(<<>>) = 0 /\ Raised \in Result /\ got \in Result /\ InSize \in Nat
  BY EmptySeq, PipeAssumption DEF Result, TypeOK
<1>1. CASE Drain
  <2>1. main = "drain" /\ op \in Ops /\ UNCHANGED <<mode, outq, fails>>
    BY <1>1, <1>a DEF Drain
  <2>2. CASE Open /\ UNCHANGED <<op, sent, got, results>> /\ inq' \in {inq, <<>>}
    <3>1. main' = "write" /\ alive' \in {alive, alive \cup {op}} /\ UNCHANGED <<buffer, fail>>
      BY <2>2 DEF Open
    <3>2. TypeOK'
      <4>1. inq' \in Seq(Unit) /\ Len(inq') <= InSize
        <5>1. inq \in Seq(Unit) /\ Len(inq) <= InSize
          BY DEF TypeOK
        <5>2. Len(<<>>) <= InSize
          BY <1>b
        <5> QED BY <1>b, <2>2, <5>1, <5>2
      <4>2. alive' \subseteq Ops /\ fail' \subseteq Ops /\ buffer' \in [Ops -> Seq(Unit)]
        BY <2>1, <3>1 DEF TypeOK
      <4> QED BY <2>1, <2>2, <3>1, <4>1, <4>2 DEF TypeOK
    <3>3. op \in Nat /\ sent = 0 /\ Sizes[op] \in Nat
      BY <2>1 DEF StageInv, Running, Ops
    <3>4. StageInv'
      BY <2>1, <2>2, <3>1, <3>3 DEF StageInv, Running, Ops
    <3> QED BY <2>2, <3>2, <3>4
  <2>3. ASSUME NEW n \in 1..Len(inq), inq' = SubSeq(inq, n + 1, Len(inq)),
               Finish(Raised), UNCHANGED threads
        PROVE  TypeInv'
    <3>1. alive' \cup fail' \subseteq 1..op /\ alive' \cup fail' \subseteq Ops /\ buffer' = buffer
      BY <2>3 DEF threads, StageInv, TypeOK
    <3>2. fails' \in 0..MaxFails /\ inq' \in Seq(Unit) /\ Len(inq') <= InSize
      <4>1. /\ inq \in Seq(Unit) /\ Len(inq) <= InSize /\ Len(inq) \in Nat
            /\ n \in Nat /\ 1 <= n /\ n <= Len(inq) /\ fails' \in 0..MaxFails
        BY <1>b, <2>1, <2>3 DEF TypeOK
      <4>2. SubSeq(inq, n + 1, Len(inq)) \in Seq(Unit)
        BY <4>1
      <4>3. Len(SubSeq(inq, n + 1, Len(inq))) = Len(inq) - n
        BY <4>1
      <4> QED BY <1>b, <2>3, <4>1, <4>2, <4>3
    <3> QED BY <1>b, <2>1, <2>3, <3>1, <3>2, FinishType
  <2> QED BY <1>1, <2>2, <2>3 DEF Drain
<1>2. CASE Send
  <2>1. op \in Ops /\ sent \in Nat /\ <<op, sent + 1>> \in Unit /\ Len(outq) \in Nat
    BY <1>2, <1>a, AddUnit DEF Send, Unit, TypeOK
  <2>2. outq' \in Seq(Unit) /\ Len(outq') = Len(outq) + 1 /\ Len(outq) < OutSize /\ OutSize \in Nat
    BY <1>2, <2>1, AddUnit, PipeAssumption DEF Send, TypeOK
  <2>3. TypeOK'
    BY <1>2, <2>1, <2>2 DEF Send, TypeOK, threads
  <2>4. StageInv'
    BY <1>2, <2>1 DEF Send, StageInv, Running, threads, TypeOK
  <2> QED BY <1>2, <2>3, <2>4 DEF Send
<1>3. CASE Written
  BY <1>3, <1>a DEF Written, StageInv, Running, threads, TypeOK
<1>4. CASE SendFails \/ SendTimesOut \/ Received \/ RecvFails \/ Join
  <2>1. op \in Ops /\ UNCHANGED <<mode, threads, outq, inq>>
    BY <1>4, <1>a DEF SendFails, SendTimesOut, Received, RecvFails, Join
  <2>a. MaxFails \in Nat /\ fails \in 0..MaxFails
    BY PipeAssumption DEF TypeOK
  <2>b. fails' \in 0..MaxFails
    BY <1>4, <2>a DEF SendFails, SendTimesOut, Received, RecvFails, Join
  <2>2. \E r \in Result : Finish(r)
    <3>1. buffer[op] \in Result
      BY <2>1 DEF TypeOK, Result
    <3> QED BY <1>4, <1>b, <3>1 DEF SendFails, SendTimesOut, Received, RecvFails, Join
  <2> QED BY <2>1, <2>b, <2>2, FinishType DEF threads, TypeOK, StageInv
<1>5. CASE Recv
  <2>1. /\ Head(inq) \in Unit /\ inq' \in Seq(Unit) /\ Len(inq') = Len(inq) - 1
        /\ Len(inq) \in Nat
    BY <1>5, TakeUnit DEF Recv, TypeOK
  <2>2. got' \in Seq(Unit)
    BY <1>5, <2>1, AddUnit DEF Recv, TypeOK
  <2> QED BY <1>5, <2>1, <2>2, <1>b DEF Recv, TypeOK, StageInv, Running, threads
<1>6. ASSUME NEW o \in Ops, Read(o) PROVE TypeInv'
  <2>1. /\ Head(inq) \in Unit /\ inq' \in Seq(Unit) /\ Len(inq') = Len(inq) - 1
        /\ Len(inq) \in Nat
    BY <1>6, TakeUnit DEF Read, TypeOK
  <2>2. Append(buffer[o], Head(inq)) \in Seq(Unit)
    BY <2>1, AddUnit DEF TypeOK
  <2>3. TypeOK'
    BY <1>6, <1>b, <2>1, <2>2 DEF Read, TypeOK
  <2>4. o <= op /\ (main = "drain" => o # op) /\ op \in Nat
    BY <1>6 DEF Read, StageInv, TypeOK
  <2>5. /\ \A k \in Ops : k # o => buffer'[k] = buffer[k]
        /\ UNCHANGED <<op, main, sent, got, alive, fail>>
    BY <1>6 DEF Read, TypeOK
  <2>6. (\A k \in Ops : k > op => buffer'[k] = <<>>) /\ (main = "drain" => buffer'[op] = <<>>)
    BY <1>a, <2>4, <2>5 DEF StageInv, Ops
  <2>7. StageInv'
    BY <2>5, <2>6 DEF StageInv, Running
  <2> QED BY <1>6, <2>3, <2>7 DEF Read
<1>7. ASSUME NEW o \in Ops, ReadAll(o) \/ ReadGivesUp(o) PROVE TypeInv'
  BY <1>7 DEF ReadAll, ReadGivesUp, TypeOK, StageInv, Running
<1>8. CASE Execute
  <2>1. /\ Head(outq) \in Unit /\ outq' \in Seq(Unit) /\ Len(outq') = Len(outq) - 1
        /\ Len(outq) \in Nat
    BY <1>8, TakeUnit DEF Execute, TypeOK
  <2>2. inq' \in Seq(Unit) /\ Len(inq') = Len(inq) + 1 /\ Len(inq) \in Nat
    BY <1>8, <2>1, AddUnit DEF Execute, TypeOK
  <2>3. OutSize \in Nat
    BY PipeAssumption
  <2> QED BY <1>8, <1>b, <2>1, <2>2, <2>3 DEF Execute, TypeOK, StageInv, Running, threads
<1>9. CASE UNCHANGED vars
  BY <1>9 DEF vars, threads, TypeOK, StageInv, Running
<1> QED
  BY <1>1, <1>2, <1>3, <1>4, <1>5, <1>6, <1>7, <1>8, <1>9 DEF Next, Caller, Reader

\* Every reachable state of the endpoints is well typed: the device's buffers never
\* hold more than they have room for, whatever fails.
THEOREM PipeTypeCorrect == Spec => []TypeOK
<1>1. TypeInv => TypeOK
  BY DEF TypeInv
<1> QED BY <1>1, InitType, NextType, PTL DEF Spec

-----------------------------------------------------------------------------
(***************************************************************************)
(* Sessions in which no transfer fails.  Between its first write and its   *)
(* end, the units of the operation are, in this order: read, on their way  *)
(* in, taken and not yet executed.  Between operations there are none.     *)
(***************************************************************************)
Captured == IF Streamed(op) THEN buffer[op] ELSE got
Own(o, s, n) == \A i \in 1..Len(s) : s[i] = <<o, n + i>>

FlowInv ==
  Running =>
    /\ Len(Captured) + Len(inq) + Len(outq) = sent
    /\ Own(op, Captured, 0)
    /\ Own(op, inq, Len(Captured))
    /\ Own(op, outq, Len(Captured) + Len(inq))

QuietInv == ~Running => Silent

\* A reader lives no longer than its operation, and not until it has read everything.
ReaderInv ==
  /\ fail = {}
  /\ alive \subseteq {op}
  /\ alive # {} => Running /\ Streamed(op)
  /\ Running /\ Streamed(op) /\ alive = {} => Len(buffer[op]) = Sizes[op]

DoneInv ==
  \A o \in 1..Len(results) : results[o] = [i \in 1..Sizes[o] |-> <<o, i>>]

CleanInv == fails = 0 => FlowInv /\ QuietInv /\ ReaderInv /\ DoneInv

\* The endpoints are in step at first.
LEMMA InitClean == Init => CleanInv
BY DEF Init, CleanInv, FlowInv, QuietInv, ReaderInv, DoneInv, Running, Silent

\* The counts of the units of the operation in progress.
LEMMA Counts ==
  ASSUME TypeInv, op \in Ops
  PROVE  /\ Captured \in Seq(Unit) /\ Len(Captured) \in Nat
         /\ Len(inq) \in Nat /\ Len(outq) \in Nat /\ sent \in Nat
         /\ Sizes[op] \in Nat /\ Sizes[op] > 0
         /\ InSize \in Nat /\ OutSize \in Nat /\ Chunk \in Nat
         /\ inq = <<>> <=> Len(inq) = 0
         /\ outq = <<>> <=> Len(outq) = 0
<1>1. Captured \in Seq(Unit) /\ inq \in Seq(Unit) /\ outq \in Seq(Unit)
  BY DEF TypeInv, TypeOK, Captured
<1>2. \A s \in Seq(Unit) : Len(s) \in Nat /\ (s = <<>> <=> Len(s) = 0)
  BY LenProperties, EmptySeq
<1> QED BY <1>1, <1>2, SizesType, PipeAssumption DEF TypeInv, TypeOK

\* An operation that ends with all its captures leaves nothing behind.
LEMMA FinishClean ==
  ASSUME TypeInv, op \in Ops, Running, FlowInv, ReaderInv, DoneInv,
         sent = Sizes[op], Len(Captured) = Sizes[op], alive = {},
         Finish(Captured), UNCHANGED <<threads, outq, inq>>
  PROVE  FlowInv' /\ QuietInv' /\ ReaderInv' /\ DoneInv'
<1>1. Len(inq) = 0 /\ Len(outq) = 0
  BY Counts DEF FlowInv
<1>2. Silent'
  BY <1>1, Counts DEF Silent
<1>3. ~Running'
  BY DEF Finish, Running
<1>4. alive' = {} /\ fail' = {}
  BY DEF threads, ReaderInv
<1>5. Captured = [i \in 1..Sizes[op] |-> <<op, i>>]
  <2> DEFINE whole == [i \in 1..Sizes[op] |-> <<op, i>>]
  <2>1. \A i \in 1..Sizes[op] : <<op, i>> \in Unit
    BY SizesType DEF Unit
  <2>2. whole \in Seq(Unit) /\ Len(whole) = Sizes[op]
    BY <2>1, SizesType
  <2>3. \A i \in 1..Sizes[op] : whole[i] = Captured[i]
    <3>1. ASSUME NEW i \in 1..Sizes[op] PROVE Captured[i] = <<op, i>>
      <4>1. Captured[i] = <<op, 0 + i>> /\ 0 + i = i
        BY Counts DEF FlowInv, Own
      <4> QED BY <4>1
    <3> QED BY <3>1
  <2> HIDE DEF whole
  <2>4. whole = Captured
    BY <2>2, <2>3, Counts, SeqEqual
  <2> QED BY <2>4 DEF whole
<1>6. DoneInv'
  <2>1. results \in Seq(Result) /\ Captured \in Result /\ Len(results) = op - 1 /\ op \in Nat
    BY Counts DEF TypeInv, TypeOK, Result
  <2>2. /\ Len(results') = Len(results) + 1 /\ results'[Len(results) + 1] = Captured
        /\ \A o \in 1..Len(results) : results'[o] = results[o]
    BY <2>1, AppendProperties DEF Finish
  <2>3. ASSUME NEW o \in 1..Len(results') PROVE results'[o] = [i \in 1..Sizes[o] |-> <<o, i>>]
    <3>1. o \in 1..Len(results) \/ o = op
      BY <2>1, <2>2
    <3>2. CASE o \in 1..Len(results)
      BY <2>2, <3>2 DEF DoneInv
    <3>3. CASE o = op
      <4>1. Len(results) + 1 = op
        BY <2>1
      <4> QED BY <1>5, <2>2, <3>3, <4>1
    <3> QED BY <3>1, <3>2, <3>3
  <2> QED BY <2>3 DEF DoneInv
<1> QED BY <1>2, <1>3, <1>4, <1>6 DEF FlowInv, QuietInv, ReaderInv

\* A unit that moves from the head of one queue to the end of the next keeps both in order.
LEMMA MoveUnit ==
  ASSUME NEW o \in Nat, NEW n \in Nat, NEW t \in Seq(Unit), NEW s \in Seq(Unit), s # <<>>,
         Own(o, t, n), Own(o, s, n + Len(t))
  PROVE  /\ Len(Append(t, Head(s))) = Len(t) + 1 /\ Len(Tail(s)) = Len(s) - 1
         /\ Len(t) \in Nat /\ Len(s) \in Nat
         /\ Own(o, Append(t, Head(s)), n)
         /\ Own(o, Tail(s), n + (Len(t) + 1))
<1> DEFINE u == Head(s)  more == Append(t, u)  less == Tail(s)
<1>1. /\ u = s[1] /\ u \in Unit /\ Len(less) = Len(s) - 1 /\ Len(s) \in Nat /\ Len(s) > 0
      /\ \A i \in 1..(Len(s) - 1) : less[i] = s[i + 1]
  BY TakeUnit
<1>2. /\ Len(more) = Len(t) + 1 /\ Len(t) \in Nat /\ more[Len(t) + 1] = u
      /\ \A i \in 1..Len(t) : more[i] = t[i]
  BY <1>1, AddUnit
<1> HIDE DEF u, more, less
<1>3. ASSUME NEW i \in 1..Len(more) PROVE more[i] = <<o, n + i>>
  <2>1. CASE i \in 1..Len(t)
    BY <1>2, <2>1 DEF Own
  <2>2. CASE i = Len(t) + 1
    <3>1. 1 \in 1..Len(s)
      BY <1>1
    <3>2. s[1] = <<o, (n + Len(t)) + 1>>
      BY <3>1 DEF Own
    <3>3. (n + Len(t)) + 1 = n + i
      BY <1>2, <2>2
    <3>4. more[i] = u
      BY <1>2, <2>2
    <3> QED BY <1>1, <3>2, <3>3, <3>4
  <2> QED BY <1>2, <2>1, <2>2
<1>4. ASSUME NEW i \in 1..Len(less) PROVE less[i] = <<o, (n + (Len(t) + 1)) + i>>
  <2>1. i \in 1..(Len(s) - 1) /\ i + 1 \in 1..Len(s)
    BY <1>1
  <2>2. less[i] = s[i + 1] /\ s[i + 1] = <<o, (n + Len(t)) + (i + 1)>>
    BY <1>1, <2>1 DEF Own
  <2>3. (n + Len(t)) + (i + 1) = (n + (Len(t) + 1)) + i
    BY <1>2, <2>1
  <2> QED BY <2>2, <2>3
<1>5. Own(o, more, n) /\ Own(o, less, n + (Len(t) + 1))
  BY <1>3, <1>4 DEF Own
<1> QED BY <1>1, <1>2, <1>5 DEF u, more, less

\* The caller, or its reader, takes the unit at the head of the IN buffers.
LEMMA TakeClean ==
  ASSUME TypeInv, FlowInv, Running, op \in Ops, inq # <<>>, inq' = Tail(inq),
         Captured' = Append(Captured, Head(inq)), UNCHANGED <<op, main, sent, outq>>
  PROVE  FlowInv'
<1>1. /\ Len(Captured') = Len(Captured) + 1 /\ Len(inq') = Len(inq) - 1
      /\ Own(op, Captured', 0)
      /\ Own(op, inq', 0 + (Len(Captured) + 1))
  <2>1. 0 + Len(Captured) = Len(Captured)
    BY Counts
  <2>2. Own(op, inq, 0 + Len(Captured)) /\ Own(op, Captured, 0) /\ op \in Nat /\ 0 \in Nat
    BY <2>1 DEF FlowInv, Ops
  <2> QED BY <2>2, Counts, MoveUnit DEF TypeInv, TypeOK
<1>2. 0 + (Len(Captured) + 1) = Len(Captured')
  BY <1>1, Counts
<1>3. Len(Captured') + Len(inq') + Len(outq') = sent
  BY <1>1, Counts DEF FlowInv
<1>4. Len(Captured') + Len(inq') = Len(Captured) + Len(inq)
  BY <1>1, Counts
<1>5. Own(op, inq', Len(Captured')) /\ Own(op, outq', Len(Captured') + Len(inq'))
  BY <1>1, <1>2, <1>4 DEF FlowInv
<1> QED BY <1>1, <1>3, <1>5 DEF FlowInv

\* Every step keeps the endpoints in step, as long as one chunk fits the two endpoints.
LEMMA NextClean ==
  ASSUME Chunk <= InSize + OutSize,
         TypeInv, TypeInv', CleanInv, [Next]_vars
  PROVE  CleanInv'
<1> SUFFICES ASSUME fails' = 0 PROVE FlowInv' /\ QuietInv' /\ ReaderInv' /\ DoneInv'
  BY DEF CleanInv
<1>a. ~SendFails /\ fails = 0
  BY DEF SendFails, Next, Caller, Reader, Drain, Send, SendTimesOut, Written, Recv, Received,
     RecvFails, Join, Read, ReadAll, ReadGivesUp, Execute, vars, TypeInv, TypeOK
<1>b. FlowInv /\ QuietInv /\ ReaderInv /\ DoneInv
  BY <1>a DEF CleanInv
<1>c. main # "over" => op \in Ops
  BY SizesType DEF TypeInv, TypeOK, StageInv, Ops
<1>1. CASE Drain
  <2>1. main = "drain" /\ op \in Ops /\ inq = <<>> /\ outq = <<>> /\ outq' = <<>>
    BY <1>1, <1>b, <1>c DEF Drain, QuietInv, Running, Silent
  <2>2. /\ main' = "write" /\ inq' = <<>> /\ UNCHANGED <<op, sent, got, results, buffer, fail>>
        /\ alive' = IF Streamed(op) THEN alive \cup {op} ELSE alive
    BY <1>1, <2>1 DEF Drain, Open
  <2>3. alive = {} /\ sent = 0 /\ got = <<>> /\ buffer[op] = <<>>
    BY <1>b, <2>1 DEF ReaderInv, Running, StageInv, TypeInv
  <2>4. Captured' = <<>>
    BY <2>2, <2>3 DEF Captured, Streamed
  <2>5. FlowInv'
    BY <2>1, <2>2, <2>3, <2>4, EmptySeq DEF FlowInv, Own
  <2>6. QuietInv' /\ ReaderInv' /\ DoneInv'
    BY <1>b, <2>2, <2>3 DEF QuietInv, ReaderInv, DoneInv, Running, Streamed
  <2> QED BY <2>5, <2>6
<1>2. CASE Send
  <2>1. /\ main = "write" /\ op \in Ops /\ sent' = sent + 1 /\ outq' = Append(outq, <<op, sent + 1>>)
        /\ UNCHANGED <<op, main, got, threads, results, inq>>
    BY <1>2, <1>c DEF Send
  <2>2. Captured' = Captured /\ Running
    BY <2>1 DEF Captured, Streamed, threads, Running
  <2>3. <<op, sent + 1>> \in Unit /\ outq \in Seq(Unit)
    BY <2>1, Counts DEF Unit, TypeInv, TypeOK
  <2>4. /\ Len(outq') = Len(outq) + 1 /\ outq'[Len(outq) + 1] = <<op, sent + 1>>
        /\ \A i \in 1..Len(outq) : outq'[i] = outq[i]
    BY <2>1, <2>3, AddUnit
  <2>5. Own(op, outq', Len(Captured) + Len(inq))
    <3> SUFFICES ASSUME NEW i \in 1..Len(outq')
                 PROVE  outq'[i] = <<op, Len(Captured) + Len(inq) + i>>
      BY DEF Own
    <3>1. CASE i \in 1..Len(outq)
      BY <1>b, <2>2, <2>4, <3>1 DEF FlowInv, Own
    <3>2. CASE i = Len(outq) + 1
      <4>1. Len(Captured) + Len(inq) + i = sent + 1
        BY <1>b, <2>1, <2>2, <3>2, Counts DEF FlowInv
      <4> QED BY <2>4, <3>2, <4>1
    <3> QED BY <2>1, <2>4, <3>1, <3>2, Counts
  <2>6. FlowInv'
    BY <1>b, <2>1, <2>2, <2>4, <2>5, Counts DEF FlowInv
  <2> QED BY <1>b, <2>1, <2>6 DEF QuietInv, ReaderInv, DoneInv, Running, Streamed, threads
<1>3. CASE SendTimesOut
  <2>1. main = "write" /\ op \in Ops /\ sent < Sizes[op] /\ Len(outq) = OutSize
        /\ Len(inq) = InSize /\ alive = {}
    BY <1>3, <1>c DEF SendTimesOut
  <2>2. CASE Streamed(op)
    BY <1>b, <2>1, <2>2, Counts DEF ReaderInv, FlowInv, Running, Captured
  <2>3. CASE ~Streamed(op)
    <3>1. Len(Captured) = 0 /\ Sizes[op] <= Chunk
      BY <2>1, <2>3, Counts, EmptySeq DEF Captured, Streamed, TypeInv, StageInv
    <3> QED BY <1>b, <2>1, <3>1, Counts DEF FlowInv, Running
  <2> QED BY <2>2, <2>3
<1>4. CASE Written
  BY <1>4, <1>b DEF Written, FlowInv, QuietInv, ReaderInv, DoneInv, Running, Captured, Streamed,
     threads
<1>5. CASE Recv
  <2>1. /\ main = "recv" /\ op \in Ops /\ inq # <<>> /\ got' = Append(got, Head(inq))
        /\ inq' = Tail(inq) /\ UNCHANGED <<op, main, sent, threads, results, outq>>
    BY <1>5, <1>c DEF Recv
  <2>2. ~Streamed(op) /\ Captured = got /\ Captured' = got' /\ Running
    BY <2>1 DEF TypeInv, StageInv, Captured, Streamed, Running
  <2>3. Captured' = Append(Captured, Head(inq)) /\ op \in Ops
    BY <2>1, <2>2
  <2> QED BY <1>b, <2>1, <2>2, <2>3, TakeClean DEF QuietInv, ReaderInv, DoneInv, Running, Streamed, threads
<1>6. CASE Received
  <2>1. main = "recv" /\ op \in Ops /\ sent = Sizes[op] /\ Captured = got /\ ~Streamed(op)
    BY <1>6, <1>c DEF Received, TypeInv, StageInv, Captured
  <2>2. alive = {} /\ Running
    BY <1>b, <2>1 DEF ReaderInv, Running
  <2> QED BY <1>6, <1>b, <2>1, <2>2, FinishClean DEF Received
<1>7. CASE RecvFails
  <2>1. main = "recv" /\ op \in Ops /\ Len(Captured) < sent /\ Len(inq) = 0 /\ Len(outq) = 0
    BY <1>7, <1>c, EmptySeq DEF RecvFails, TypeInv, StageInv, Captured, Silent
  <2> QED BY <1>b, <2>1, Counts DEF FlowInv, Running
<1>8. CASE Join
  <2>1. main = "join" /\ op \in Ops /\ sent = Sizes[op] /\ Captured = buffer[op] /\ Streamed(op)
        /\ Running
    BY <1>8, <1>c DEF Join, TypeInv, StageInv, Captured, Running
  <2>2. alive = {} /\ Len(Captured) = Sizes[op] /\ Finish(Captured)
    BY <1>8, <1>b, <2>1 DEF Join, ReaderInv
  <2> QED BY <1>8, <1>b, <2>1, <2>2, FinishClean DEF Join
<1>9. ASSUME NEW o \in Ops, Reader(o) PROVE FlowInv' /\ QuietInv' /\ ReaderInv' /\ DoneInv'
  <2>1. o = op /\ op \in Ops /\ Running /\ Streamed(op) /\ alive = {op} /\ Captured = buffer[op]
    BY <1>9, <1>b DEF Reader, Read, ReadAll, ReadGivesUp, ReaderInv, Captured
  <2>2. CASE Read(o)
    <3>1. /\ inq # <<>> /\ inq' = Tail(inq) /\ Captured' = Append(Captured, Head(inq))
          /\ UNCHANGED <<op, main, sent, got, alive, fail, results, outq>>
      BY <2>1, <2>2 DEF Read, Captured, Streamed, TypeInv, TypeOK
    <3>2. FlowInv'
      BY <1>b, <2>1, <3>1, TakeClean
    <3> QED BY <1>b, <2>1, <3>1, <3>2 DEF QuietInv, ReaderInv, DoneInv, Running, Streamed
  <2>3. CASE ReadAll(o)
    BY <1>b, <2>1, <2>3 DEF ReadAll, FlowInv, QuietInv, ReaderInv, DoneInv, Running, Captured, Streamed
  <2>4. CASE ReadGivesUp(o)
    <3>1. main = "join" /\ sent = Sizes[op] /\ Len(Captured) < sent /\ Len(inq) = 0 /\ Len(outq) = 0
      BY <2>1, <2>4, EmptySeq DEF ReadGivesUp, TypeInv, StageInv, Running, Silent
    <3> QED BY <1>b, <2>1, <3>1, Counts DEF FlowInv
  <2> QED BY <1>9, <2>2, <2>3, <2>4 DEF Reader
<1>10. CASE Execute
  <2>1. Running /\ op \in Ops /\ outq # <<>>
    BY <1>10, <1>b, <1>c DEF Execute, QuietInv, Silent, Running
  <2>2. inq' = Append(inq, Head(outq)) /\ outq' = Tail(outq) /\ Captured' = Captured
        /\ UNCHANGED <<op, main, sent>>
    BY <1>10 DEF Execute, Captured, Streamed, threads
  <2>3. /\ Len(inq') = Len(inq) + 1 /\ Len(outq') = Len(outq) - 1
        /\ Own(op, inq', Len(Captured))
        /\ Own(op, outq', Len(Captured) + (Len(inq) + 1))
    BY <1>b, <2>1, <2>2, Counts, MoveUnit DEF FlowInv, TypeInv, TypeOK, Ops
  <2>4. FlowInv'
    BY <1>b, <2>1, <2>2, <2>3, Counts DEF FlowInv
  <2> QED BY <1>b, <1>10, <2>1, <2>2, <2>4 DEF Execute, QuietInv, ReaderInv, DoneInv, Running, Streamed, threads
<1>11. CASE UNCHANGED vars
  BY <1>11, <1>b DEF vars, threads, FlowInv, QuietInv, ReaderInv, DoneInv, Running, Captured, Streamed, Silent
<1> QED
  BY <1>1, <1>2, <1>3, <1>4, <1>5, <1>6, <1>7, <1>8, <1>9, <1>10, <1>11, <1>a DEF Next, Caller

\* Every captured bit reaches the operation that asked for it, once and in order, in
\* every drain mode and for every number of operations, as long as no transfer fails:
\* the reader thread, the caller and the device's buffers never mix them up, and none
\* is left for the next operation.  A one-chunk operation writes before it reads, so
\* what it writes has to fit the device's buffers (_dmi_batch's chunk limit).
THEOREM CleanSession ==
  ASSUME Chunk <= InSize + OutSize
  PROVE  Spec => []CleanCaptures
<1>1. TypeInv /\ CleanInv => CleanCaptures
  <2> SUFFICES ASSUME TypeInv, CleanInv, fails = 0 PROVE OwnCaptures /\ (main = "drain" => Silent /\ alive = {})
    BY DEF CleanCaptures
  <2> QED BY DEF CleanInv, DoneInv, OwnCaptures, QuietInv, ReaderInv, Running
<1>2. TypeInv /\ CleanInv /\ [Next]_vars => TypeInv' /\ CleanInv'
  BY NextType, NextClean
<1> QED BY <1>1, <1>2, InitType, InitClean, PTL DEF Spec

\* Under the same hypothesis no operation raises: neither the write timeout nor the
\* reader's patience ever takes a device that is merely full for a dead one.
THEOREM NothingRaisesClean ==
  ASSUME Chunk <= InSize + OutSize
  PROVE  Spec => []NothingRaises
<1>1. TypeInv /\ CleanInv => NothingRaises
  <2> SUFFICES ASSUME TypeInv, CleanInv, fails = 0, NEW o \in 1..Len(results) PROVE results[o] # Raised
    BY DEF NothingRaises
  <2> DEFINE whole == [i \in 1..Sizes[o] |-> <<o, i>>]
  <2>1. o \in Ops
    BY SizesType DEF TypeInv, TypeOK, Ops
  <2>2. Sizes[o] \in Nat /\ \A i \in 1..Sizes[o] : <<o, i>> \in Unit
    BY <2>1, SizesType DEF Unit
  <2>3. whole \in Seq(Unit)
    BY <2>2
  <2> QED BY <2>3, RaisedAssumption DEF CleanInv, DoneInv
<1>2. TypeInv /\ CleanInv /\ [Next]_vars => TypeInv' /\ CleanInv'
  BY NextType, NextClean
<1> QED BY <1>1, <1>2, InitType, InitClean, PTL DEF Spec
=============================================================================
