-------------------------- MODULE CaptureRingProofs --------------------------
(***************************************************************************)
(* The accounting of CaptureRing, proved for every ring size, packet size  *)
(* and source.  The inductive invariant adds to the properties themselves  *)
(* what the capture thread holds at each of its steps (Holding) and a      *)
(* bound on every packet still in the ring (QueuedLate): the j-th packet of*)
(* the queue can be numbered no lower than its place in the capture.       *)
(***************************************************************************)
EXTENDS CaptureRing, TLAPS

Holding ==
  /\ spare => ~current /\ producer \notin {"submitting", "notifying", "dropping"}
  /\ current => producer \notin {"submitting", "notifying", "dropping"}
  /\ ~current => currentLen = 0
  /\ producer \in {"idle", "finishing", "announcing", "exited"} => pcm = 0

QueuedLate ==
  /\ \A j \in 1 .. Len(queue) :
        queue[j] <= position + One(receiver = "crediting") + dropped + j - 1
  /\ receiver = "crediting" => taken <= position + dropped

Inv == /\ RingTypeOK /\ Holding /\ FramesConserved
       /\ NothingUnaccounted /\ BytesKept /\ QueuedLate /\ NeverEarly

USE DEF Inv, RingTypeOK, Holding, FramesConserved, NothingUnaccounted, BytesKept,
        QueuedLate, NeverEarly, producerVars, receiverVars, statusVars

\* The frames outside the capture thread's hands cannot be all there are.
LEMMA FrameAvailable == RingTypeOK /\ FramesConserved => NeverStarved
<1> SUFFICES ASSUME RingTypeOK, FramesConserved, producer = "filling", ~current,
                    ~spare, recycled = 0
             PROVE  FALSE
  BY DEF NeverStarved, Starved
<1> QED  BY RingAssumption DEF One, PoolPackets

\* A started worker satisfies the invariant.
LEMMA InvInit == Init => Inv
<1> SUFFICES ASSUME Init PROVE Inv
  OBVIOUS
<1>1. queue = <<>> /\ recycled = QueueItems + 2 /\ spare = FALSE /\ current = FALSE
  BY DEF Init, PoolPackets
<1>2. RingTypeOK
  <2>1. queue \in Seq(Nat) /\ Len(queue) <= QueueItems
    BY RingAssumption DEF Init
  <2>2. recycled \in 0 .. PoolPackets
    BY RingAssumption DEF Init, PoolPackets
  <2>3. /\ currentLen \in 0 .. PacketBytes - 1 /\ pcm \in Nat /\ dropped \in Nat
        /\ taken \in Nat /\ captured \in Nat /\ delivered \in Nat
        /\ position \in Nat /\ lastPosition \in Nat
    BY RingAssumption DEF Init
  <2> QED  BY <2>1, <2>2, <2>3 DEF Init
<1>3. Holding
  BY DEF Init
<1>4. FramesConserved
  BY <1>1, RingAssumption DEF Init, One, PoolPackets
<1>5. NothingUnaccounted /\ BytesKept
  BY <1>1, RingAssumption DEF Init, One
<1>6. QueuedLate /\ NeverEarly
  BY <1>1 DEF Init, One
<1> QED  BY <1>2, <1>3, <1>4, <1>5, <1>6

\* A full packet is counted as captured; a part of one stays in the current
\* frame.
LEMMA CopyChunkKeeps == ASSUME Inv, CopyChunk PROVE Inv'
<1>1. Copied \in Nat /\ Copied <= pcm /\ Copied <= PacketBytes - currentLen
      /\ currentLen + Copied \in 0 .. PacketBytes
  BY RingAssumption DEF Copied
<1>2. CASE currentLen + Copied = PacketBytes
  <2>1. /\ pcm' = pcm - Copied /\ producer' = "submitting" /\ current' = FALSE
        /\ currentLen' = 0 /\ captured' = captured + 1
        /\ producer = "filling" /\ current = TRUE
        /\ UNCHANGED <<queue, recycled, signalled, spare, delivered, receiver, taken,
                       position, lastPosition, stopRequested, producerFinished, dropped>>
    BY <1>2 DEF CopyChunk
  <2>2. pcm' \in Nat
    <3> HIDE DEF Inv
    <3> QED  BY <1>1, <2>1 DEF Inv
  <2>3. currentLen' \in 0 .. PacketBytes - 1 /\ captured' \in Nat
    <3> HIDE DEF BytesKept
    <3> QED  BY <2>1, RingAssumption
  <2>4. RingTypeOK' /\ Holding'
    BY <2>1, <2>2, <2>3
  <2>5. FramesConserved'
    <3>1. /\ One(current) = 1 /\ One(producer \in {"submitting", "dropping"}) = 0
          /\ One(current') = 0 /\ One(producer' \in {"submitting", "dropping"}) = 1
      BY <2>1 DEF One
    <3>2. One(spare) \in Nat /\ One(receiver \in {"crediting", "sending"}) \in Nat
      BY DEF One
    <3> HIDE DEF BytesKept, NothingUnaccounted, QueuedLate, NeverEarly, Holding
    <3> QED  BY <2>1, <3>1, <3>2
  <2>6. NothingUnaccounted'
    BY <2>1 DEF One
  <2>7. BytesKept'
    <3>1. PacketBytes * (captured + 1) = PacketBytes * captured + PacketBytes
      BY RingAssumption
    <3> DEFINE whole == PacketBytes * captured
    <3>2. whole \in Nat
      BY RingAssumption
    <3>3. delivered = whole + currentLen + pcm
      OBVIOUS
    <3> HIDE DEF whole, BytesKept
    <3>4. delivered = whole + PacketBytes + 0 + (pcm - Copied)
      BY <1>1, <1>2, <3>2, <3>3, RingAssumption
    <3> QED  BY <2>1, <3>1, <3>4 DEF whole, BytesKept
  <2>8. QueuedLate' /\ NeverEarly'
    BY <2>1
  <2> QED  BY <2>4, <2>5, <2>6, <2>7, <2>8
<1>3. CASE currentLen + Copied # PacketBytes
  <2>1. /\ pcm' = pcm - Copied /\ producer' = "idle" /\ current' = TRUE
        /\ currentLen' = currentLen + Copied /\ captured' = captured
        /\ producer = "filling" /\ current = TRUE
        /\ UNCHANGED <<queue, recycled, signalled, spare, delivered, receiver, taken,
                       position, lastPosition, stopRequested, producerFinished, dropped>>
    BY <1>3 DEF CopyChunk
  <2>2. pcm' = 0
    BY <1>1, <1>3, <2>1, RingAssumption DEF Copied
  <2>3. RingTypeOK' /\ Holding'
    BY <1>1, <1>3, <2>1, <2>2, RingAssumption
  <2>4. FramesConserved' /\ NothingUnaccounted'
    BY <2>1, RingAssumption DEF One, PoolPackets
  <2>5. BytesKept'
    BY <1>1, <2>1, RingAssumption
  <2>6. QueuedLate' /\ NeverEarly'
    BY <2>1
  <2> QED  BY <2>3, <2>4, <2>5, <2>6
<1> QED  BY <1>2, <1>3

\* Since a frame is available, push_pcm takes one: from its own hand or from
\* the second ring.
LEMMA AcquireFrameKeeps == ASSUME Inv, AcquireFrame PROVE Inv'
<1>1. ~Starved
  BY FrameAvailable DEF NeverStarved, AcquireFrame
<1>2. /\ producer = "filling" /\ current = FALSE /\ current' = TRUE /\ spare' = FALSE
      /\ currentLen' = 0 /\ recycled' = IF spare THEN recycled ELSE recycled - 1
      /\ UNCHANGED <<producer, pcm, dropped, queue, signalled, captured, delivered,
                     receiver, taken, position, lastPosition, stopRequested,
                     producerFinished>>
  BY <1>1 DEF AcquireFrame
<1>3. recycled' \in 0 .. PoolPackets
  BY <1>1, <1>2, RingAssumption DEF Starved, PoolPackets
<1>4. RingTypeOK' /\ Holding'
  BY <1>2, <1>3, RingAssumption
<1>5. FramesConserved'
  <2>1. CASE spare = TRUE
    BY <1>2, <2>1, RingAssumption DEF One, PoolPackets
  <2>2. CASE spare = FALSE
    BY <1>2, <2>2, RingAssumption DEF One, PoolPackets
  <2> QED  BY <2>1, <2>2
<1>6. NothingUnaccounted' /\ BytesKept'
  BY <1>2, RingAssumption DEF One
<1>7. QueuedLate' /\ NeverEarly'
  BY <1>2
<1> QED  BY <1>4, <1>5, <1>6, <1>7

\* Every other step, one by one.
LEMMA InvNext == Inv /\ [Next]_vars => Inv'
<1> SUFFICES ASSUME Inv, [Next]_vars PROVE Inv'
  OBVIOUS
<1>1. ASSUME NEW n \in Chunks, Deliver(n) PROVE Inv'
  BY <1>1, RingAssumption DEF Deliver, One, PoolPackets
<1>2. CASE AcquireFrame
  BY <1>2, AcquireFrameKeeps
<1>3. CASE CopyChunk
  BY <1>3, CopyChunkKeeps
<1>4. CASE SubmitPush
  BY <1>4, RingAssumption DEF SubmitPush, One, PoolPackets, Room
<1>5. CASE SubmitFull
  BY <1>5, RingAssumption DEF SubmitFull, One, PoolPackets, Room
<1>6. CASE RecordDropped
  BY <1>6, RingAssumption DEF RecordDropped, One, PoolPackets, AfterSubmit
<1>7. CASE Notify
  BY <1>7, RingAssumption DEF Notify, One, PoolPackets, AfterSubmit
<1>8. CASE SourceFails
  BY <1>8, RingAssumption DEF SourceFails, One, PoolPackets
<1>9. CASE SourceStops
  BY <1>9, RingAssumption DEF SourceStops, One, PoolPackets
<1>10. CASE Finish
  BY <1>10, RingAssumption DEF Finish, One, PoolPackets
<1>11. CASE Announce
  BY <1>11, RingAssumption DEF Announce, One, PoolPackets
<1>12. CASE Receive
  BY <1>12, RingAssumption DEF Receive, One, PoolPackets
<1>13. CASE PopFrame
  BY <1>13, RingAssumption DEF PopFrame, One, PoolPackets
<1>14. CASE PopEmpty
  BY <1>14, RingAssumption DEF PopEmpty, One, PoolPackets
<1>15. CASE CheckFinished
  BY <1>15, RingAssumption DEF CheckFinished, One, PoolPackets
<1>16. CASE Wake
  BY <1>16, RingAssumption DEF Wake, One, PoolPackets
<1>17. CASE CreditDrops
  BY <1>17, RingAssumption DEF CreditDrops, One, PoolPackets
<1>18. CASE Recycle
  BY <1>18, RingAssumption DEF Recycle, One, PoolPackets
<1>19. CASE Shutdown
  BY <1>19, RingAssumption DEF Shutdown, One, PoolPackets
<1>20. CASE Join
  BY <1>20, RingAssumption DEF Join, One, PoolPackets
<1>21. CASE UNCHANGED vars
  BY <1>21 DEF vars, One
<1>22. Next => \/ \E c \in Chunks : Deliver(c)
            \/ AcquireFrame \/ CopyChunk \/ SubmitPush \/ SubmitFull \/ RecordDropped
            \/ Notify \/ SourceFails \/ SourceStops \/ Finish \/ Announce \/ Receive
            \/ PopFrame \/ PopEmpty \/ CheckFinished \/ Wake \/ CreditDrops \/ Recycle
            \/ Shutdown \/ Join
  <2> HIDE DEF Inv
  <2> QED  BY DEF Next, Capture, Read
<1> HIDE DEF Inv
<1> QED
  BY <1>1, <1>2, <1>3, <1>4, <1>5, <1>6, <1>7, <1>8, <1>9, <1>10, <1>11, <1>12,
     <1>13, <1>14, <1>15, <1>16, <1>17, <1>18, <1>19, <1>20, <1>21, <1>22

\* The strengthened invariant holds of every worker.
THEOREM Invariance == RingSpec => []Inv
<1> HIDE DEF Inv
<1> QED  BY InvInit, InvNext, PTL DEF RingSpec

\* The frame pool, the positions and the flags keep their types and bounds.
THEOREM RingTypeCorrect == RingSpec => []RingTypeOK
<1>1. Inv => RingTypeOK
  OBVIOUS
<1> HIDE DEF Inv
<1> QED  BY <1>1, Invariance, PTL

\* No frame is lost or duplicated on its way round the two rings.
THEOREM FramesAlwaysConserved == RingSpec => []FramesConserved
<1>1. Inv => FramesConserved
  OBVIOUS
<1> HIDE DEF Inv
<1> QED  BY <1>1, Invariance, PTL

\* The capture callback finds a frame whatever the ring size, the chunks and
\* the interleaving: CAPTURE_POOL_PACKETS is the ring and two frames more.
THEOREM CaptureNeverStarved == RingSpec => []NeverStarved
<1>1. Inv => NeverStarved
  BY FrameAvailable
<1> HIDE DEF Inv
<1> QED  BY <1>1, Invariance, PTL

\* Every packet captured is numbered, queued or counted as dropped, once.
THEOREM PacketsAccounted == RingSpec => []NothingUnaccounted
<1>1. Inv => NothingUnaccounted
  OBVIOUS
<1> HIDE DEF Inv
<1> QED  BY <1>1, Invariance, PTL

\* Splitting chunks of any size into packets of any size keeps every byte.
THEOREM SplittingKeepsBytes == RingSpec => []BytesKept
<1>1. Inv => BytesKept
  OBVIOUS
<1> HIDE DEF Inv
<1> QED  BY <1>1, Invariance, PTL

\* A packet is never numbered below its place in the capture.
THEOREM PacketsNeverEarly == RingSpec => []NeverEarly
<1>1. Inv => NeverEarly
  OBVIOUS
<1> HIDE DEF Inv
<1> QED  BY <1>1, Invariance, PTL
=============================================================================
