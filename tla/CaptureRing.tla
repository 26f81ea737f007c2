----------------------------- MODULE CaptureRing -----------------------------
(***************************************************************************)
(* The capture worker of the desktop service (media/capture.rs, signal.rs, *)
(* source.rs and the two platform captures): a capture thread fills frames *)
(* of one packet each and pushes them into a bounded ring, the media sender*)
(* pops them and gives the frames back through a second ring, an eventfd   *)
(* wakes the sender, and a counter tells it how many packets were dropped  *)
(* when the ring was full.                                                 *)
(*                                                                         *)
(* A step is one access to what the two threads share: a ring, the counter,*)
(* a flag or the eventfd.  The module is the life of one worker, from      *)
(* CaptureWorker::start to the join in shutdown.                           *)
(*                                                                         *)
(* A frame is known by the number of the packet captured in it, counted    *)
(* from 0 at the start of the worker; its bytes are left out.              *)
(***************************************************************************)
EXTENDS Integers, Sequences

CONSTANTS QueueItems,    \* CAPTURE_QUEUE_ITEMS
          PacketBytes,   \* bytes of one packet
          Chunks,        \* sizes of the PCM chunks the source delivers
          MaxBytes       \* bound: bytes a source delivers before it falls silent

ASSUME RingAssumption == /\ QueueItems \in Nat \ {0}
                         /\ PacketBytes \in Nat \ {0}
                         /\ Chunks \subseteq Nat \ {0}

VARIABLES
  queue,          \* frames: packets captured and not yet popped
  recycled,       \* recycled: how many frames the second ring holds
  spare, current, \* CaptureProducer: whether it keeps a spare frame, a frame being filled
  currentLen,     \* CaptureProducer::current_len
  pcm,            \* bytes of the chunk not yet copied
  stopRequested, producerFinished, dropped,   \* CaptureStatus
  signalled,      \* the eventfd counter is not zero
  producer,       \* where the capture thread is
  receiver,       \* where the media sender is
  taken,          \* the packet the sender popped last
  captured,       \* packets captured so far
  delivered,      \* bytes the source has delivered
  position,       \* packets the sender has numbered: sent or skipped
  lastPosition    \* the number given to the packet sent last

producerVars == <<spare, current, currentLen, pcm, producer, captured, delivered>>
receiverVars == <<receiver, taken, position, lastPosition>>
statusVars == <<stopRequested, producerFinished, dropped>>
vars == <<queue, recycled, signalled, producerVars, receiverVars, statusVars>>

\* A faulty version: no frame set aside for the sender.
PoolPacketsOneShort == QueueItems + 1

PoolPackets == QueueItems + 2

Init ==
  /\ queue = <<>> /\ recycled = PoolPackets
  /\ spare = FALSE /\ current = FALSE /\ currentLen = 0 /\ pcm = 0
  /\ stopRequested = FALSE /\ producerFinished = FALSE /\ dropped = 0
  /\ signalled = FALSE
  /\ producer = "idle" /\ receiver = "idle"
  /\ taken = 0 /\ captured = 0 /\ delivered = 0
  /\ position = 0 /\ lastPosition = 0

-----------------------------------------------------------------------------
(* The capture thread.  The tone delivers one packet at a time, PipeWire   *)
(* and ScreenCaptureKit chunks of any size.                                *)

Deliver(n) ==
  /\ producer = "idle" /\ delivered + n <= MaxBytes
  /\ producer' = "filling" /\ pcm' = n /\ delivered' = delivered + n
  /\ UNCHANGED <<queue, recycled, signalled, spare, current, currentLen, captured,
                 receiverVars, statusVars>>

PacketsIn(bytes) == (bytes + PacketBytes - 1) \div PacketBytes

Starved == ~spare /\ recycled = 0

\* push_pcm needs a frame: the spare one, or one from the second ring; with
\* neither, the rest of the chunk is counted as dropped.
AcquireFrame ==
  /\ producer = "filling" /\ ~current
  /\ IF Starved
     THEN /\ dropped' = dropped + PacketsIn(pcm)
          /\ producer' = "idle" /\ pcm' = 0
          /\ UNCHANGED <<recycled, current>>
     ELSE /\ recycled' = IF spare THEN recycled ELSE recycled - 1
          /\ current' = TRUE
          /\ UNCHANGED <<dropped, producer, pcm>>
  /\ spare' = FALSE /\ currentLen' = 0
  /\ UNCHANGED <<queue, signalled, captured, delivered, receiverVars,
                 stopRequested, producerFinished>>

Copied == IF pcm < PacketBytes - currentLen THEN pcm ELSE PacketBytes - currentLen

CopyChunk ==
  /\ producer = "filling" /\ current
  /\ pcm' = pcm - Copied
  /\ IF currentLen + Copied = PacketBytes
     THEN /\ producer' = "submitting" /\ current' = FALSE /\ currentLen' = 0
          /\ captured' = captured + 1
     ELSE /\ producer' = "idle" /\ currentLen' = currentLen + Copied
          /\ UNCHANGED <<current, captured>>
  /\ UNCHANGED <<queue, recycled, signalled, spare, delivered, receiverVars, statusVars>>

\* A faulty version: the rest of the chunk is given up after a packet.
AfterSubmitIdle == "idle"

AfterSubmit == IF pcm = 0 THEN "idle" ELSE "filling"

Room == Len(queue) < QueueItems

SubmitPush ==
  /\ producer = "submitting" /\ Room
  /\ queue' = Append(queue, captured - 1) /\ producer' = "notifying"
  /\ UNCHANGED <<recycled, signalled, spare, current, currentLen, pcm, captured, delivered,
                 receiverVars, statusVars>>

SubmitFull ==
  /\ producer = "submitting" /\ ~Room
  /\ producer' = "dropping"
  /\ UNCHANGED <<queue, recycled, signalled, spare, current, currentLen, pcm, captured,
                 delivered, receiverVars, statusVars>>

RecordDropped ==
  /\ producer = "dropping"
  /\ dropped' = dropped + 1 /\ spare' = TRUE /\ producer' = AfterSubmit
  /\ UNCHANGED <<queue, recycled, signalled, current, currentLen, pcm, captured, delivered,
                 receiverVars, stopRequested, producerFinished>>

Notify ==
  /\ producer = "notifying"
  /\ signalled' = TRUE /\ producer' = AfterSubmit
  /\ UNCHANGED <<queue, recycled, spare, current, currentLen, pcm, captured, delivered,
                 receiverVars, statusVars>>

\* The source fails, or sees between two chunks that it is to stop.
SourceFails ==
  /\ producer = "idle" /\ producer' = "finishing"
  /\ UNCHANGED <<queue, recycled, signalled, spare, current, currentLen, pcm, captured,
                 delivered, receiverVars, statusVars>>

SourceStops ==
  /\ producer = "idle" /\ stopRequested /\ producer' = "finishing"
  /\ UNCHANGED <<queue, recycled, signalled, spare, current, currentLen, pcm, captured,
                 delivered, receiverVars, statusVars>>

Finish ==
  /\ producer = "finishing"
  /\ producerFinished' = TRUE /\ producer' = "announcing"
  /\ UNCHANGED <<queue, recycled, signalled, spare, current, currentLen, pcm, captured,
                 delivered, receiverVars, stopRequested, dropped>>

Announce ==
  /\ producer = "announcing"
  /\ signalled' = TRUE /\ producer' = "exited"
  /\ UNCHANGED <<queue, recycled, spare, current, currentLen, pcm, captured, delivered,
                 receiverVars, statusVars>>

-----------------------------------------------------------------------------
(* The media sender's side: receive, recycle and shutdown.                 *)

Receive ==
  /\ receiver = "idle" /\ receiver' = "popping"
  /\ UNCHANGED <<queue, recycled, signalled, producerVars, taken, position, lastPosition,
                 statusVars>>

PopFrame ==
  /\ receiver = "popping" /\ queue # <<>>
  /\ taken' = Head(queue) /\ queue' = Tail(queue) /\ receiver' = "crediting"
  /\ UNCHANGED <<recycled, signalled, producerVars, position, lastPosition, statusVars>>

PopEmpty ==
  /\ receiver = "popping" /\ queue = <<>>
  /\ receiver' = "checking"
  /\ UNCHANGED <<queue, recycled, signalled, producerVars, taken, position, lastPosition,
                 statusVars>>

\* A faulty version: what has been signalled so far is cleared before waiting.
CheckFinishedClearsSignal ==
  /\ receiver = "checking"
  /\ receiver' = IF producerFinished THEN "failed" ELSE "waiting"
  /\ signalled' = FALSE
  /\ UNCHANGED <<queue, recycled, producerVars, taken, position, lastPosition, statusVars>>

CheckFinished ==
  /\ receiver = "checking"
  /\ receiver' = IF producerFinished THEN "failed" ELSE "waiting"
  /\ UNCHANGED <<queue, recycled, signalled, producerVars, taken, position, lastPosition,
                 statusVars>>

Wake ==
  /\ receiver = "waiting" /\ signalled
  /\ signalled' = FALSE /\ receiver' = "popping"
  /\ UNCHANGED <<queue, recycled, producerVars, taken, position, lastPosition, statusVars>>

\* A faulty version: the counter is read but not reset.
CreditDropsTwice ==
  /\ receiver = "crediting"
  /\ lastPosition' = position + dropped /\ position' = position + dropped + 1
  /\ receiver' = "sending"
  /\ UNCHANGED <<queue, recycled, signalled, producerVars, taken, statusVars>>

\* A faulty version: the packet is numbered before the drops are skipped.
CreditDropsLate ==
  /\ receiver = "crediting"
  /\ dropped' = 0
  /\ lastPosition' = position /\ position' = position + 1 + dropped
  /\ receiver' = "sending"
  /\ UNCHANGED <<queue, recycled, signalled, producerVars, taken, stopRequested,
                 producerFinished>>

\* receive returns the drops counted so far with the frame; the sender skips
\* that many packets and numbers this one.
CreditDrops ==
  /\ receiver = "crediting"
  /\ dropped' = 0
  /\ lastPosition' = position + dropped /\ position' = position + dropped + 1
  /\ receiver' = "sending"
  /\ UNCHANGED <<queue, recycled, signalled, producerVars, taken, stopRequested,
                 producerFinished>>

Recycle ==
  /\ receiver = "sending"
  /\ recycled' = IF recycled < PoolPackets THEN recycled + 1 ELSE recycled
  /\ receiver' = "idle"
  /\ UNCHANGED <<queue, signalled, producerVars, taken, position, lastPosition, statusVars>>

\* A faulty version: the thread is joined without having been told to stop.
ShutdownJoinsOnly ==
  /\ receiver \in {"idle", "failed"}
  /\ receiver' = "joining"
  /\ UNCHANGED <<queue, recycled, signalled, producerVars, taken, position, lastPosition,
                 statusVars>>

Shutdown ==
  /\ receiver \in {"idle", "failed"}
  /\ stopRequested' = TRUE /\ receiver' = "joining"
  /\ UNCHANGED <<queue, recycled, signalled, producerVars, taken, position, lastPosition,
                 producerFinished, dropped>>

Join ==
  /\ receiver = "joining" /\ producer = "exited"
  /\ receiver' = "closed"
  /\ UNCHANGED <<queue, recycled, signalled, producerVars, taken, position, lastPosition,
                 statusVars>>

-----------------------------------------------------------------------------
Capture == AcquireFrame \/ CopyChunk \/ SubmitPush \/ SubmitFull \/ RecordDropped
           \/ Notify \/ SourceStops \/ Finish \/ Announce
Read == PopFrame \/ PopEmpty \/ CheckFinished \/ Wake \/ CreditDrops \/ Recycle \/ Join

Next ==
  \/ \E n \in Chunks : Deliver(n)
  \/ Capture \/ SourceFails
  \/ Read \/ Receive \/ Shutdown

RingSpec == Init /\ [][Next]_vars

(* The capture thread's steps are taken as the thread is scheduled, except *)
(* that a source may fall silent and need not fail.  The sender, a task of *)
(* the runtime, goes on polling; its loop either receives again or, with   *)
(* no target or after an error, shuts the worker down.  send_to returns.   *)
FairRingSpec ==
  /\ RingSpec
  /\ WF_vars(Capture) /\ WF_vars(Read) /\ WF_vars(Receive \/ Shutdown)

-----------------------------------------------------------------------------
RingTypeOK ==
  /\ queue \in Seq(Nat) /\ Len(queue) <= QueueItems
  /\ recycled \in 0 .. PoolPackets
  /\ spare \in BOOLEAN /\ current \in BOOLEAN
  /\ currentLen \in 0 .. PacketBytes - 1 /\ pcm \in Nat
  /\ stopRequested \in BOOLEAN /\ producerFinished \in BOOLEAN /\ dropped \in Nat
  /\ signalled \in BOOLEAN
  /\ producer \in {"idle", "filling", "submitting", "notifying", "dropping", "finishing",
                   "announcing", "exited"}
  /\ receiver \in {"idle", "popping", "checking", "waiting", "crediting", "sending",
                   "failed", "joining", "closed"}
  /\ taken \in Nat /\ captured \in Nat /\ delivered \in Nat
  /\ position \in Nat /\ lastPosition \in Nat

One(b) == IF b THEN 1 ELSE 0

\* No frame is lost or duplicated on its way round the two rings, so the
\* `let _ =` on the return push never throws one away.
FramesConserved ==
  recycled + One(spare) + One(current) + One(producer \in {"submitting", "dropping"})
    + Len(queue) + One(receiver \in {"crediting", "sending"}) = PoolPackets

\* CAPTURE_POOL_PACKETS is enough: the capture callback always finds a frame,
\* however the two threads run, and so never has to guess how many packets the
\* rest of a chunk makes.
NeverStarved == producer = "filling" /\ ~current => ~Starved

\* Every packet captured is numbered, queued, or counted as dropped, exactly
\* once: after the queue has drained the RTP clock is the capture clock.
NothingUnaccounted ==
  captured = position + dropped + Len(queue)
             + One(producer \in {"submitting", "dropping"}) + One(receiver = "crediting")

\* Splitting chunks into packets neither loses nor repeats a byte.
BytesKept == delivered = PacketBytes * captured + currentLen + pcm

\* A packet never gets an RTP sequence number below its place in the capture:
\* the drops before it have been credited by the time it is sent.
NeverEarly == receiver = "sending" => lastPosition >= taken

\* What technical-design.md says of a full queue: the sequence numbers are
\* advanced for the interval that was dropped, so a packet's number is its
\* place in the capture.
GapWhereDropped == receiver = "sending" => lastPosition = taken

Over == receiver \in {"failed", "joining", "closed"}

\* A queued frame wakes the sender: no notification is lost between the empty
\* pop and the wait.
QueuedFrameIsTaken == queue # <<>> ~> receiver = "crediting" \/ Over

\* The end of the capture thread is always noticed.
EndIsNoticed == producerFinished ~> Over

\* The sender never sleeps through either, also when the source falls silent.
SenderWakes == QueuedFrameIsTaken /\ EndIsNoticed

\* Shutdown returns: the join is not waited for in vain.
ShutdownReturns == receiver = "joining" ~> receiver = "closed"
=============================================================================
