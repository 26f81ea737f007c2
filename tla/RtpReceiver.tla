------------------------------ MODULE RtpReceiver ------------------------------
(***************************************************************************)
(* RtpAudioReceiver.playBuffered of the Android player: a receive thread   *)
(* fills packets from a bounded pool and passes them through a ring to the *)
(* playback coroutine, which orders them in a jitter buffer, writes them   *)
(* to the AudioTrack, hides the missing ones and asks for them again, and  *)
(* fills the buffer anew when it must.  A second ring returns the packets. *)
(*                                                                         *)
(* A step is one access to what the two share (a ring or the conflated     *)
(* signal) or one decision of the coroutine.  What depends on clocks and   *)
(* the AudioTrack (how much audio is queued, underruns, whether a retry is *)
(* due) is left open.  A packet is its sequence number; the ring that      *)
(* returns packets is their count, as the pool cannot exceed it.           *)
(***************************************************************************)
EXTENDS JitterBuffer, Sequences

CONSTANTS QueueCapacity,    \* PACKET_QUEUE_CAPACITY
          Headroom,         \* PACKET_POOL_HEADROOM
          BacklogMargin     \* backlogMarginPackets

ASSUME ReceiverAssumption ==
  /\ QueueCapacity \in Nat \ {0}
  /\ Headroom \in Nat /\ Headroom >= 2
  /\ BacklogMargin \in Nat

VARIABLES
  free,       \* freePackets: packets in the pool
  ready,      \* readyPackets: packets received
  signal,     \* packetSignal
  receiver,   \* where the receive thread is
  jb,         \* jitterBuffer
  hand,       \* the packet the coroutine holds, or None
  at,         \* where the coroutine is
  left        \* packets still to write before playback starts

pool == <<free, ready>>
thread == <<signal, receiver>>
vars == <<pool, thread, jb, hand, at, left>>

Targets == 1 .. MaxBuffered
Places == {"entering", "entered", "filling", "filled", "prebuffering", "looping", "top",
           "drained", "deciding", "starving", "writing", "waiting", "resuming", "closing",
           "closed"}

\* A faulty version: the packets in the two threads' hands are forgotten.
PoolSizeOfRings == QueueCapacity + SlotCount

PoolSize == QueueCapacity + SlotCount + Headroom

Init ==
  /\ free = PoolSize /\ ready = <<>> /\ signal = FALSE
  /\ receiver = "polling"
  /\ \E target \in Targets : jb = EmptyBuffer(target)
  /\ hand = None /\ at = "entering" /\ left = 0

-----------------------------------------------------------------------------
(* The receive thread.                                                     *)

PollFree ==
  /\ receiver = "polling"
  /\ IF free > 0 THEN free' = free - 1 /\ receiver' = "armed"
                 ELSE receiver' = "bare" /\ UNCHANGED free
  /\ UNCHANGED <<ready, signal, jb, hand, at, left>>

\* A valid packet goes into the ring.  If the ring is full, or the packet is not
\* valid, the thread receives into the same buffer again.  Without a packet to
\* fill, what it receives is lost.
Receive(n) ==
  /\ receiver \in {"armed", "bare"}
  /\ IF receiver = "armed" /\ Len(ready) < QueueCapacity
     THEN ready' = Append(ready, n) /\ receiver' = "signalling"
     ELSE receiver' = (IF receiver = "bare" THEN "polling" ELSE "armed") /\ UNCHANGED ready
  /\ UNCHANGED <<free, signal, jb, hand, at, left>>

Signals ==
  /\ receiver = "signalling"
  /\ signal' = TRUE /\ receiver' = "polling"
  /\ UNCHANGED <<pool, jb, hand, at, left>>

\* The socket fails, or is closed when the coroutine ends; or the thread sees
\* that it is cancelled.
ReceiverStops ==
  /\ receiver \in {"polling", "armed", "bare"} /\ receiver' = "stopped"
  /\ UNCHANGED <<pool, signal, jb, hand, at, left>>

-----------------------------------------------------------------------------
(* The playback coroutine: draining.                                       *)

Draining == {"entering", "filling", "top", "resuming"}

\* Where a drain begun in each place ends.
Drained(place) ==
  CASE place = "entering" -> "entered"
    [] place = "filling" -> "filled"
    [] place = "top" -> "drained"
    [] place = "resuming" -> "looping"

PollReady ==
  /\ at \in Draining /\ hand = None /\ ready # <<>>
  /\ hand' = Head(ready) /\ ready' = Tail(ready)
  /\ UNCHANGED <<free, thread, jb, at, left>>

\* The packet goes to the buffer, and what the buffer lets go of to the pool.
\* The drain ends early when the stream seems to have begun anew.
OfferPacket(target) ==
  /\ at \in Draining /\ hand # None
  /\ jb' = Offer(UpdateTarget(jb, target), hand)
  /\ free' = free + 1 + jb.pending - jb'.pending
  /\ hand' = None
  /\ at' = IF NeedsSequenceReset(jb') THEN Drained(at) ELSE at
  /\ UNCHANGED <<ready, thread, left>>

NothingReady ==
  /\ at \in Draining /\ hand = None /\ ready = <<>>
  /\ at' = Drained(at)
  /\ UNCHANGED <<pool, thread, jb, hand, left>>

-----------------------------------------------------------------------------
(* Rebuffering: fill the buffer, start near the newest packet, and write   *)
(* some packets before playback starts.                                    *)

\* A drain before the loop is followed by another in it.
FillAgain ==
  /\ at = "entered" /\ ~ReadyToStart(jb)
  /\ at' = "filling"
  /\ UNCHANGED <<pool, thread, jb, hand, left>>

AwaitPacket ==
  /\ at = "filled" /\ ~ReadyToStart(jb) /\ signal
  /\ signal' = FALSE /\ at' = "filling"
  /\ UNCHANGED <<pool, receiver, jb, hand, left>>

StreamTimesOut ==
  /\ at = "filled" /\ ~ReadyToStart(jb)
  /\ at' = "closing"
  /\ UNCHANGED <<pool, thread, jb, hand, left>>

Start(packets) ==
  /\ at \in {"entered", "filled"} /\ ReadyToStart(jb) /\ packets <= jb.target
  /\ jb' = StartNearLive(jb)
  /\ free' = free + jb.pending - jb'.pending
  /\ left' = packets /\ at' = "prebuffering"
  /\ UNCHANGED <<ready, thread, hand>>

\* A packet that is missing here is not passed over: silence is written for
\* each of the packets that are left.
Prebuffer ==
  /\ at = "prebuffering" /\ left > 0 /\ hand = None
  /\ IF HasExpected(jb)
     THEN hand' = jb.expected /\ jb' = TakeExpected(jb) /\ UNCHANGED left
     ELSE left' = left - 1 /\ UNCHANGED <<hand, jb>>
  /\ UNCHANGED <<pool, thread, at>>

PrebufferWritten ==
  /\ at = "prebuffering" /\ hand # None
  /\ hand' = None /\ free' = free + 1 /\ left' = left - 1
  /\ UNCHANGED <<ready, thread, jb, at>>

StartsPlaying ==
  /\ at = "prebuffering" /\ left = 0 /\ hand = None
  /\ at' = "looping"
  /\ UNCHANGED <<pool, thread, jb, hand, left>>

-----------------------------------------------------------------------------
(* The playback loop.                                                      *)

Continue ==
  /\ at = "looping" /\ at' = "top"
  /\ UNCHANGED <<pool, thread, jb, hand, left>>

\* An underrun raises the target, and calls for a new start if little audio
\* is left.
CheckUnderrun ==
  /\ at = "drained"
  /\ \/ at' = "deciding" /\ UNCHANGED jb
     \/ at' \in {"deciding", "starving"} /\ \E target \in Targets : jb' = UpdateTarget(jb, target)
  /\ UNCHANGED <<pool, thread, hand, left>>

Resynchronise ==
  /\ at \in {"deciding", "starving"} /\ NeedsSequenceReset(jb)
  /\ jb' = Reset(jb) /\ free' = free + jb.pending
  /\ at' = "entering"
  /\ UNCHANGED <<ready, thread, hand, left>>

Backlog == Lead(jb) > jb.target + BacklogMargin /\ ReadyToStart(jb)

Rebuffer ==
  /\ ~NeedsSequenceReset(jb)
  /\ at = "starving" \/ (at = "deciding" /\ Backlog)
  /\ at' = "entering"
  /\ UNCHANGED <<pool, thread, jb, hand, left>>

Playing == at = "deciding" /\ ~NeedsSequenceReset(jb) /\ ~Backlog

\* A faulty version: a packet goes back to the pool when it is taken out of the
\* buffer, and again when it has been written.
PlayRecycling ==
  /\ Playing /\ HasExpected(jb)
  /\ hand' = jb.expected /\ jb' = TakeExpected(jb)
  /\ free' = free + 1
  /\ at' = "writing"
  /\ UNCHANGED <<ready, thread, left>>

Play ==
  /\ Playing /\ HasExpected(jb)
  /\ hand' = jb.expected /\ jb' = TakeExpected(jb)
  /\ at' = "writing"
  /\ UNCHANGED <<pool, thread, left>>

Written ==
  /\ at = "writing"
  /\ hand' = None /\ free' = free + 1 /\ at' = "looping"
  /\ UNCHANGED <<ready, thread, jb, left>>

\* A faulty version: a signal thought to be stale is dropped before the wait.
WaitAfresh ==
  /\ Playing /\ ~HasExpected(jb)
  /\ at' = "waiting" /\ signal' = FALSE
  /\ UNCHANGED <<pool, receiver, jb, hand, left>>

\* It waits while enough audio is queued, having asked for the packet if a later
\* one is there, and also when it cannot conceal.
WaitForMissing ==
  /\ Playing /\ ~HasExpected(jb)
  /\ at' = "waiting"
  /\ UNCHANGED <<pool, thread, jb, hand, left>>

\* Too little audio is queued to wait.
Conceal ==
  /\ Playing /\ HasLater(jb) /\ ShouldConceal(jb)
  /\ jb' = ConcealExpected(jb) /\ free' = free + jb.pending - jb'.pending
  /\ at' = "looping"
  /\ UNCHANGED <<ready, thread, hand, left>>

PacketArrived ==
  /\ at = "waiting" /\ signal
  /\ signal' = FALSE /\ at' = "resuming"
  /\ UNCHANGED <<pool, receiver, jb, hand, left>>

\* Nothing came in time: look again, or give the stream up.  A signal received
\* as the time runs out may be lost with it.
WaitTimesOut ==
  /\ at = "waiting" /\ at' \in {"looping", "closing"}
  /\ signal' \in {signal, FALSE}
  /\ UNCHANGED <<pool, receiver, jb, hand, left>>

-----------------------------------------------------------------------------
(* The end.                                                                *)

\* Cancellation, by the service or because the receive thread failed; in the
\* loop, also a refusal by the AudioTrack of the silence that conceals.
Cancelled ==
  /\ at \in {"entered", "filled", "looping", "waiting"}
  /\ at' = "closing"
  /\ UNCHANGED <<pool, thread, jb, hand, left>>

\* The AudioTrack refuses what is written, or to start; a packet in hand is
\* dropped.
WriteFails ==
  /\ at \in {"prebuffering", "writing"}
  /\ at' = "closing" /\ hand' = None
  /\ UNCHANGED <<pool, thread, jb, left>>

Close ==
  /\ at = "closing" /\ receiver = "stopped"
  /\ jb' = Reset(jb) /\ free' = free + jb.pending /\ at' = "closed"
  /\ UNCHANGED <<ready, thread, hand, left>>

-----------------------------------------------------------------------------

ReceiveThread == PollFree \/ Signals \/ ReceiverStops

Playback ==
  \/ PollReady \/ NothingReady \/ \E target \in Targets : OfferPacket(target)
  \/ FillAgain \/ AwaitPacket \/ StreamTimesOut
  \/ \E packets \in 0 .. MaxBuffered : Start(packets)
  \/ Prebuffer \/ PrebufferWritten \/ StartsPlaying
  \/ Continue \/ CheckUnderrun \/ Resynchronise \/ Rebuffer
  \/ Play \/ Written \/ WaitForMissing \/ Conceal \/ PacketArrived \/ WaitTimesOut
  \/ Cancelled \/ WriteFails \/ Close

Next == ReceiveThread \/ Playback \/ \E n \in Numbers : Receive(n)

ReceiverSpec == Init /\ [][Next]_vars

-----------------------------------------------------------------------------

\* Types.  The pool's range is the point: it never gets back more packets than
\* it gave away, which would overfill the ring that returns them
\* (RtpAudioReceiver.kt:152, :193).
ReceiverTypeOK ==
  /\ free \in 0 .. PoolSize
  /\ ready \in Seq(Numbers) /\ Len(ready) <= QueueCapacity
  /\ signal \in BOOLEAN
  /\ receiver \in {"polling", "armed", "bare", "signalling", "stopped"}
  /\ jb \in Buffers
  /\ hand \in Numbers \cup {None}
  /\ at \in Places
  /\ left \in 0 .. MaxBuffered

\* The pool suffices: the receive thread always finds a packet to fill, whatever
\* arrives and however long the coroutine takes (RtpAudioReceiver.kt:98).
PoolNeverExhausted == receiver # "bare"

\* Each packet held is in the slot of its number and can still be played: none
\* lies behind the one expected, where it would stay until its slot is taken
\* again; and the count that decides when playback may start is their number
\* (RtpJitterBuffer.kt:42).
HeldAhead == InWindow(jb)

\* No packet waits in the ring for a signal that has been used up, except while
\* the coroutine fills a buffer that suspects a new stream: there it takes one
\* packet for each signal (RtpAudioReceiver.kt:205, :352, :491).
NoLostWakeup ==
  ready # <<>> =>
    /\ at = "waiting" => signal \/ receiver = "signalling"
    /\ at = "filled" => signal \/ receiver = "signalling" \/ NeedsSequenceReset(jb)
==============================================================================
