----------------------------- MODULE MediaSender -----------------------------
(***************************************************************************)
(* The media task of the desktop service: run_media_sender in              *)
(* desktop-service/src/media/sender.rs under the supervisor of main.rs.    *)
(* One iteration of its loop reads the target, starts or takes down the    *)
(* capture worker, numbers a frame, stores it for retransmission, sends it *)
(* and answers requests of the phone; an error ends the attempt and the    *)
(* supervisor starts another after a delay.                                *)
(*                                                                         *)
(* How the target is cached is SenderTarget's subject and how frames reach *)
(* the sender CaptureRing's: here the loop reads the target in one step,   *)
(* and a worker delivers frames, with some dropped before them, until its  *)
(* thread ends.  Frames a finished worker left queued are received before  *)
(* `ended` becomes true.                                                   *)
(*                                                                         *)
(* A packet is known by its position, counted from 0 in every attempt, and *)
(* carries the number position mod 2^16.  Statistics are left out, except  *)
(* the source the status names.                                            *)
(***************************************************************************)
EXTENDS Integers, Sequences, FiniteSets

CONSTANTS Phones,           \* addresses a target can be
          NoTarget,
          Modes,            \* AudioSourceMode: "auto", "system" (a capture), "tone"
          SeqNumbers,       \* 2^16, how many RTP sequence numbers there are
          CachePackets,     \* RETRANSMIT_CACHE_PACKETS
          MaxRetransmits,   \* MAX_RETRANSMITS_PER_MEDIA_PACKET
          InitialDelay,     \* INITIAL_MEDIA_RETRY_DELAY
          MaxDelay,         \* MAX_MEDIA_RETRY_DELAY
          MaxDrop,          \* bound: packets dropped before a frame
          MaxPosition,      \* bound: positions in an attempt
          MaxRequests,      \* bound: requests waiting in the socket
          MaxFailures       \* bound: failures in a behaviour

ASSUME MediaAssumption ==
  /\ NoTarget \notin Phones
  /\ Modes \subseteq {"auto", "system", "tone"}
  /\ CachePackets \in Nat \ {0}
  /\ SeqNumbers \in Nat \ {0} /\ SeqNumbers % CachePackets = 0   \* powers of two
  /\ MaxRetransmits \in Nat \ {0}
  /\ InitialDelay \in Nat \ {0} /\ MaxDelay \in Nat /\ InitialDelay <= MaxDelay
  /\ MaxDrop \in Nat

VARIABLES
  mode,       \* the --source option
  target,     \* SessionState's target
  cached,     \* cached_target
  capture,    \* the worker the sender owns: "none", "system" or "tone"
  ended,      \* the owned worker's thread has finished
  live,       \* capture threads alive
  asked,      \* of these, threads told to stop
  label,      \* media_source
  position,   \* packets numbered or skipped in this attempt
  cache,      \* RetransmitCache: slot -> position of the packet in it, or -1
  requests,   \* retransmit requests in the socket's receive buffer
  budget,     \* requests the sender still reads after this packet
  resent,     \* the retransmission just sent
  at,         \* where the media task is
  after,      \* where it goes when the worker has been taken down
  retry,      \* retry_delay
  failures,   \* failures so far
  stored,     \* the packets sent in this attempt, by position
  sentTo,     \* where the last packet went
  late,       \* frames sent to another address since the target last changed
  lateResent  \* retransmissions sent there since

workerVars == <<capture, ended, live, asked>>
packetVars == <<position, cache, stored, sentTo, late, lateResent>>
requestVars == <<requests, budget, resent>>
supervisorVars == <<retry, failures>>
vars == <<mode, target, cached, workerVars, label, packetVars, requestVars, at, after,
          supervisorVars>>

Slots == 0 .. CachePackets - 1
Empty == -1
NothingResent == [asked |-> Empty, packet |-> Empty]

Init ==
  /\ mode \in Modes
  /\ target = NoTarget /\ cached = NoTarget
  /\ capture = "none" /\ ended = FALSE /\ live = 0 /\ asked = 0
  /\ label = "configured"
  /\ position = 0 /\ cache = [s \in Slots |-> Empty] /\ stored = {}
  /\ sentTo = NoTarget /\ late = 0 /\ lateResent = 0
  /\ requests = <<>> /\ budget = 0 /\ resent = NothingResent
  /\ at = "binding" /\ after = "none"
  /\ retry = InitialDelay /\ failures = 0

-----------------------------------------------------------------------------
(* Around the sender: the session's target, a worker's thread, a phone.    *)

SetTarget(t) ==
  /\ target # t
  /\ target' = t /\ late' = 0 /\ lateResent' = 0
  /\ UNCHANGED <<mode, cached, workerVars, label, position, cache, stored, sentTo,
                 requestVars, at, after, supervisorVars>>

CaptureFails ==
  /\ capture = "system" /\ ~ended /\ failures < MaxFailures
  /\ ended' = TRUE /\ live' = live - 1 /\ failures' = failures + 1
  /\ UNCHANGED <<mode, target, cached, capture, asked, label, packetVars, requestVars,
                 at, after, retry>>

\* A thread told to stop ends.
ThreadStops ==
  /\ asked > 0
  /\ live' = live - 1 /\ asked' = asked - 1
  /\ UNCHANGED <<mode, target, cached, capture, ended, label, packetVars, requestVars,
                 at, after, supervisorVars>>

\* A request reaches the socket, from the phone or another of that network.
Request(from, number) ==
  /\ at \notin {"binding", "down", "failing"} /\ Len(requests) < MaxRequests
  /\ requests' = Append(requests, [from |-> from, number |-> number])
  /\ UNCHANGED <<mode, target, cached, workerVars, label, packetVars, budget, resent,
                 at, after, supervisorVars>>

-----------------------------------------------------------------------------
(* run_media_sender.                                                       *)

Bind ==
  /\ at = "binding" /\ at' = "top"
  /\ UNCHANGED <<mode, target, cached, workerVars, label, packetVars, requestVars, after,
                 supervisorVars>>

BindFails ==
  /\ at = "binding" /\ failures < MaxFailures
  /\ at' = "failing" /\ failures' = failures + 1
  /\ UNCHANGED <<mode, target, cached, workerVars, label, packetVars, requestVars, after,
                 retry>>

\* A faulty version: a target is looked for only while there is none.
LoadOnce ==
  /\ at = "top"
  /\ cached' = IF cached = NoTarget THEN target ELSE cached
  /\ at' = IF cached' = NoTarget
           THEN IF capture = "none" THEN "sleeping" ELSE "closing"
           ELSE IF capture = "none" THEN "opening" ELSE "receiving"
  /\ after' = "sleeping"
  /\ UNCHANGED <<mode, target, workerVars, label, packetVars, requestVars, supervisorVars>>

\* A faulty version: without a target the worker is left running.
LoadLeavesWorker ==
  /\ at = "top"
  /\ cached' = target
  /\ at' = IF target = NoTarget THEN "sleeping"
           ELSE IF capture = "none" THEN "opening" ELSE "receiving"
  /\ after' = "sleeping"
  /\ UNCHANGED <<mode, target, workerVars, label, packetVars, requestVars, supervisorVars>>

Load ==
  /\ at = "top"
  /\ cached' = target
  /\ at' = IF target = NoTarget
           THEN IF capture = "none" THEN "sleeping" ELSE "closing"
           ELSE IF capture = "none" THEN "opening" ELSE "receiving"
  /\ after' = "sleeping"
  /\ UNCHANGED <<mode, target, workerVars, label, packetVars, requestVars, supervisorVars>>

Sleep ==
  /\ at = "sleeping" /\ at' = "top"
  /\ UNCHANGED <<mode, target, cached, workerVars, label, packetVars, requestVars, after,
                 supervisorVars>>

StartWorker(kind) ==
  /\ capture' = kind /\ ended' = FALSE /\ live' = live + 1
  /\ UNCHANGED asked

SourceOf(m) == IF m = "tone" THEN "tone" ELSE "system"

\* A faulty version: the status keeps naming the source of before.
OpenUnlabelled ==
  /\ at = "opening"
  /\ StartWorker(SourceOf(mode)) /\ at' = "receiving"
  /\ UNCHANGED <<mode, target, cached, label, packetVars, requestVars, after,
                 supervisorVars>>

Open ==
  /\ at = "opening"
  /\ label' = SourceOf(mode)
  /\ StartWorker(SourceOf(mode)) /\ at' = "receiving"
  /\ UNCHANGED <<mode, target, cached, packetVars, requestVars, after, supervisorVars>>

\* The worker cannot start, or, before the status names it, a platform has no
\* such source (PcmSource::new).
OpenFails ==
  /\ at = "opening" /\ failures < MaxFailures
  /\ label' \in {SourceOf(mode)} \cup (IF mode = "tone" THEN {} ELSE {label})
  /\ at' = "failing" /\ failures' = failures + 1
  /\ UNCHANGED <<mode, target, cached, workerVars, packetVars, requestVars, after,
                 retry>>

NumberOf(p) == p % SeqNumbers
SlotOf(number) == number % CachePackets

\* A faulty version: the slot is that of the number before the drops.
StoreEarly(p) == [cache EXCEPT ![SlotOf(NumberOf(position))] = p]

Store(p) == [cache EXCEPT ![SlotOf(NumberOf(p))] = p]

\* A frame with the drops before it: skip_packets, packetize_into, store.
Receive(dropped) ==
  /\ at = "receiving" /\ ~ended /\ position + dropped < MaxPosition
  /\ position' = position + dropped + 1
  /\ cache' = Store(position + dropped)
  /\ stored' = stored \cup {position + dropped}
  /\ at' = "sending"
  /\ UNCHANGED <<mode, target, cached, workerVars, label, sentTo, late, lateResent, requestVars,
                 after, supervisorVars>>

\* A faulty version: the error ends the attempt in every mode.
ReceiveErrorGivesUp ==
  /\ at = "receiving" /\ ended
  /\ at' = "closing" /\ after' = "failing"
  /\ UNCHANGED <<mode, target, cached, workerVars, label, packetVars, requestVars,
                 supervisorVars>>

\* In mode auto a failed capture is replaced by the tone; the status names it
\* first.  Otherwise the error ends the attempt.
ReceiveError ==
  /\ at = "receiving" /\ ended
  /\ at' = "closing"
  /\ IF mode = "auto" THEN label' = "tone" /\ after' = "fallback"
                      ELSE after' = "failing" /\ UNCHANGED label
  /\ UNCHANGED <<mode, target, cached, workerVars, packetVars, requestVars, supervisorVars>>

\* A faulty version: the worker is only dropped, and its thread not joined.
CloseDetached ==
  /\ at = "closing"
  /\ capture' = "none" /\ ended' = FALSE
  /\ asked' = IF ended THEN asked ELSE asked + 1
  /\ at' = after
  /\ UNCHANGED <<mode, target, cached, live, label, packetVars, requestVars, after,
                 supervisorVars>>

\* CaptureWorker::shutdown: tell the thread to stop, if it still runs ...
Close ==
  /\ at = "closing"
  /\ capture' = "none" /\ ended' = FALSE
  /\ asked' = IF ended THEN asked ELSE asked + 1
  /\ at' = "joining"
  /\ UNCHANGED <<mode, target, cached, live, label, packetVars, requestVars, after,
                 supervisorVars>>

\* ... and wait for it.
Joined ==
  /\ at = "joining" /\ live = 0
  /\ at' = after
  /\ label' = IF after = "sleeping" THEN "idle" ELSE label
  /\ UNCHANGED <<mode, target, cached, workerVars, packetVars, requestVars, after,
                 supervisorVars>>

Fallback ==
  /\ at = "fallback"
  /\ StartWorker("tone") /\ at' = "top"
  /\ UNCHANGED <<mode, target, cached, label, packetVars, requestVars, after,
                 supervisorVars>>

FallbackFails ==
  /\ at = "fallback" /\ failures < MaxFailures
  /\ at' = "failing" /\ failures' = failures + 1
  /\ UNCHANGED <<mode, target, cached, workerVars, label, packetVars, requestVars, after,
                 retry>>

Send ==
  /\ at = "sending"
  /\ sentTo' = cached /\ late' = IF cached = target THEN late ELSE late + 1
  /\ at' = "servicing" /\ budget' = MaxRetransmits
  /\ UNCHANGED <<mode, target, cached, workerVars, label, position, cache, stored, lateResent,
                 requests, resent, after, supervisorVars>>

SendFails ==
  /\ at = "sending" /\ failures < MaxFailures
  /\ at' = "closing" /\ after' = "failing" /\ failures' = failures + 1
  /\ UNCHANGED <<mode, target, cached, workerVars, label, packetVars, requestVars,
                 retry>>

\* A faulty version: a slot answers for every number that falls on it.
HoldsAnyInSlot(number) == cache[SlotOf(number)] # Empty

Holds(number) == /\ cache[SlotOf(number)] # Empty
                 /\ NumberOf(cache[SlotOf(number)]) = number

\* service_retransmit_requests, one request: it is answered if it comes from
\* the cached target and the packet is still in the cache; either way it is gone.
Serve ==
  /\ at = "servicing" /\ budget > 0 /\ requests # <<>>
  /\ LET r == Head(requests)
         answered == r.from = cached /\ Holds(r.number)
     IN  /\ resent' = IF answered
                      THEN [asked |-> r.number, packet |-> cache[SlotOf(r.number)]]
                      ELSE NothingResent
         /\ lateResent' = IF answered /\ cached # target THEN lateResent + 1
                                                        ELSE lateResent
  /\ requests' = Tail(requests) /\ budget' = budget - 1
  /\ UNCHANGED <<mode, target, cached, workerVars, label, position, cache, stored, sentTo,
                 late, at, after, supervisorVars>>

Served ==
  /\ at = "servicing" /\ (budget = 0 \/ requests = <<>>)
  /\ resent' = NothingResent /\ budget' = 0 /\ at' = "top"
  /\ UNCHANGED <<mode, target, cached, workerVars, label, packetVars, requests, after,
                 supervisorVars>>

-----------------------------------------------------------------------------
(* spawn_media_supervisor.                                                 *)

Lesser(a, b) == IF a < b THEN a ELSE b

\* The attempt is over; if it lasted MEDIA_RETRY_RESET_AFTER, the delay starts over.
Fail(lasted) ==
  /\ at = "failing" /\ at' = "down"
  /\ retry' = IF lasted THEN InitialDelay ELSE retry
  /\ UNCHANGED <<mode, target, cached, workerVars, label, packetVars, requestVars, after,
                 failures>>

\* A faulty version: the delay is limited before it is doubled.
NextDelayUnlimited(delay) == 2 * Lesser(delay, MaxDelay)

NextDelay(delay) == Lesser(2 * delay, MaxDelay)

Restart ==
  /\ at = "down" /\ at' = "binding"
  /\ retry' = NextDelay(retry)
  /\ cached' = NoTarget
  /\ position' = 0 /\ cache' = [s \in Slots |-> Empty] /\ stored' = {}
  /\ requests' = <<>> /\ budget' = 0 /\ resent' = NothingResent
  /\ UNCHANGED <<mode, target, workerVars, label, sentTo, late, lateResent, after, failures>>

-----------------------------------------------------------------------------
Attempt == Bind \/ Load \/ Sleep \/ Open \/ ReceiveError \/ Close \/ Joined \/ Fallback
           \/ Send \/ Serve \/ Served
Errors == BindFails \/ OpenFails \/ FallbackFails \/ SendFails \/ CaptureFails
Supervise == (\E lasted \in BOOLEAN : Fail(lasted)) \/ Restart
ToneReceive == capture = "tone" /\ \E d \in 0 .. MaxDrop : Receive(d)

Next ==
  \/ \E t \in Phones \cup {NoTarget} : SetTarget(t)
  \/ \E p \in Phones, n \in 0 .. SeqNumbers - 1 : Request(p, n)
  \/ \E d \in 0 .. MaxDrop : Receive(d)
  \/ ThreadStops \/ Attempt \/ Errors \/ Supervise

MediaSpec == Init /\ [][Next]_vars

(* The runtime goes on polling the media task, timers fire, and a capture  *)
(* thread told to stop does.  The tone's thread delivers a frame per period*)
(* for as long as it lives; a system capture may be silent, and nothing    *)
(* need fail.                                                              *)
FairMediaSpec ==
  /\ MediaSpec
  /\ WF_vars(Attempt) /\ WF_vars(Supervise) /\ WF_vars(ToneReceive) /\ WF_vars(ThreadStops)

-----------------------------------------------------------------------------
MediaTypeOK ==
  /\ mode \in Modes
  /\ target \in Phones \cup {NoTarget} /\ cached \in Phones \cup {NoTarget}
  /\ sentTo \in Phones \cup {NoTarget}
  /\ capture \in {"none", "system", "tone"} /\ ended \in BOOLEAN
  /\ live \in Nat /\ asked \in 0 .. live
  /\ label \in {"configured", "idle", "system", "tone"}
  /\ position \in Nat /\ cache \in [Slots -> Nat \cup {Empty}] /\ stored \subseteq Nat
  /\ requests \in Seq([from : Phones, number : 0 .. SeqNumbers - 1])
  /\ budget \in 0 .. MaxRetransmits /\ late \in Nat /\ lateResent \in Nat
  /\ resent \in [asked : Nat \cup {Empty}, packet : Nat \cup {Empty}]
  /\ at \in {"binding", "top", "sleeping", "opening", "receiving", "closing", "joining",
             "fallback", "sending", "servicing", "failing", "down"}
  /\ after \in {"none", "sleeping", "fallback", "failing"}
  /\ retry \in InitialDelay .. MaxDelay /\ failures \in Nat

\* Explicit capture-thread shutdown: there is never more than one capture
\* thread, across sessions, the fallback and restarts of the sender.
OneWorker == live <= 1

\* A retransmission is the packet sent last under the number asked for, never
\* one that only shares its slot, whatever was skipped and however often the
\* numbers have wrapped.
ResendsWhatWasAsked ==
  resent # NothingResent =>
    /\ resent.packet \in stored /\ NumberOf(resent.packet) = resent.asked
    /\ \A q \in stored : NumberOf(q) = resent.asked => q <= resent.packet

\* Of the last CachePackets positions every packet sent can still be had.
RecentIsCached ==
  \A p \in stored : p + CachePackets >= position => cache[SlotOf(NumberOf(p))] = p

\* When a session ends or moves, its address is sent at most the frame in hand
\* and what that frame's one round of requests asks for.
OneLateRound == late <= 1 /\ lateResent <= MaxRetransmits

\* The status names the source the packets come from.
LabelNamesSource == at \in {"sending", "servicing"} => label = capture

\* The bound on positions withholds the next frame.
Stuck == at = "receiving" /\ position + MaxDrop >= MaxPosition

\* With the test tone, a phone that stays the target is sent packets, whatever
\* failed before.
ToneReachesTarget ==
  \A p \in Phones : mode = "tone" /\ target = p ~> sentTo = p \/ target # p \/ Stuck

\* In mode auto, once the sender meets the error of a failed capture, packets
\* flow again, unless the session ends or something else fails.  (A capture that
\* dies while it is being taken down is never met, and its successor may be
\* silent.)
FallbackStreams ==
  \A k \in 1 .. MaxFailures :
    mode = "auto" /\ at = "receiving" /\ ended /\ failures = k
      ~> at = "servicing" \/ target = NoTarget \/ failures > k \/ Stuck

\* Whatever fails, the stream or the tone in its place comes back.
StreamsAgain == ToneReachesTarget /\ FallbackStreams

\* Once a session on the tone is over its capture thread ends.
ToneStops == capture = "tone" /\ target = NoTarget ~> live = 0 \/ target # NoTarget \/ Stuck
==============================================================================
