----------------------------- MODULE JitterBuffer -----------------------------
(***************************************************************************)
(* RtpJitterBuffer.kt: a fixed window of packets ordered by a wrapping     *)
(* sequence number.  The buffer is a record and each of its functions an   *)
(* operator from buffer to buffer, for RtpReceiver to use.                 *)
(*                                                                         *)
(* A packet is its sequence number.  Nothing is said about recycling: a    *)
(* packet that is in the buffer before a call, or offered in it, and not   *)
(* there afterwards nor returned, goes back to the pool.                   *)
(***************************************************************************)
EXTENDS Integers, FiniteSets

CONSTANTS SeqNumbers,        \* 2^16
          MaxBuffered,       \* maxBufferedPackets
          Stored,            \* STORED_PACKET_MULTIPLIER
          SlotCount,         \* slots: the power of two from MaxBuffered * Stored up
          PrunedPerOffer,    \* PRUNE_SLOTS_PER_OFFER
          RestartThreshold,  \* LATE_PACKET_RESET_THRESHOLD
          RestartGap         \* MAX_RESTART_CANDIDATE_GAP

ASSUME JitterAssumption ==
  /\ MaxBuffered \in Nat \ {0} /\ Stored \in Nat \ {0}
  /\ SlotCount \in Nat \ {0} /\ MaxBuffered * Stored <= SlotCount
  /\ SeqNumbers \in Nat /\ SeqNumbers % SlotCount = 0 /\ SeqNumbers % 2 = 0
  /\ 2 * SlotCount <= SeqNumbers
  /\ PrunedPerOffer \in Nat
  /\ RestartThreshold \in Nat \ {0} /\ RestartGap \in Nat \ {0}

Numbers == 0 .. SeqNumbers - 1
None == -1
Half == SeqNumbers \div 2
Slots == 0 .. SlotCount - 1

Forward(from, to) == (to - from) % SeqNumbers
After(n) == (n + 1) % SeqNumbers
Newer(n, reference) == Forward(reference, n) \in 1 .. Half - 1
SlotOf(n) == n % SlotCount
History == MaxBuffered * Stored

Buffers == [slots : [Slots -> Numbers \cup {None}], pending : Nat,
            expected : Numbers \cup {None}, latest : Numbers \cup {None},
            target : 1 .. MaxBuffered, candidate : Numbers \cup {None}, run : Nat,
            cursor : Slots]

EmptyBuffer(target) ==
  [slots |-> [s \in Slots |-> None], pending |-> 0, expected |-> None, latest |-> None,
   target |-> target, candidate |-> None, run |-> 0, cursor |-> 0]

Held(jb) == {s \in Slots : jb.slots[s] # None}

\* What HeldAhead of RtpReceiver asks of a buffer.
InWindow(jb) ==
  /\ jb.pending = Cardinality(Held(jb))
  /\ \A s \in Held(jb) :
        /\ SlotOf(jb.slots[s]) = s
        /\ jb.expected # None => Forward(jb.expected, jb.slots[s]) < Half

UpdateTarget(jb, target) == [jb EXCEPT !.target = target]

NoCandidate(jb) == [jb EXCEPT !.candidate = None, !.run = 0]

\* A late packet far behind may be the start of a stream that began anew.
ObserveCandidate(jb, n) ==
  IF Forward(n, jb.expected) <= History THEN NoCandidate(jb)
  ELSE [jb EXCEPT
          !.run = IF jb.candidate # None /\ Forward(jb.candidate, n) \in 1 .. RestartGap
                  THEN jb.run + 1 ELSE 1,
          !.candidate = n]

\* Empties the slots that fall out of the window, PrunedPerOffer at a time.
Prune(jb) ==
  LET visited == {(jb.cursor + i) % SlotCount : i \in 0 .. PrunedPerOffer - 1}
      aged == {s \in visited : /\ jb.slots[s] # None
                               /\ Forward(jb.slots[s], jb.latest) \in History + 1 .. Half - 1}
  IN  [jb EXCEPT !.slots = [s \in Slots |-> IF s \in aged THEN None ELSE jb.slots[s]],
                 !.pending = @ - Cardinality(aged),
                 !.cursor = (@ + PrunedPerOffer) % SlotCount]

Late(jb, n) == jb.expected # None /\ Forward(jb.expected, n) >= Half

\* offer, for a packet that is not late.
Admit(jb, n) ==
  LET latest == IF jb.latest = None \/ Newer(n, jb.latest) THEN n ELSE jb.latest
      known == [NoCandidate(jb) EXCEPT !.latest = latest]
      there == jb.slots[SlotOf(n)]
  IN  IF there = n THEN known
      ELSE Prune([known EXCEPT !.slots[SlotOf(n)] = n,
                               !.pending = IF there = None THEN @ + 1 ELSE @])

\* A faulty version: a late packet is kept like any other.
OfferLate(jb, n) == Admit(jb, n)

Offer(jb, n) == IF Late(jb, n) THEN ObserveCandidate(jb, n) ELSE Admit(jb, n)

ReadyToStart(jb) == jb.pending >= jb.target

\* startNearLive with pruneBeforeExpected.
StartNearLive(jb) ==
  LET expected == (jb.latest - jb.target + 1) % SeqNumbers
      before == {s \in Held(jb) : Forward(expected, jb.slots[s]) >= Half}
  IN  [NoCandidate(jb) EXCEPT
         !.expected = expected,
         !.slots = [s \in Slots |-> IF s \in before THEN None ELSE jb.slots[s]],
         !.pending = @ - Cardinality(before)]

HasExpected(jb) == jb.expected # None /\ jb.slots[SlotOf(jb.expected)] = jb.expected

\* pollExpected, when it returns a packet.
TakeExpected(jb) ==
  [jb EXCEPT !.slots[SlotOf(jb.expected)] = None, !.pending = @ - 1,
             !.expected = After(@)]

ConcealExpected(jb) ==
  IF HasExpected(jb) THEN TakeExpected(jb) ELSE [jb EXCEPT !.expected = After(@)]

Lead(jb) ==
  IF jb.expected = None \/ jb.latest = None THEN 0
  ELSE LET d == Forward(jb.expected, jb.latest) IN IF d < Half THEN d ELSE 0

Lookahead(jb) == IF jb.target \div 2 > 1 THEN jb.target \div 2 ELSE 1

ShouldConceal(jb) == jb.expected # None /\ ~HasExpected(jb) /\ Lead(jb) >= Lookahead(jb)

HasLater(jb) == Lead(jb) > 0

NeedsSequenceReset(jb) == jb.run >= RestartThreshold

Reset(jb) == EmptyBuffer(jb.target)
==============================================================================
