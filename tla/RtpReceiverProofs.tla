--------------------------- MODULE RtpReceiverProofs ---------------------------
(***************************************************************************)
(* RtpReceiver's invariants, proved for every size of ring, window and     *)
(* number space and for packets that arrive with any numbers in any order. *)
(* The first part shows that each operation of the jitter buffer keeps it  *)
(* sound (Sound) and by how much it changes the number of packets held;    *)
(* the second that no packet is lost between the pool, the rings, the      *)
(* buffer and the two threads' hands (Accounted).                          *)
(***************************************************************************)
EXTENDS RtpReceiver, Modular, FiniteSetTheorems

Sound(b) ==
  /\ b \in Buffers
  /\ InWindow(b)
  /\ b.pending > 0 => b.latest # None

-----------------------------------------------------------------------------
(* Wrapping numbers.                                                       *)

LEMMA Sizes ==
  /\ SeqNumbers \in Nat \ {0} /\ SlotCount \in Nat \ {0} /\ SeqNumbers >= 2 * SlotCount
  /\ Half \in Nat /\ SeqNumbers = 2 * Half
  /\ Numbers \subseteq Nat /\ None \notin Numbers /\ Slots \subseteq Nat
<1>1. SeqNumbers = 2 * (SeqNumbers \div 2) + (SeqNumbers % 2) /\ SeqNumbers % 2 = 0
  BY JitterAssumption
<1> QED  BY <1>1, JitterAssumption DEF Half, Numbers, None, Slots

LEMMA Wrapped ==
  ASSUME NEW n \in Nat \ {0}, NEW p \in Int
  PROVE  p % n \in 0 .. n - 1
OBVIOUS

\* The distance forward between two numbers, without the remainder.
LEMMA ForwardIs ==
  ASSUME NEW a \in Numbers, NEW b \in Numbers
  PROVE  Forward(a, b) = IF b >= a THEN b - a ELSE b - a + SeqNumbers
<1> DEFINE N == SeqNumbers
           q == (b - a) \div N
           r == (b - a) % N
<1>1. N \in Nat \ {0} /\ a \in 0 .. N - 1 /\ b \in 0 .. N - 1
  BY Sizes DEF Numbers
<1>2. q \in Int /\ r \in 0 .. N - 1 /\ b - a = N * q + r
  BY <1>1
<1>3. N * 0 = 0 /\ N * (-1) = 0 - N
  BY <1>1
<1> HIDE DEF N, q, r
<1>4. CASE b >= a
  <2>1. b - a \in 0 .. N - 1 /\ N * 0 + (b - a) = N * q + r
    BY <1>1, <1>2, <1>3, <1>4
  <2>2. b - a = r
    BY <2>1, <1>1, <1>2, Unique
  <2> QED  BY <2>2, <1>4 DEF Forward, r, N
<1>5. CASE ~ b >= a
  <2> DEFINE d == b - a + N
  <2>1. d \in 0 .. N - 1 /\ N * (-1) + d = N * q + r
    BY <1>1, <1>2, <1>3, <1>5
  <2> HIDE DEF d
  <2>2. d = r
    BY <2>1, <1>1, <1>2, Unique
  <2> QED  BY <2>2, <1>5 DEF Forward, r, N, d
<1> QED  BY <1>4, <1>5

LEMMA AfterIs ==
  ASSUME NEW a \in Numbers
  PROVE  /\ After(a) \in Numbers
         /\ After(a) = IF a = SeqNumbers - 1 THEN 0 ELSE a + 1
<1> DEFINE N == SeqNumbers
           q == (a + 1) \div N
           r == (a + 1) % N
<1>1. N \in Nat \ {0} /\ a \in 0 .. N - 1
  BY Sizes DEF Numbers
<1>2. q \in Int /\ r \in 0 .. N - 1 /\ a + 1 = N * q + r
  BY <1>1
<1>3. N * 0 = 0 /\ N * 1 = N
  BY <1>1
<1> HIDE DEF N, q, r
<1>4. CASE a = N - 1
  <2>1. 0 \in 0 .. N - 1 /\ N * 1 + 0 = N * q + r
    BY <1>1, <1>2, <1>3, <1>4
  <2>2. 0 = r
    BY <2>1, <1>1, <1>2, Unique
  <2> QED  BY <2>2, <1>1, <1>4 DEF After, r, N, Numbers
<1>5. CASE a # N - 1
  <2> DEFINE d == a + 1
  <2>1. d \in 0 .. N - 1 /\ N * 0 + d = N * q + r
    BY <1>1, <1>2, <1>3, <1>5
  <2> HIDE DEF d
  <2>2. d = r
    BY <2>1, <1>1, <1>2, Unique
  <2> QED  BY <2>1, <2>2, <1>5 DEF After, r, N, Numbers, d
<1> QED  BY <1>4, <1>5 DEF N

LEMMA ForwardType ==
  ASSUME NEW a \in Numbers, NEW b \in Numbers PROVE Forward(a, b) \in Int
<1>1. a \in Int /\ b \in Int /\ SeqNumbers \in Int
  BY Sizes
<1> QED  BY <1>1, ForwardIs

\* When playback moves on by one packet, every other packet gets one nearer.
LEMMA Nearer ==
  ASSUME NEW a \in Numbers, NEW b \in Numbers, a # b, Forward(a, b) < Half
  PROVE  Forward(After(a), b) < Half
<1>1. /\ After(a) \in Numbers
      /\ After(a) = IF a = SeqNumbers - 1 THEN 0 ELSE a + 1
  BY AfterIs
<1>2. Forward(a, b) = IF b >= a THEN b - a ELSE b - a + SeqNumbers
  BY ForwardIs
<1>3. Forward(After(a), b) = IF b >= After(a) THEN b - After(a) ELSE b - After(a) + SeqNumbers
  BY <1>1, ForwardIs
<1>4. /\ SeqNumbers \in Nat \ {0} /\ SeqNumbers = 2 * Half /\ Half \in Nat
      /\ a \in 0 .. SeqNumbers - 1 /\ b \in 0 .. SeqNumbers - 1
  BY Sizes DEF Numbers
<1>5. Forward(After(a), b) = Forward(a, b) - 1
  BY <1>1, <1>2, <1>3, <1>4
<1>6. Forward(a, b) \in Int
  BY <1>2, <1>4
<1> QED  BY <1>4, <1>5, <1>6

LEMMA SlotRange == ASSUME NEW n \in Numbers PROVE SlotOf(n) \in Slots
<1>1. n \in Int /\ SlotCount \in Nat \ {0}
  BY Sizes
<1>2. n % SlotCount \in 0 .. SlotCount - 1
  BY <1>1, Wrapped
<1> QED  BY <1>2 DEF SlotOf, Slots

-----------------------------------------------------------------------------
(* The jitter buffer.                                                      *)

LEMMA HeldFinite ==
  ASSUME NEW b PROVE IsFiniteSet(Held(b)) /\ Cardinality(Held(b)) \in 0 .. SlotCount
<1>1. IsFiniteSet(Slots) /\ Cardinality(Slots) = SlotCount
  <2>1. 0 \in Int /\ SlotCount - 1 \in Int /\ SlotCount \in Nat \ {0}
    BY Sizes
  <2> QED  BY <2>1, FS_Interval DEF Slots
<1>2. Held(b) \subseteq Slots
  BY DEF Held
<1>3. IsFiniteSet(Held(b)) /\ Cardinality(Held(b)) <= Cardinality(Slots)
  BY <1>1, <1>2, FS_Subset
<1> QED  BY <1>1, <1>3, FS_CardinalityType

\* A buffer with no packets.
LEMMA EmptyIsSound ==
  ASSUME NEW t \in Targets
  PROVE  Sound(EmptyBuffer(t)) /\ EmptyBuffer(t).pending = 0 /\ EmptyBuffer(t).run = 0
<1>1. Held(EmptyBuffer(t)) = {}
  BY DEF Held, EmptyBuffer
<1>2. Cardinality(Held(EmptyBuffer(t))) = 0
  BY <1>1, FS_EmptySet
<1>3. EmptyBuffer(t) \in Buffers
  BY Sizes DEF EmptyBuffer, Buffers, Targets, Slots
<1> QED  BY <1>1, <1>2, <1>3 DEF Sound, InWindow, EmptyBuffer

\* Packets taken out of a sound buffer leave it sound as long as those that stay
\* are ahead of what is expected then.
LEMMA Fewer ==
  ASSUME NEW b \in Buffers, Sound(b), NEW c \in Buffers, NEW gone \in SUBSET Held(b),
         c.slots = [s \in Slots |-> IF s \in gone THEN None ELSE b.slots[s]],
         c.pending = b.pending - Cardinality(gone),
         c.latest = b.latest,
         \A s \in Held(b) \ gone :
           c.expected # None => Forward(c.expected, b.slots[s]) < Half
  PROVE  Sound(c) /\ c.pending <= b.pending
<1>1. Held(c) = Held(b) \ gone
  BY DEF Held
<1>2. /\ Cardinality(Held(b) \ gone) = Cardinality(Held(b)) - Cardinality(gone)
      /\ Cardinality(gone) \in Nat
  <2>1. IsFiniteSet(Held(b)) /\ IsFiniteSet(gone)
    BY HeldFinite, FS_Subset
  <2>2. Held(b) \cap gone = gone
    OBVIOUS
  <2>3. Cardinality(Held(b) \ gone) = Cardinality(Held(b)) - Cardinality(Held(b) \cap gone)
    BY <2>1, FS_Difference
  <2>4. Cardinality(gone) \in Nat
    BY <2>1, FS_CardinalityType
  <2> QED  BY <2>2, <2>3, <2>4
<1>3. c.pending = Cardinality(Held(c)) /\ c.pending <= b.pending
  BY <1>1, <1>2 DEF Sound, InWindow, Buffers
<1>4. \A s \in Held(c) : SlotOf(c.slots[s]) = s
                         /\ (c.expected # None => Forward(c.expected, c.slots[s]) < Half)
  BY <1>1 DEF Sound, InWindow, Held
<1> QED  BY <1>3, <1>4 DEF Sound, InWindow, Buffers

LEMMA UpdateTargetKeeps ==
  ASSUME NEW b, Sound(b), NEW t \in Targets
  PROVE  /\ Sound(UpdateTarget(b, t))
         /\ UpdateTarget(b, t).pending = b.pending /\ UpdateTarget(b, t).run = b.run
<1> DEFINE c == UpdateTarget(b, t)
<1>1. c \in Buffers /\ c.slots = b.slots /\ c.pending = b.pending /\ c.run = b.run
      /\ c.expected = b.expected /\ c.latest = b.latest
  BY DEF UpdateTarget, Sound, Buffers, Targets
<1>2. Held(c) = Held(b)
  BY <1>1 DEF Held
<1> QED  BY <1>1, <1>2 DEF Sound, InWindow

LEMMA PruneKeeps ==
  ASSUME NEW b, Sound(b), b.latest # None
  PROVE  Sound(Prune(b)) /\ Prune(b).pending <= b.pending
<1> DEFINE c == Prune(b)
           visited == {(b.cursor + i) % SlotCount : i \in 0 .. PrunedPerOffer - 1}
           aged == {s \in visited : /\ b.slots[s] # None
                                    /\ Forward(b.slots[s], b.latest) \in History + 1 .. Half - 1}
<1>1. b \in Buffers /\ b.cursor \in Slots /\ b.pending \in Nat
  BY DEF Sound, Buffers
<1>2. visited \subseteq Slots
  <2> SUFFICES ASSUME NEW i \in 0 .. PrunedPerOffer - 1
               PROVE  (b.cursor + i) % SlotCount \in Slots
    OBVIOUS
  <2>1. b.cursor + i \in Int /\ SlotCount \in Nat \ {0}
    <3>1. PrunedPerOffer \in Nat
      BY JitterAssumption
    <3>2. b.cursor \in Nat
      BY <1>1, Sizes
    <3> QED  BY <3>1, <3>2, Sizes
  <2> QED  BY <2>1, Wrapped DEF Slots
<1>3. aged \in SUBSET Held(b)
  BY <1>2 DEF Held
<1>4. /\ c.slots = [s \in Slots |-> IF s \in aged THEN None ELSE b.slots[s]]
      /\ c.pending = b.pending - Cardinality(aged)
      /\ c.cursor = (b.cursor + PrunedPerOffer) % SlotCount
      /\ c = [b EXCEPT !.slots = c.slots, !.pending = c.pending, !.cursor = c.cursor]
  BY <1>1 DEF Prune, Buffers
<1> HIDE DEF aged, visited, c
<1>5. c.pending \in Nat
  <2>1. IsFiniteSet(Held(b)) /\ b.pending = Cardinality(Held(b))
    BY HeldFinite DEF Sound, InWindow
  <2>2. IsFiniteSet(aged) /\ Cardinality(aged) <= Cardinality(Held(b))
    BY <1>3, <2>1, FS_Subset
  <2>3. Cardinality(aged) \in Nat
    BY <2>2, FS_CardinalityType
  <2> QED  BY <1>1, <1>4, <2>1, <2>2, <2>3
<1>6. c.cursor \in Slots
  <2>1. b.cursor + PrunedPerOffer \in Int /\ SlotCount \in Nat \ {0}
    <3>1. PrunedPerOffer \in Nat
      BY JitterAssumption
    <3>2. b.cursor \in Nat
      BY <1>1, Sizes
    <3> QED  BY <3>1, <3>2, Sizes
  <2> QED  BY <1>4, <2>1, Wrapped DEF Slots
<1>7. c \in Buffers /\ c.latest = b.latest /\ c.expected = b.expected
  <2>1. c.slots \in [Slots -> Numbers \cup {None}]
    BY <1>1, <1>4 DEF Buffers
  <2> QED  BY <1>1, <1>4, <1>5, <1>6, <2>1 DEF Buffers
<1>8. \A s \in Held(b) \ aged : c.expected # None => Forward(c.expected, b.slots[s]) < Half
  BY <1>7 DEF Sound, InWindow
<1>9. Sound(c) /\ c.pending <= b.pending
  BY <1>1, <1>3, <1>4, <1>7, <1>8, Fewer
<1> QED  BY <1>9 DEF c

\* A packet that is not late is taken in, one that is there already is not.
LEMMA AdmitKeeps ==
  ASSUME NEW b, Sound(b), NEW n \in Numbers, ~Late(b, n)
  PROVE  Sound(Admit(b, n)) /\ Admit(b, n).pending <= b.pending + 1
<1> DEFINE latest == IF b.latest = None \/ Newer(n, b.latest) THEN n ELSE b.latest
           known == [NoCandidate(b) EXCEPT !.latest = latest]
           there == b.slots[SlotOf(n)]
           full == [known EXCEPT !.slots[SlotOf(n)] = n,
                                 !.pending = IF there = None THEN @ + 1 ELSE @]
<1>1. /\ b \in Buffers /\ InWindow(b) /\ b.pending \in Nat
      /\ b.slots \in [Slots -> Numbers \cup {None}]
  BY DEF Sound, Buffers
<1>2. latest \in Numbers /\ latest # None
  BY <1>1, Sizes DEF Buffers
<1> HIDE DEF latest
<1>3. /\ known \in Buffers /\ known.slots = b.slots /\ known.pending = b.pending
      /\ known.expected = b.expected /\ known.latest = latest
  BY <1>1, <1>2 DEF NoCandidate, Buffers
<1>4. Sound(known)
  <2>1. Held(known) = Held(b)
    BY <1>3 DEF Held
  <2> QED  BY <1>1, <1>2, <1>3, <2>1 DEF Sound, InWindow
<1>5. Admit(b, n) = IF there = n THEN known ELSE Prune(full)
  BY DEF Admit, latest
<1>6. SlotOf(n) \in Slots /\ n # None
  BY SlotRange, Sizes
<1> HIDE DEF known
<1>7. /\ full \in Buffers /\ full.expected = b.expected /\ full.latest = latest
      /\ full.slots = [b.slots EXCEPT ![SlotOf(n)] = n]
      /\ full.pending = IF there = None THEN b.pending + 1 ELSE b.pending
  <2> DEFINE slots == [b.slots EXCEPT ![SlotOf(n)] = n]
             pending == IF there = None THEN b.pending + 1 ELSE b.pending
  <2>1. slots \in [Slots -> Numbers \cup {None}] /\ pending \in Nat
    BY <1>1, <1>6
  <2>2. full = [known EXCEPT !.slots = slots, !.pending = pending]
    BY <1>3
  <2> HIDE DEF slots, pending, full
  <2>3. /\ full \in Buffers /\ full.expected = b.expected /\ full.latest = latest
        /\ full.slots = slots /\ full.pending = pending
    BY <1>3, <2>1, <2>2 DEF Buffers
  <2> QED  BY <2>3 DEF slots, pending
<1> HIDE DEF full
<1>8. Sound(full)
  <2>1. Held(full) = Held(b) \cup {SlotOf(n)}
    BY <1>1, <1>6, <1>7 DEF Held
  <2>2. SlotOf(n) \in Held(b) <=> there # None
    BY <1>6 DEF Held
  <2>3. Cardinality(Held(full)) = IF there = None THEN Cardinality(Held(b)) + 1
                                  ELSE Cardinality(Held(b))
    BY <2>1, <2>2, HeldFinite, FS_AddElement
  <2>4. full.pending = Cardinality(Held(full))
    BY <1>1, <1>7, <2>3 DEF InWindow
  <2>5. ASSUME NEW s \in Held(full)
        PROVE  /\ SlotOf(full.slots[s]) = s
               /\ full.expected # None => Forward(full.expected, full.slots[s]) < Half
    <3>1. CASE s = SlotOf(n)
      <4>1. full.slots[s] = n
        BY <1>1, <1>6, <1>7, <3>1
      <4>2. b.expected # None => Forward(b.expected, n) \in Int
        BY <1>1, ForwardType DEF Buffers
      <4> QED  BY <1>7, <3>1, <4>1, <4>2, Sizes DEF Late
    <3>2. CASE s # SlotOf(n)
      BY <1>1, <1>7, <2>1, <3>2 DEF InWindow, Held
    <3> QED  BY <3>1, <3>2
  <2> QED  BY <1>2, <1>7, <2>4, <2>5 DEF Sound, InWindow
<1>9. Sound(Prune(full)) /\ Prune(full).pending <= full.pending
  BY <1>2, <1>7, <1>8, PruneKeeps
<1>10. Prune(full).pending \in Nat /\ full.pending \in Nat /\ full.pending <= b.pending + 1
  BY <1>1, <1>7, <1>9 DEF Sound, Buffers
<1> QED  BY <1>1, <1>3, <1>4, <1>5, <1>9, <1>10

LEMMA OfferKeeps ==
  ASSUME NEW b, Sound(b), NEW n \in Numbers
  PROVE  Sound(Offer(b, n)) /\ Offer(b, n).pending <= b.pending + 1
<1>1. CASE ~Late(b, n)
  BY <1>1, AdmitKeeps DEF Offer
<1>2. CASE Late(b, n)
  <2> DEFINE c == ObserveCandidate(b, n)
  <2>1. b \in Buffers /\ b.pending \in Nat
    BY DEF Sound, Buffers
  <2>2. /\ c \in Buffers /\ c.slots = b.slots /\ c.pending = b.pending
        /\ c.expected = b.expected /\ c.latest = b.latest
    <3>1. CASE c = NoCandidate(b)
      <4> HIDE DEF c
      <4> QED  BY <2>1, <3>1 DEF NoCandidate, Buffers
    <3>2. CASE \E run \in Nat : c = [b EXCEPT !.run = run, !.candidate = n]
      <4>1. PICK run \in Nat : c = [b EXCEPT !.run = run, !.candidate = n]
        BY <3>2
      <4> HIDE DEF c
      <4> QED  BY <2>1, <4>1 DEF Buffers
    <3>3. (IF b.candidate # None /\ Forward(b.candidate, n) \in 1 .. RestartGap
           THEN b.run + 1 ELSE 1) \in Nat
      BY <2>1 DEF Buffers
    <3> QED  BY <3>1, <3>2, <3>3 DEF ObserveCandidate
  <2>3. Held(c) = Held(b)
    BY <2>2 DEF Held
  <2> QED  BY <1>2, <2>1, <2>2, <2>3 DEF Offer, Sound, InWindow
<1> QED  BY <1>1, <1>2

\* Starting near the newest packet drops those behind the start.
LEMMA StartKeeps ==
  ASSUME NEW b, Sound(b), ReadyToStart(b)
  PROVE  Sound(StartNearLive(b)) /\ StartNearLive(b).pending <= b.pending
<1> DEFINE expected == (b.latest - b.target + 1) % SeqNumbers
           before == {s \in Held(b) : Forward(expected, b.slots[s]) >= Half}
           c == StartNearLive(b)
<1>1. b \in Buffers /\ b.pending \in Nat /\ b.target \in 1 .. MaxBuffered
  BY DEF Sound, Buffers
<1>2. b.latest \in Numbers
  BY <1>1 DEF ReadyToStart, Sound, Buffers
<1>3. expected \in Numbers
  <2> HIDE DEF expected, before, c
  <2>1. b.latest - b.target + 1 \in Int
    <3>1. MaxBuffered \in Nat
      BY JitterAssumption
    <3>2. b.latest \in Nat
      BY <1>2, Sizes
    <3>3. b.target \in Int
      BY <1>1, <3>1
    <3> QED  BY <3>2, <3>3
  <2>2. expected \in 0 .. SeqNumbers - 1
    BY <2>1, Sizes, Wrapped DEF expected
  <2> QED  BY <2>2 DEF Numbers
<1> HIDE DEF expected
<1>4. before \in SUBSET Held(b)
  OBVIOUS
<1>5. c = [NoCandidate(b) EXCEPT
             !.expected = expected,
             !.slots = [s \in Slots |-> IF s \in before THEN None ELSE b.slots[s]],
             !.pending = @ - Cardinality(before)]
  BY DEF StartNearLive, expected
<1>6. Cardinality(before) \in Nat /\ Cardinality(before) <= b.pending
  <2> HIDE DEF before
  <2>1. IsFiniteSet(Held(b)) /\ b.pending = Cardinality(Held(b))
    BY HeldFinite DEF Sound, InWindow
  <2>2. IsFiniteSet(before) /\ Cardinality(before) <= Cardinality(Held(b))
    BY <1>4, <2>1, FS_Subset
  <2>3. Cardinality(before) \in Nat
    BY <2>2, FS_CardinalityType
  <2> QED  BY <2>1, <2>2, <2>3
<1>7. \A s \in Held(b) \ before : Forward(expected, b.slots[s]) < Half
  <2> SUFFICES ASSUME NEW s \in Held(b) \ before PROVE Forward(expected, b.slots[s]) < Half
    OBVIOUS
  <2>1. b.slots[s] \in Numbers
    BY <1>1 DEF Held, Buffers
  <2>2. Forward(expected, b.slots[s]) \in Int
    BY <1>3, <2>1, ForwardType
  <2> QED  BY <2>2, Sizes
<1> HIDE DEF before, c
<1>8. /\ c \in Buffers /\ c.expected = expected /\ c.latest = b.latest
      /\ c.slots = [s \in Slots |-> IF s \in before THEN None ELSE b.slots[s]]
      /\ c.pending = b.pending - Cardinality(before)
  <2>1. [s \in Slots |-> IF s \in before THEN None ELSE b.slots[s]]
          \in [Slots -> Numbers \cup {None}]
    BY <1>1 DEF Buffers
  <2>2. b.pending - Cardinality(before) \in Nat
    BY <1>1, <1>6
  <2> QED  BY <1>1, <1>3, <1>5, <2>1, <2>2 DEF NoCandidate, Buffers
<1>9. Sound(c) /\ c.pending <= b.pending
  BY <1>1, <1>4, <1>7, <1>8, Fewer
<1> QED  BY <1>9 DEF c

\* Taking the packet expected, and passing over it.
LEMMA TakeKeeps ==
  ASSUME NEW b, Sound(b), HasExpected(b)
  PROVE  /\ Sound(TakeExpected(b)) /\ TakeExpected(b).pending = b.pending - 1
         /\ TakeExpected(b).run = b.run /\ b.expected \in Numbers
<1> DEFINE slot == SlotOf(b.expected)
           c == TakeExpected(b)
<1>1. /\ b \in Buffers /\ b.pending \in Nat /\ b.expected \in Numbers
      /\ b.slots \in [Slots -> Numbers \cup {None}]
  BY DEF Sound, Buffers, HasExpected
<1>2. slot \in Slots /\ After(b.expected) \in Numbers
  BY <1>1, SlotRange, AfterIs
<1>3. {slot} \in SUBSET Held(b) /\ b.slots[slot] = b.expected
  BY <1>1, <1>2, Sizes DEF HasExpected, Held
<1>4. Cardinality({slot}) = 1 /\ b.pending >= 1
  <2>1. Cardinality({slot}) = 1 /\ IsFiniteSet(Held(b)) /\ b.pending = Cardinality(Held(b))
    BY FS_Singleton, HeldFinite DEF Sound, InWindow
  <2> QED  BY <1>1, <1>3, <2>1, FS_Subset
<1>5. /\ c \in Buffers /\ c.latest = b.latest /\ c.expected = After(b.expected)
      /\ c.slots = [s \in Slots |-> IF s \in {slot} THEN None ELSE b.slots[s]]
      /\ c.pending = b.pending - 1 /\ c.run = b.run
  <2> DEFINE slots == [b.slots EXCEPT ![slot] = None]
  <2>1. slots \in [Slots -> Numbers \cup {None}] /\ b.pending - 1 \in Nat
    BY <1>1, <1>2, <1>4
  <2>2. slots = [s \in Slots |-> IF s \in {slot} THEN None ELSE b.slots[s]]
    BY <1>1, <1>2
  <2>3. c = [b EXCEPT !.slots = slots, !.pending = b.pending - 1,
                      !.expected = After(b.expected)]
    BY <1>1 DEF TakeExpected, Buffers
  <2> HIDE DEF slots, c
  <2> QED  BY <1>1, <1>2, <2>1, <2>2, <2>3 DEF Buffers
<1>6. \A s \in Held(b) \ {slot} : Forward(c.expected, b.slots[s]) < Half
  <2> SUFFICES ASSUME NEW s \in Held(b) \ {slot} PROVE Forward(c.expected, b.slots[s]) < Half
    OBVIOUS
  <2>1. b.slots[s] \in Numbers /\ b.slots[s] # b.expected
    BY <1>1 DEF Held, Sound, InWindow
  <2>2. Forward(b.expected, b.slots[s]) < Half
    BY <1>1, Sizes DEF Sound, InWindow
  <2> QED  BY <1>1, <1>5, <2>1, <2>2, Nearer
<1> HIDE DEF c
<1>7. Sound(c)
  BY <1>1, <1>3, <1>4, <1>5, <1>6, Fewer
<1> QED  BY <1>1, <1>5, <1>7 DEF c

LEMMA ConcealKeeps ==
  ASSUME NEW b, Sound(b), b.expected # None
  PROVE  Sound(ConcealExpected(b)) /\ ConcealExpected(b).pending <= b.pending
<1>1. CASE HasExpected(b)
  <2>1. b.pending \in Nat
    BY DEF Sound, Buffers
  <2> QED  BY <1>1, <2>1, TakeKeeps DEF ConcealExpected
<1>2. CASE ~HasExpected(b)
  <2> DEFINE c == ConcealExpected(b)
  <2>1. /\ b \in Buffers /\ b.pending \in Nat /\ b.expected \in Numbers
        /\ b.slots \in [Slots -> Numbers \cup {None}]
    BY DEF Sound, Buffers
  <2>2. After(b.expected) \in Numbers
    BY <2>1, AfterIs
  <2>3. /\ c \in Buffers /\ c.slots = b.slots /\ c.pending = b.pending
        /\ c.expected = After(b.expected) /\ c.latest = b.latest
    BY <1>2, <2>1, <2>2 DEF ConcealExpected, Buffers
  <2>4. Held(c) = Held(b)
    BY <2>3 DEF Held
  <2>5. ASSUME NEW s \in Held(b) PROVE Forward(c.expected, b.slots[s]) < Half
    <3>1. b.slots[s] \in Numbers /\ b.slots[s] # b.expected
      BY <1>2, <2>1 DEF Held, Sound, InWindow, HasExpected
    <3>2. Forward(b.expected, b.slots[s]) < Half
      BY DEF Sound, InWindow
    <3> QED  BY <2>1, <2>3, <3>1, <3>2, Nearer
  <2> HIDE DEF c
  <2>6. Sound(c) /\ c.pending <= b.pending
    BY <2>1, <2>3, <2>4, <2>5 DEF Sound, InWindow
  <2> QED  BY <2>6 DEF c
<1> QED  BY <1>1, <1>2

-----------------------------------------------------------------------------
(* The receiver.                                                           *)

Armed == IF receiver = "armed" THEN 1 ELSE 0
InHand == IF hand # None THEN 1 ELSE 0
Dropped == IF at \in {"closing", "closed"} THEN 1 ELSE 0

Total == free + jb.pending + InHand + Armed + Len(ready)

\* Every packet is somewhere, but for one that a failed write may have dropped
\* and the one a stopped receive thread held.
Accounted ==
  /\ Total <= PoolSize
  /\ receiver # "stopped" => Total + Dropped >= PoolSize

HandKept ==
  /\ hand # None => at \in Draining \cup {"prebuffering", "writing"}
  /\ at = "writing" => hand # None
  /\ at = "prebuffering" /\ hand # None => left > 0

\* Where a packet in the ring needs a signal.
Listening == {"filled", "drained", "deciding", "starving", "waiting"}

Waking ==
  ready # <<>> /\ at \in Listening =>
    signal \/ receiver = "signalling" \/ (at # "waiting" /\ NeedsSequenceReset(jb))

Inv == /\ ReceiverTypeOK /\ PoolNeverExhausted /\ Sound(jb)
       /\ Accounted /\ HandKept /\ Waking

LEMMA PoolType == /\ PoolSize \in Nat /\ PoolSize = QueueCapacity + SlotCount + Headroom
                  /\ QueueCapacity \in Nat /\ SlotCount \in Nat
                  /\ Headroom \in Nat /\ Headroom >= 2
                  /\ MaxBuffered \in Nat
BY JitterAssumption, ReceiverAssumption DEF PoolSize

LEMMA InvInit == Init => Inv
<1> SUFFICES ASSUME Init PROVE Inv
  OBVIOUS
<1>1. PICK t \in Targets : jb = EmptyBuffer(t)
  BY DEF Init
<1>2. Sound(jb) /\ jb.pending = 0
  BY <1>1, EmptyIsSound
<1>3. ReceiverTypeOK
  <2>1. ready \in Seq(Numbers) /\ Len(ready) <= QueueCapacity
    BY PoolType DEF Init
  <2>2. free \in 0 .. PoolSize /\ left \in 0 .. MaxBuffered
    BY PoolType DEF Init
  <2> QED  BY <1>2, <2>1, <2>2 DEF Init, ReceiverTypeOK, Places, Sound
<1>4. PoolNeverExhausted /\ HandKept /\ Waking
  BY DEF Init, PoolNeverExhausted, HandKept, Waking, Listening
<1>5. Accounted
  BY <1>2, PoolType DEF Init, Accounted, Total, Armed, InHand, Dropped
<1> QED  BY <1>2, <1>3, <1>4, <1>5 DEF Inv

\* What the invariant says of the sizes that add up to the pool.
LEMMA Counts ==
  Inv => /\ free \in Nat /\ Len(ready) \in 0 .. QueueCapacity
         /\ jb.pending \in 0 .. SlotCount
         /\ at \in {"closing", "closed"} => hand = None
<1> SUFFICES ASSUME Inv PROVE /\ free \in Nat /\ Len(ready) \in 0 .. QueueCapacity
                              /\ jb.pending \in 0 .. SlotCount
                              /\ at \in {"closing", "closed"} => hand = None
  OBVIOUS
<1>1. jb.pending = Cardinality(Held(jb))
  BY DEF Inv, Sound, InWindow
<1>2. free \in Nat /\ Len(ready) \in 0 .. QueueCapacity
  BY PoolType DEF Inv, ReceiverTypeOK
<1>3. at \in {"closing", "closed"} => hand = None
  BY DEF Inv, HandKept, Draining
<1> QED  BY <1>1, <1>2, <1>3, HeldFinite

-----------------------------------------------------------------------------
(* The receive thread.                                                     *)

LEMMA ThreadKeeps ==
  ASSUME Inv, ReceiveThread \/ \E n \in Numbers : Receive(n)
  PROVE  Inv'
<1> USE Counts, PoolType
<1>1. CASE PollFree
  <2>1. free > 0
    BY <1>1 DEF PollFree, Inv, Accounted, Total, Armed, InHand, Dropped
  <2>2. /\ free' = free - 1 /\ receiver = "polling" /\ receiver' = "armed"
        /\ UNCHANGED <<ready, signal, jb, hand, at, left>>
    BY <1>1, <2>1 DEF PollFree
  <2>3. Accounted'
    BY <2>1, <2>2 DEF Inv, Accounted, Total, Armed, InHand, Dropped
  <2>4. ReceiverTypeOK' /\ PoolNeverExhausted'
    BY <2>1, <2>2 DEF Inv, ReceiverTypeOK, PoolNeverExhausted
  <2> QED  BY <2>2, <2>3, <2>4 DEF Inv, HandKept, Waking, Listening
<1>2. CASE Signals
  <2>1. Accounted'
    BY <1>2 DEF Signals, Inv, Accounted, Total, Armed, InHand, Dropped, pool
  <2>2. ReceiverTypeOK' /\ PoolNeverExhausted'
    BY <1>2 DEF Signals, Inv, ReceiverTypeOK, PoolNeverExhausted, pool
  <2> QED  BY <1>2, <2>1, <2>2 DEF Signals, Inv, HandKept, Waking, Listening, pool
<1>3. CASE ReceiverStops
  <2>1. Accounted'
    BY <1>3 DEF ReceiverStops, Inv, Accounted, Total, Armed, InHand, Dropped, pool
  <2>2. ReceiverTypeOK' /\ PoolNeverExhausted'
    BY <1>3 DEF ReceiverStops, Inv, ReceiverTypeOK, PoolNeverExhausted, pool
  <2> QED  BY <1>3, <2>1, <2>2 DEF ReceiverStops, Inv, HandKept, Waking, Listening, pool
<1>4. CASE \E n \in Numbers : Receive(n)
  <2>1. PICK n \in Numbers : Receive(n)
    BY <1>4
  <2>2. UNCHANGED <<free, signal, jb, hand, at, left>>
    BY <2>1 DEF Receive
  <2>3. CASE UNCHANGED <<ready, receiver>>
    BY <2>2, <2>3 DEF Inv, ReceiverTypeOK, PoolNeverExhausted, Accounted, Total, Armed, InHand,
                      Dropped, HandKept, Waking, Listening
  <2>4. CASE /\ receiver = "armed" /\ Len(ready) < QueueCapacity
             /\ ready' = Append(ready, n) /\ receiver' = "signalling"
    <3>1. ready' \in Seq(Numbers) /\ Len(ready') = Len(ready) + 1
      BY <2>4 DEF Inv, ReceiverTypeOK
    <3>2. Accounted'
      BY <2>2, <2>4, <3>1 DEF Inv, Accounted, Total, Armed, InHand, Dropped
    <3>3. ReceiverTypeOK' /\ PoolNeverExhausted'
      BY <2>2, <2>4, <3>1 DEF Inv, ReceiverTypeOK, PoolNeverExhausted
    <3> QED  BY <2>2, <2>4, <3>2, <3>3 DEF Inv, HandKept, Waking, Listening
  <2> QED  BY <2>1, <2>3, <2>4 DEF Receive, Inv, PoolNeverExhausted
<1> QED  BY <1>1, <1>2, <1>3, <1>4 DEF ReceiveThread

-----------------------------------------------------------------------------
(* The playback coroutine.                                                 *)

LEMMA MoreIsEnough ==
  ASSUME NEW t \in Int, NEW p \in Int, NEW d \in 0 .. 1, NEW e \in 0 .. 1, e >= d, t + d >= p
  PROVE  t + e >= p
OBVIOUS

\* Steps with empty hands: the coroutine moves on, and packets go from the
\* buffer to the pool.
LEMMA EmptyHanded ==
  ASSUME Inv, UNCHANGED <<ready, signal, receiver>>, hand = None, hand' = None,
         Sound(jb'), jb'.pending <= jb.pending, free' = free + jb.pending - jb'.pending,
         at' \in Places \ {"writing"}, left' \in 0 .. MaxBuffered,
         at \in {"closing", "closed"} => at' \in {"closing", "closed"},
         ready = <<>> \/ at' \notin Listening
           \/ (/\ at \in Listening /\ jb'.run = jb.run
               /\ at' = "waiting" => at = "waiting" \/ ~NeedsSequenceReset(jb))
  PROVE  Inv'
<1>1. jb'.pending \in Nat /\ free' \in Nat
  BY Counts DEF Sound, Buffers
<1>2. Accounted'
  <2>1. Armed' = Armed /\ InHand' = 0 /\ InHand = 0 /\ Armed \in 0 .. 1
    BY DEF Armed, InHand
  <2>2. Dropped' >= Dropped /\ Dropped \in 0 .. 1 /\ Dropped' \in 0 .. 1
    BY DEF Dropped
  <2>3. free' + jb'.pending + InHand' = free + jb.pending + InHand
    BY <1>1, <2>1, Counts, PoolType
  <2>4. Total' = Total /\ Total \in Int
    BY <1>1, <2>1, <2>3, Counts, PoolType DEF Total
  <2>5. PoolSize \in Int /\ receiver' = receiver
    BY PoolType
  <2>6. /\ Total <= PoolSize
        /\ receiver # "stopped" => Total + Dropped >= PoolSize
    BY DEF Inv, Accounted
  <2>7. receiver # "stopped" => Total + Dropped' >= PoolSize
    <3> HIDE DEF Total, Dropped
    <3> QED  BY ONLY <2>2, <2>4, <2>5, <2>6, MoreIsEnough
  <2> QED  BY ONLY <2>4, <2>5, <2>6, <2>7 DEF Accounted
<1>3. ReceiverTypeOK'
  <2>1. free' <= PoolSize
    BY <1>1, <1>2, Counts, PoolType DEF Accounted, Total, Armed, InHand
  <2> QED  BY <1>1, <2>1, PoolType DEF Inv, ReceiverTypeOK, Sound
<1>4. Waking'
  BY DEF Inv, Waking, NeedsSequenceReset
<1>5. HandKept' /\ PoolNeverExhausted'
  BY DEF Inv, HandKept, PoolNeverExhausted
<1> QED  BY <1>2, <1>3, <1>4, <1>5 DEF Inv

LEMMA DrainKeeps ==
  ASSUME Inv, PollReady \/ NothingReady \/ \E target \in Targets : OfferPacket(target)
  PROVE  Inv'
<1> USE Counts, PoolType
<1>1. CASE PollReady
  <2>1. /\ at \in Draining /\ hand = None /\ ready # <<>>
        /\ hand' = Head(ready) /\ ready' = Tail(ready)
        /\ UNCHANGED <<free, signal, receiver, jb, at, left>>
    BY <1>1 DEF PollReady, thread
  <2>2. /\ ready' \in Seq(Numbers) /\ Len(ready') = Len(ready) - 1
        /\ hand' \in Numbers /\ hand' # None
    BY <2>1, Sizes DEF Inv, ReceiverTypeOK
  <2>3. Accounted'
    BY <2>1, <2>2 DEF Inv, Accounted, Total, Armed, InHand, Dropped
  <2>4. ReceiverTypeOK' /\ PoolNeverExhausted'
    BY <2>1, <2>2 DEF Inv, ReceiverTypeOK, PoolNeverExhausted
  <2> QED  BY <2>1, <2>2, <2>3, <2>4 DEF Inv, HandKept, Waking, Listening, Draining
<1>2. CASE NothingReady
  <2>1. /\ at \in Draining /\ hand = None /\ ready = <<>> /\ at' = Drained(at)
        /\ UNCHANGED <<free, ready, signal, receiver, jb, hand, left>>
    BY <1>2 DEF NothingReady, pool, thread
  <2>2. at' \in Places \ {"writing"} /\ at \notin {"closing", "closed"}
    BY <2>1 DEF Drained, Draining, Places
  <2>3. left' \in 0 .. MaxBuffered /\ free' = free + jb.pending - jb'.pending
        /\ jb'.pending <= jb.pending
    BY <2>1 DEF Inv, ReceiverTypeOK
  <2> QED  BY <2>1, <2>2, <2>3, EmptyHanded DEF Inv
<1>3. CASE \E target \in Targets : OfferPacket(target)
  <2>1. PICK target \in Targets : OfferPacket(target)
    BY <1>3
  <2> DEFINE b == UpdateTarget(jb, target)
  <2>2. /\ at \in Draining /\ hand # None /\ jb' = Offer(b, hand)
        /\ free' = free + 1 + jb.pending - jb'.pending /\ hand' = None
        /\ at' = IF NeedsSequenceReset(jb') THEN Drained(at) ELSE at
        /\ UNCHANGED <<ready, signal, receiver, left>>
    BY <2>1 DEF OfferPacket, thread
  <2>3. hand \in Numbers /\ Sound(b) /\ b.pending = jb.pending
    BY <2>2, UpdateTargetKeeps DEF Inv, ReceiverTypeOK
  <2> HIDE DEF b
  <2>4. Sound(jb') /\ jb'.pending <= jb.pending + 1
    BY <2>2, <2>3, OfferKeeps
  <2>5. jb'.pending \in Nat /\ free' \in Nat
    BY <2>2, <2>4 DEF Sound, Buffers
  <2>6. at' \in Places \ {"writing", "waiting", "closing", "closed"}
        /\ at \notin {"closing", "closed"}
        /\ (at' \in Listening => NeedsSequenceReset(jb'))
    BY <2>2 DEF Drained, Draining, Places, Listening
  <2>7. Accounted'
    <3>1. Armed' = Armed /\ InHand = 1 /\ InHand' = 0 /\ Armed \in 0 .. 1
      BY <2>2 DEF Armed, InHand
    <3>2. Dropped = 0 /\ Dropped' = 0
      BY <2>6 DEF Dropped
    <3>3. free' + jb'.pending + InHand' = free + jb.pending + InHand
      BY <2>2, <2>5, <3>1
    <3>4. Total' = Total /\ Total \in Int
      BY <2>2, <2>5, <3>1, <3>3 DEF Total
    <3> QED  BY <2>2, <3>2, <3>4 DEF Inv, Accounted
  <2>8. ReceiverTypeOK'
    <3>1. free' <= PoolSize
      BY <2>2, <2>5, <2>7 DEF Accounted, Total, Armed, InHand
    <3> QED  BY <2>2, <2>4, <2>5, <2>6, <3>1 DEF Inv, ReceiverTypeOK, Sound
  <2> QED  BY <2>2, <2>4, <2>6, <2>7, <2>8 DEF Inv, HandKept, Waking, PoolNeverExhausted
<1> QED  BY <1>1, <1>2, <1>3
\* Filling the buffer and starting.
LEMMA FillKeeps ==
  ASSUME Inv, FillAgain \/ AwaitPacket \/ StreamTimesOut
              \/ \E packets \in 0 .. MaxBuffered : Start(packets)
  PROVE  Inv'
<1> USE Counts, PoolType
<1>1. hand = None
  BY DEF Inv, HandKept, Draining, FillAgain, AwaitPacket, StreamTimesOut, Start
<1>2. CASE FillAgain \/ StreamTimesOut
  <2>1. /\ at \in {"entered", "filled"} /\ at' \in {"filling", "closing"}
        /\ UNCHANGED <<free, ready, signal, receiver, jb, hand, left>>
    BY <1>2 DEF FillAgain, StreamTimesOut, pool, thread
  <2>2. left' \in 0 .. MaxBuffered /\ free' = free + jb.pending - jb'.pending
        /\ jb'.pending <= jb.pending /\ Sound(jb')
    BY <2>1 DEF Inv, ReceiverTypeOK
  <2>3. at' \in Places \ {"writing"} /\ at' \notin Listening /\ at \notin {"closing", "closed"}
    BY <2>1 DEF Places, Listening
  <2> QED  BY <1>1, <2>1, <2>2, <2>3, EmptyHanded
<1>3. CASE AwaitPacket
  <2>1. /\ at = "filled" /\ signal' = FALSE /\ at' = "filling"
        /\ UNCHANGED <<free, ready, receiver, jb, hand, left>>
    BY <1>3 DEF AwaitPacket, pool
  <2>2. Accounted'
    BY <2>1 DEF Inv, Accounted, Total, Armed, InHand, Dropped
  <2>3. ReceiverTypeOK' /\ PoolNeverExhausted'
    BY <2>1 DEF Inv, ReceiverTypeOK, PoolNeverExhausted, Places
  <2> QED  BY <1>1, <2>1, <2>2, <2>3 DEF Inv, HandKept, Waking, Listening
<1>4. CASE \E packets \in 0 .. MaxBuffered : Start(packets)
  <2>1. PICK packets \in 0 .. MaxBuffered : Start(packets)
    BY <1>4
  <2>2. /\ at \in {"entered", "filled"} /\ ReadyToStart(jb)
        /\ jb' = StartNearLive(jb) /\ free' = free + jb.pending - jb'.pending
        /\ left' = packets /\ at' = "prebuffering"
        /\ UNCHANGED <<ready, signal, receiver, hand>>
    BY <2>1 DEF Start, thread
  <2>3. Sound(jb') /\ jb'.pending <= jb.pending
    BY <2>2, StartKeeps DEF Inv
  <2>4. at' \in Places \ {"writing"} /\ at' \notin Listening /\ at \notin {"closing", "closed"}
    BY <2>2 DEF Places, Listening
  <2> QED  BY <1>1, <2>1, <2>2, <2>3, <2>4, EmptyHanded
<1> QED  BY <1>2, <1>3, <1>4

\* The packet expected moves from the buffer to the coroutine's hand.
LEMMA TakenInHand ==
  ASSUME Inv, HasExpected(jb), hand = None, hand' = jb.expected, jb' = TakeExpected(jb),
         UNCHANGED <<free, ready, signal, receiver, left>>,
         at' \in {"prebuffering", "writing"}, at' = "prebuffering" => left > 0,
         at \notin {"closing", "closed"}
  PROVE  Inv'
<1> USE Counts, PoolType
<1>1. Sound(jb') /\ jb'.pending = jb.pending - 1 /\ hand' \in Numbers /\ hand' # None
  BY TakeKeeps, Sizes DEF Inv, Sound, Buffers, HasExpected
<1>2. Accounted'
  <2>1. Armed' = Armed /\ InHand = 0 /\ InHand' = 1 /\ Armed \in 0 .. 1
    BY <1>1 DEF Armed, InHand
  <2>2. Dropped = 0 /\ Dropped' = 0
    BY DEF Dropped
  <2>3. Total' = Total /\ Total \in Int
    BY <1>1, <2>1 DEF Total
  <2> QED  BY <2>2, <2>3 DEF Inv, Accounted, PoolSize
<1>3. ReceiverTypeOK'
  BY <1>1 DEF Inv, ReceiverTypeOK, Sound, Places, PoolSize
<1>4. HandKept' /\ Waking' /\ PoolNeverExhausted'
  BY <1>1 DEF Inv, HandKept, Waking, Listening, PoolNeverExhausted
<1> QED  BY <1>1, <1>2, <1>3, <1>4 DEF Inv

\* The packet in hand goes back to the pool.
LEMMA HandReturned ==
  ASSUME Inv, hand # None, hand' = None, free' = free + 1,
         UNCHANGED <<ready, signal, receiver, jb>>,
         left' \in 0 .. MaxBuffered, at' \in {"prebuffering", "looping"},
         at \notin {"closing", "closed"}
  PROVE  Inv'
<1> USE Counts, PoolType
<1>1. Accounted'
  <2>1. Armed' = Armed /\ InHand = 1 /\ InHand' = 0 /\ Armed \in 0 .. 1
    BY DEF Armed, InHand
  <2>2. Dropped = 0 /\ Dropped' = 0
    BY DEF Dropped
  <2>3. Total' = Total /\ Total \in Int
    BY <2>1 DEF Total
  <2> QED  BY <2>2, <2>3 DEF Inv, Accounted, PoolSize
<1>2. ReceiverTypeOK'
  <2>1. free' \in 0 .. PoolSize
    BY <1>1 DEF Accounted, Total, Armed, InHand
  <2> QED  BY <2>1 DEF Inv, ReceiverTypeOK, Places, PoolSize
<1>3. HandKept' /\ Waking' /\ PoolNeverExhausted'
  BY DEF Inv, HandKept, Waking, Listening, PoolNeverExhausted
<1> QED  BY <1>1, <1>2, <1>3 DEF Inv


\* Writing before playback starts.
LEMMA PrebufferKeeps ==
  ASSUME Inv, Prebuffer \/ PrebufferWritten \/ StartsPlaying
  PROVE  Inv'
<1> USE Counts, PoolType
<1>1. CASE Prebuffer
  <2>1. /\ at = "prebuffering" /\ at' = at /\ left > 0 /\ hand = None
        /\ UNCHANGED <<free, ready, signal, receiver>>
    BY <1>1 DEF Prebuffer, pool, thread
  <2>2. CASE HasExpected(jb)
    <3>1. hand' = jb.expected /\ jb' = TakeExpected(jb) /\ left' = left
      BY <1>1, <2>2 DEF Prebuffer
    <3> QED  BY <2>1, <2>2, <3>1, TakenInHand
  <2>3. CASE ~HasExpected(jb)
    <3>1. left' = left - 1 /\ hand' = hand /\ jb' = jb
      BY <1>1, <2>3 DEF Prebuffer
    <3>2. left' \in 0 .. MaxBuffered /\ free' = free + jb.pending - jb'.pending
          /\ jb'.pending <= jb.pending /\ Sound(jb')
      BY <2>1, <3>1 DEF Inv, ReceiverTypeOK
    <3>3. at' \in Places \ {"writing"} /\ at' \notin Listening /\ at \notin {"closing", "closed"}
      BY <2>1 DEF Places, Listening
    <3> QED  BY <2>1, <3>1, <3>2, <3>3, EmptyHanded
  <2> QED  BY <2>2, <2>3
<1>2. CASE PrebufferWritten
  <2>1. /\ at = "prebuffering" /\ at' = at /\ hand # None /\ hand' = None
        /\ free' = free + 1 /\ left' = left - 1
        /\ UNCHANGED <<ready, signal, receiver, jb>>
    BY <1>2 DEF PrebufferWritten, thread
  <2>2. left' \in 0 .. MaxBuffered
    BY <2>1 DEF Inv, HandKept, ReceiverTypeOK
  <2> QED  BY <2>1, <2>2, HandReturned
<1>3. CASE StartsPlaying
  <2>1. /\ at = "prebuffering" /\ at' = "looping" /\ hand = None
        /\ UNCHANGED <<free, ready, signal, receiver, jb, hand, left>>
    BY <1>3 DEF StartsPlaying, pool, thread
  <2>2. left' \in 0 .. MaxBuffered /\ free' = free + jb.pending - jb'.pending
        /\ jb'.pending <= jb.pending /\ Sound(jb')
    BY <2>1 DEF Inv, ReceiverTypeOK
  <2>3. at' \in Places \ {"writing"} /\ at' \notin Listening /\ at \notin {"closing", "closed"}
    BY <2>1 DEF Places, Listening
  <2> QED  BY <2>1, <2>2, <2>3, EmptyHanded
<1> QED  BY <1>1, <1>2, <1>3

\* Steps that leave the coroutine's hands and the buffer alone.
LEMMA MovesOn ==
  ASSUME Inv, UNCHANGED <<free, ready, signal, receiver, jb, hand, left>>, hand = None,
         at \notin {"closing", "closed"}, at' \in Places \ {"writing"},
         at' \in Listening =>
           at \in Listening /\ (at' = "waiting" => ~NeedsSequenceReset(jb))
  PROVE  Inv'
<1>1. left' \in 0 .. MaxBuffered /\ free' = free + jb.pending - jb'.pending
      /\ jb'.pending <= jb.pending /\ Sound(jb')
  BY Counts, PoolType DEF Inv, ReceiverTypeOK
<1> QED  BY <1>1, EmptyHanded

\* Deciding what to do next.
LEMMA DecideKeeps ==
  ASSUME Inv, \/ Continue \/ CheckUnderrun \/ Resynchronise \/ Rebuffer
              \/ WaitForMissing \/ Conceal
  PROVE  Inv'
<1> USE Counts, PoolType
<1>1. hand = None
  BY DEF Inv, HandKept, Draining, Continue, CheckUnderrun, Resynchronise, Rebuffer,
         WaitForMissing, Conceal, Playing
<1>2. CASE Continue
  BY <1>1, <1>2, MovesOn DEF Continue, pool, thread, Places, Listening
<1>3. CASE CheckUnderrun
  <2>1. /\ at = "drained" /\ at' \in {"deciding", "starving"}
        /\ UNCHANGED <<free, ready, signal, receiver, hand, left>>
    BY <1>3 DEF CheckUnderrun, pool, thread
  <2>2. jb' = jb \/ \E target \in Targets : jb' = UpdateTarget(jb, target)
    BY <1>3 DEF CheckUnderrun
  <2>3. Sound(jb') /\ jb'.pending = jb.pending /\ jb'.run = jb.run
    <3>1. CASE jb' = jb
      BY <3>1 DEF Inv
    <3>2. CASE \E target \in Targets : jb' = UpdateTarget(jb, target)
      <4>1. PICK target \in Targets : jb' = UpdateTarget(jb, target)
        BY <3>2
      <4> QED  BY <4>1, UpdateTargetKeeps DEF Inv
    <3> QED  BY <2>2, <3>1, <3>2
  <2>4. left' \in 0 .. MaxBuffered /\ free' = free + jb.pending - jb'.pending
        /\ jb'.pending <= jb.pending
    BY <2>1, <2>3 DEF Inv, ReceiverTypeOK
  <2>5. at \in Listening /\ at' \in Places \ {"writing"} /\ at' # "waiting"
        /\ at \notin {"closing", "closed"}
    BY <2>1 DEF Listening, Places
  <2> QED  BY <1>1, <2>1, <2>3, <2>4, <2>5, EmptyHanded
<1>4. CASE Resynchronise
  <2>1. /\ at \in {"deciding", "starving"} /\ jb' = Reset(jb) /\ free' = free + jb.pending
        /\ at' = "entering" /\ UNCHANGED <<ready, signal, receiver, hand, left>>
    BY <1>4 DEF Resynchronise, thread
  <2>2. Sound(jb') /\ jb'.pending = 0
    BY <2>1, EmptyIsSound DEF Reset, Inv, Sound, Buffers, Targets
  <2>3. left' \in 0 .. MaxBuffered /\ free' = free + jb.pending - jb'.pending
        /\ jb'.pending <= jb.pending
    BY <2>1, <2>2 DEF Inv, ReceiverTypeOK
  <2>4. at' \in Places \ {"writing"} /\ at' \notin Listening /\ at \notin {"closing", "closed"}
    BY <2>1 DEF Places, Listening
  <2> QED  BY <1>1, <2>1, <2>2, <2>3, <2>4, EmptyHanded
<1>5. CASE Rebuffer
  BY <1>1, <1>5, MovesOn DEF Rebuffer, pool, thread, Places, Listening
<1>6. CASE WaitForMissing
  BY <1>1, <1>6, MovesOn DEF WaitForMissing, Playing, pool, thread, Places, Listening
<1>7. CASE Conceal
  <2>1. /\ at = "deciding" /\ at' = "looping" /\ jb' = ConcealExpected(jb)
        /\ free' = free + jb.pending - jb'.pending /\ ShouldConceal(jb)
        /\ UNCHANGED <<ready, signal, receiver, hand, left>>
    BY <1>7 DEF Conceal, Playing, thread
  <2>2. Sound(jb') /\ jb'.pending <= jb.pending
    BY <2>1, ConcealKeeps DEF ShouldConceal, Inv
  <2>3. left' \in 0 .. MaxBuffered
    BY <2>1 DEF Inv, ReceiverTypeOK
  <2>4. at' \in Places \ {"writing"} /\ at' \notin Listening /\ at \notin {"closing", "closed"}
    BY <2>1 DEF Places, Listening
  <2> QED  BY <1>1, <2>1, <2>2, <2>3, <2>4, EmptyHanded
<1> QED  BY <1>2, <1>3, <1>4, <1>5, <1>6, <1>7

\* Playing a packet and waiting for one.
LEMMA PlayKeeps ==
  ASSUME Inv, Play \/ Written \/ PacketArrived \/ WaitTimesOut
  PROVE  Inv'
<1> USE Counts, PoolType
<1>1. CASE Play
  <2>1. /\ at = "deciding" /\ at' = "writing" /\ HasExpected(jb)
        /\ hand' = jb.expected /\ jb' = TakeExpected(jb)
        /\ UNCHANGED <<free, ready, signal, receiver, left>>
    BY <1>1 DEF Play, Playing, pool, thread
  <2>2. hand = None
    BY <2>1 DEF Inv, HandKept, Draining
  <2> QED  BY <2>1, <2>2, TakenInHand
<1>2. CASE Written
  <2>1. /\ at = "writing" /\ at' = "looping" /\ hand' = None /\ free' = free + 1
        /\ UNCHANGED <<ready, signal, receiver, jb, left>>
    BY <1>2 DEF Written, thread
  <2>2. hand # None /\ left' \in 0 .. MaxBuffered
    BY <2>1 DEF Inv, HandKept, ReceiverTypeOK
  <2> QED  BY <2>1, <2>2, HandReturned
<1>3. CASE PacketArrived
  <2>1. /\ at = "waiting" /\ signal' = FALSE /\ at' = "resuming"
        /\ UNCHANGED <<free, ready, receiver, jb, hand, left>>
    BY <1>3 DEF PacketArrived, pool
  <2>2. Accounted'
    BY <2>1 DEF Inv, Accounted, Total, Armed, InHand, Dropped
  <2>3. ReceiverTypeOK' /\ PoolNeverExhausted'
    BY <2>1 DEF Inv, ReceiverTypeOK, PoolNeverExhausted, Places
  <2>4. hand = None
    BY <2>1 DEF Inv, HandKept, Draining
  <2> QED  BY <2>1, <2>2, <2>3, <2>4 DEF Inv, HandKept, Waking, Listening
<1>4. CASE WaitTimesOut
  <2>1. /\ at = "waiting" /\ signal' \in BOOLEAN /\ at' \in {"looping", "closing"}
        /\ UNCHANGED <<free, ready, receiver, jb, hand, left>>
    BY <1>4 DEF WaitTimesOut, pool, Inv, ReceiverTypeOK
  <2>2. Accounted'
    BY <2>1 DEF Inv, Accounted, Total, Armed, InHand, Dropped
  <2>3. ReceiverTypeOK' /\ PoolNeverExhausted'
    BY <2>1 DEF Inv, ReceiverTypeOK, PoolNeverExhausted, Places
  <2>4. hand = None
    BY <2>1 DEF Inv, HandKept, Draining
  <2> QED  BY <2>1, <2>2, <2>3, <2>4 DEF Inv, HandKept, Waking, Listening
<1> QED  BY <1>1, <1>2, <1>3, <1>4

\* The end.
LEMMA EndKeeps ==
  ASSUME Inv, Cancelled \/ WriteFails \/ Close
  PROVE  Inv'
<1> USE Counts, PoolType
<1>1. CASE Cancelled
  <2>1. hand = None
    BY <1>1 DEF Cancelled, Inv, HandKept, Draining
  <2> QED  BY <1>1, <2>1, MovesOn DEF Cancelled, pool, thread, Places, Listening
<1>2. CASE WriteFails
  <2>1. /\ at \in {"prebuffering", "writing"} /\ at' = "closing" /\ hand' = None
        /\ UNCHANGED <<free, ready, signal, receiver, jb, left>>
    BY <1>2 DEF WriteFails, pool, thread
  <2>2. Accounted'
    <3>1. Armed' = Armed /\ InHand \in 0 .. 1 /\ InHand' = 0 /\ Armed \in 0 .. 1
      BY <2>1 DEF Armed, InHand
    <3>2. Dropped = 0 /\ Dropped' = 1
      BY <2>1 DEF Dropped
    <3>3. Total' = Total - InHand /\ Total \in Int
      BY <2>1, <3>1 DEF Total
    <3> QED  BY <2>1, <3>1, <3>2, <3>3 DEF Inv, Accounted
  <2>3. ReceiverTypeOK' /\ PoolNeverExhausted'
    BY <2>1 DEF Inv, ReceiverTypeOK, PoolNeverExhausted, Places
  <2> QED  BY <2>1, <2>2, <2>3 DEF Inv, HandKept, Waking, Listening
<1>3. CASE Close
  <2>1. /\ at = "closing" /\ jb' = Reset(jb) /\ free' = free + jb.pending
        /\ at' = "closed" /\ UNCHANGED <<ready, signal, receiver, hand, left>>
    BY <1>3 DEF Close, thread
  <2>2. Sound(jb') /\ jb'.pending = 0
    BY <2>1, EmptyIsSound DEF Reset, Inv, Sound, Buffers, Targets
  <2>3. left' \in 0 .. MaxBuffered /\ free' = free + jb.pending - jb'.pending
        /\ jb'.pending <= jb.pending /\ hand = None
    BY <2>1, <2>2 DEF Inv, ReceiverTypeOK
  <2>4. at' \in Places \ {"writing"} /\ at' \notin Listening
    BY <2>1 DEF Places, Listening
  <2> QED  BY <2>1, <2>2, <2>3, <2>4, EmptyHanded
<1> QED  BY <1>1, <1>2, <1>3

-----------------------------------------------------------------------------

LEMMA InvStep == Inv /\ [Next]_vars => Inv'
<1> SUFFICES ASSUME Inv, [Next]_vars PROVE Inv'
  OBVIOUS
<1>1. CASE UNCHANGED vars
  BY <1>1 DEF vars, pool, thread, Inv, ReceiverTypeOK, PoolNeverExhausted, Accounted, Total,
              Armed, InHand, Dropped, HandKept, Waking, Listening
<1>2. CASE Playback
  BY <1>2, DrainKeeps, FillKeeps, PrebufferKeeps, DecideKeeps, PlayKeeps, EndKeeps DEF Playback
<1> QED  BY <1>1, <1>2, ThreadKeeps DEF Next

LEMMA InvAlways == ReceiverSpec => []Inv
<1> QED  BY InvInit, InvStep, PTL DEF ReceiverSpec

\* Type correctness of the pool, the rings, the buffer and the coroutine, for
\* every size: nothing underflows and the pool never holds more than it began with.
THEOREM ReceiverTypes == ReceiverSpec => []ReceiverTypeOK
<1>1. Inv => ReceiverTypeOK
  BY DEF Inv
<1> QED  BY <1>1, InvAlways, PTL

\* The receive thread never finds the pool empty (RtpAudioReceiver.kt:98): the
\* ring, the buffer and two packets in hand are all that can be out of it.
THEOREM PoolSuffices == ReceiverSpec => []PoolNeverExhausted
<1>1. Inv => PoolNeverExhausted
  BY DEF Inv
<1> QED  BY <1>1, InvAlways, PTL

\* The buffer holds no packet behind the one expected and counts what it holds
\* (RtpJitterBuffer.kt:42), whatever numbers arrive and in whatever order.
THEOREM NothingBehind == ReceiverSpec => []HeldAhead
<1>1. Inv => HeldAhead
  BY DEF Inv, Sound, HeldAhead
<1> QED  BY <1>1, InvAlways, PTL

\* The coroutine never sleeps on a used-up signal while a packet is in the ring
\* (RtpAudioReceiver.kt:205), but for the case NoLostWakeup names.
THEOREM WakeupsKept == ReceiverSpec => []NoLostWakeup
<1>1. Inv => NoLostWakeup
  BY DEF Inv, Waking, Listening, NoLostWakeup
<1> QED  BY <1>1, InvAlways, PTL
=============================================================================
