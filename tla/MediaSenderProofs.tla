--------------------------- MODULE MediaSenderProofs ---------------------------
(***************************************************************************)
(* What MediaSender's runs check on small instances, for every number of   *)
(* phones, cache size and wrap of the sequence numbers.  The inductive     *)
(* invariant says in which step the media task owns a worker and which of  *)
(* the capture threads lives (Owned), that the cache holds the latest      *)
(* packet of every slot (Newest), and what the status (Named) and the      *)
(* cached target are worth in between: what went to an address the session *)
(* has left, and the requests still to be read, fit in one round (OnTime). *)
(***************************************************************************)
EXTENDS MediaSender, Modular

Owned ==
  /\ capture # "none" => asked = 0 /\ live = IF ended THEN 0 ELSE 1
  /\ capture = "none" => ~ended /\ live = asked /\ live <= 1
  /\ capture = "none" /\ at # "joining" => live = 0
  /\ at \in {"receiving", "sending", "servicing", "closing"} => capture # "none"
  /\ at \in {"binding", "sleeping", "opening", "joining", "fallback", "failing", "down"}
       => capture = "none"

Named ==
  /\ at \in {"closing", "joining"} => after # "none"
  /\ capture # "none" /\ at # "closing" => label = capture
  /\ at \in {"closing", "joining"} /\ after = "fallback" => label = "tone"
  /\ at = "fallback" => label = "tone"

OnTime ==
  /\ OneLateRound
  /\ at \in {"opening", "receiving", "sending"} /\ cached # target
       => late = 0 /\ lateResent = 0
  /\ at = "servicing" /\ cached # target => lateResent + budget <= MaxRetransmits

Newest ==
  /\ \A p \in stored : p < position /\ cache[SlotOf(NumberOf(p))] >= p
  /\ \A s \in Slots : cache[s] # Empty => cache[s] \in stored
                                          /\ SlotOf(NumberOf(cache[s])) = s

Answered ==
  /\ ResendsWhatWasAsked
  /\ at # "servicing" => resent = NothingResent

Inv == MediaTypeOK /\ Owned /\ Named /\ OnTime /\ Newest /\ Answered

\* The slot of a number is the slot of its position, and exists.
LEMMA SlotOfPosition ==
  ASSUME NEW p \in Nat PROVE SlotOf(NumberOf(p)) = p % CachePackets
                             /\ SlotOf(NumberOf(p)) \in Slots
<1>1. (p % SeqNumbers) % CachePackets = p % CachePackets
  BY MediaAssumption, WrapKeepsSlot
<1>2. p % CachePackets \in 0 .. CachePackets - 1
  BY MediaAssumption, Division
<1> QED  BY <1>1, <1>2 DEF SlotOf, NumberOf, Slots

\* The latest packet of every slot is in the cache, so the last CachePackets
\* positions are.
LEMMA NewestIsRecent == MediaTypeOK /\ Newest => RecentIsCached
<1> SUFFICES ASSUME MediaTypeOK, Newest, NEW p \in stored, p + CachePackets >= position
             PROVE  cache[SlotOf(NumberOf(p))] = p
  BY DEF RecentIsCached
<1> DEFINE s == SlotOf(NumberOf(p))
           c == cache[s]
<1>1. p \in Nat /\ s \in Slots /\ s = p % CachePackets
  BY SlotOfPosition DEF MediaTypeOK
<1>2. c >= p /\ c # Empty
  BY <1>1 DEF Newest, MediaTypeOK, Empty
<1>3. c \in stored /\ c < position /\ c \in Nat
  BY <1>1, <1>2 DEF Newest, MediaTypeOK
<1>4. c % CachePackets = p % CachePackets
  <2>1. SlotOf(NumberOf(c)) = s
    BY <1>1, <1>2 DEF Newest
  <2> QED  BY <2>1, <1>1, <1>3, SlotOfPosition
<1> HIDE DEF c, s
<1>5. ~ p < c
  <2> SUFFICES ASSUME p < c PROVE FALSE
    OBVIOUS
  <2>1. c >= p + CachePackets
    BY <1>1, <1>3, <1>4, MediaAssumption, SameSlot
  <2> QED  BY <2>1, <1>1, <1>3, MediaAssumption DEF MediaTypeOK
<1> QED  BY <1>1, <1>2, <1>3, <1>5 DEF c, s

LEMMA InvInit == Init => Inv
<1> SUFFICES ASSUME Init PROVE Inv
  OBVIOUS
<1>1. MediaTypeOK
  <2>1. /\ requests \in Seq([from : Phones, number : 0 .. SeqNumbers - 1])
        /\ cache \in [Slots -> Nat \cup {Empty}] /\ stored \subseteq Nat
        /\ resent \in [asked : Nat \cup {Empty}, packet : Nat \cup {Empty}]
    BY DEF Init, NothingResent
  <2>2. /\ live \in Nat /\ asked \in 0 .. live /\ position \in Nat /\ late \in Nat
        /\ lateResent \in Nat /\ budget \in 0 .. MaxRetransmits /\ retry \in InitialDelay .. MaxDelay
        /\ failures \in Nat
    BY MediaAssumption DEF Init
  <2> QED  BY <2>1, <2>2 DEF Init, MediaTypeOK
<1>2. Owned /\ Named /\ OnTime
  BY MediaAssumption DEF Init, Owned, Named, OnTime, OneLateRound
<1>3. Newest /\ Answered
  BY DEF Init, Newest, Answered, ResendsWhatWasAsked
<1> QED  BY <1>1, <1>2, <1>3 DEF Inv

\* A packet takes the slot of its number; the one it replaces was older.
LEMMA ReceiveKeepsNewest ==
  ASSUME MediaTypeOK, Newest, NEW dropped \in Nat, Receive(dropped)
  PROVE  position' \in Nat /\ cache' \in [Slots -> Nat \cup {Empty}] /\ stored' \subseteq Nat
         /\ Newest'
<1> DEFINE n == position + dropped
           s == SlotOf(NumberOf(n))
<1>1. n \in Nat /\ s \in Slots
  BY SlotOfPosition DEF MediaTypeOK
<1>2. /\ position' = n + 1 /\ cache' = [cache EXCEPT ![s] = n]
      /\ stored' = stored \cup {n}
  BY DEF Receive, Store, MediaTypeOK
<1>3. position' \in Nat /\ cache' \in [Slots -> Nat \cup {Empty}] /\ stored' \subseteq Nat
  BY <1>1, <1>2 DEF MediaTypeOK
<1>4. n >= position
  BY DEF MediaTypeOK
<1> HIDE DEF n
<1>5. \A p \in stored' : p < position' /\ cache'[SlotOf(NumberOf(p))] >= p
  <2> SUFFICES ASSUME NEW p \in stored'
               PROVE  p < position' /\ cache'[SlotOf(NumberOf(p))] >= p
    OBVIOUS
  <2>1. CASE p = n
    BY <2>1, <1>1, <1>2 DEF MediaTypeOK
  <2>2. CASE p \in stored
    <3>1. p \in Nat /\ p < position /\ cache[SlotOf(NumberOf(p))] >= p
      BY <2>2 DEF MediaTypeOK, Newest
    <3>2. p < n
      BY <3>1, <1>1, <1>4 DEF MediaTypeOK
    <3>3. SlotOf(NumberOf(p)) \in Slots
      BY <3>1, SlotOfPosition
    <3>4. cache'[SlotOf(NumberOf(p))] >= p
      BY <1>1, <1>2, <3>1, <3>2, <3>3 DEF MediaTypeOK
    <3> QED  BY <3>1, <3>2, <3>4, <1>1, <1>2
  <2> QED  BY <2>1, <2>2, <1>2
<1>6. ASSUME NEW k \in Slots, cache'[k] # Empty
      PROVE  cache'[k] \in stored' /\ SlotOf(NumberOf(cache'[k])) = k
  <2>1. CASE k = s
    BY <2>1, <1>1, <1>2 DEF MediaTypeOK
  <2>2. CASE k # s
    BY <2>2, <1>1, <1>2, <1>6 DEF MediaTypeOK, Newest
  <2> QED  BY <2>1, <2>2
<1> QED  BY <1>3, <1>5, <1>6 DEF Newest

\* A request in the socket asks for a number.
LEMMA RequestTyped == ASSUME MediaTypeOK, requests # <<>> PROVE Head(requests).number \in Nat
<1> DEFINE R == [from : Phones, number : 0 .. SeqNumbers - 1]
<1>1. requests \in Seq(R)
  BY DEF MediaTypeOK
<1>2. Head(requests) \in R
  <2> HIDE DEF R
  <2> QED  BY <1>1
<1> QED  BY <1>2, MediaAssumption

\* A request is answered with the packet sent last under its number.
LEMMA ServeAnswers == ASSUME MediaTypeOK, Newest, Serve PROVE ResendsWhatWasAsked'
<1> SUFFICES ASSUME resent' # NothingResent
             PROVE  /\ resent'.packet \in stored /\ NumberOf(resent'.packet) = resent'.asked
                    /\ \A q \in stored : NumberOf(q) = resent'.asked => q <= resent'.packet
  BY DEF ResendsWhatWasAsked, Serve, packetVars
<1> DEFINE number == Head(requests).number
           c == cache[SlotOf(number)]
<1>1. Holds(number) /\ resent' = [asked |-> number, packet |-> c]
  BY DEF Serve
<1>2. c # Empty /\ NumberOf(c) = number
  BY <1>1 DEF Holds
<1>3. number \in Nat
  BY RequestTyped DEF Serve
<1>4. SlotOf(number) \in Slots
  BY <1>3, MediaAssumption, Division DEF SlotOf, Slots
<1>5. c \in stored
  BY <1>2, <1>4 DEF Newest
<1>6. \A q \in stored : NumberOf(q) = number => q <= c
  BY DEF Newest
<1> HIDE DEF number, c
<1> QED  BY <1>1, <1>2, <1>5, <1>6

\* Every step keeps the invariant: one case per action.
LEMMA InvNext == Inv /\ [Next]_vars => Inv'
<1> SUFFICES ASSUME Inv, [Next]_vars PROVE Inv'
  OBVIOUS
<1> USE DEF Inv
<1>1. ASSUME NEW t \in Phones \cup {NoTarget}, SetTarget(t) PROVE Inv'
  <2>1. MediaTypeOK'
    BY <1>1, MediaAssumption DEF SetTarget, MediaTypeOK, Owned, workerVars,
       packetVars, requestVars, supervisorVars
  <2>2. Owned' /\ Named' /\ OnTime'
    BY <1>1, MediaAssumption DEF SetTarget, MediaTypeOK, Owned, Named, OnTime, OneLateRound, workerVars,
       packetVars, requestVars, supervisorVars
  <2>3. Newest' /\ Answered'
    BY <1>1 DEF SetTarget, Newest, Answered, ResendsWhatWasAsked, workerVars,
       packetVars, requestVars, supervisorVars
  <2> QED  BY <2>1, <2>2, <2>3 DEF Inv
<1>2. ASSUME NEW p \in Phones, NEW n \in 0 .. SeqNumbers - 1, Request(p, n) PROVE Inv'
  <2>1. MediaTypeOK'
    BY <1>2, MediaAssumption DEF Request, MediaTypeOK, Owned, workerVars,
       packetVars, requestVars, supervisorVars
  <2>2. Owned' /\ Named' /\ OnTime'
    BY <1>2 DEF Request, MediaTypeOK, Owned, Named, OnTime, OneLateRound, workerVars, packetVars,
       requestVars, supervisorVars
  <2>3. Newest' /\ Answered'
    BY <1>2 DEF Request, Newest, Answered, ResendsWhatWasAsked, workerVars,
       packetVars, requestVars, supervisorVars
  <2> QED  BY <2>1, <2>2, <2>3 DEF Inv
<1>3. CASE CaptureFails
  <2>1. MediaTypeOK'
    BY <1>3, MediaAssumption DEF CaptureFails, MediaTypeOK, Owned, workerVars,
       packetVars, requestVars, supervisorVars
  <2>2. Owned' /\ Named' /\ OnTime'
    BY <1>3 DEF CaptureFails, MediaTypeOK, Owned, Named, OnTime, OneLateRound, workerVars,
       packetVars, requestVars, supervisorVars
  <2>3. Newest' /\ Answered'
    BY <1>3 DEF CaptureFails, Newest, Answered, ResendsWhatWasAsked, workerVars,
       packetVars, requestVars, supervisorVars
  <2> QED  BY <2>1, <2>2, <2>3 DEF Inv
<1>4. CASE ThreadStops
  <2>1. MediaTypeOK'
    BY <1>4, MediaAssumption DEF ThreadStops, MediaTypeOK, Owned, workerVars,
       packetVars, requestVars, supervisorVars
  <2>2. Owned' /\ Named' /\ OnTime'
    BY <1>4 DEF ThreadStops, MediaTypeOK, Owned, Named, OnTime, OneLateRound, workerVars,
       packetVars, requestVars, supervisorVars
  <2>3. Newest' /\ Answered'
    BY <1>4 DEF ThreadStops, Newest, Answered, ResendsWhatWasAsked, workerVars,
       packetVars, requestVars, supervisorVars
  <2> QED  BY <2>1, <2>2, <2>3 DEF Inv
<1>5. CASE Bind
  <2>1. MediaTypeOK'
    BY <1>5, MediaAssumption DEF Bind, MediaTypeOK, Owned, workerVars, packetVars,
       requestVars, supervisorVars
  <2>2. Owned' /\ Named' /\ OnTime'
    BY <1>5 DEF Bind, MediaTypeOK, Owned, Named, OnTime, OneLateRound, workerVars, packetVars,
       requestVars, supervisorVars
  <2>3. Newest' /\ Answered'
    BY <1>5 DEF Bind, Newest, Answered, ResendsWhatWasAsked, workerVars, packetVars,
       requestVars, supervisorVars
  <2> QED  BY <2>1, <2>2, <2>3 DEF Inv
<1>6. CASE BindFails
  <2>1. MediaTypeOK'
    BY <1>6, MediaAssumption DEF BindFails, MediaTypeOK, Owned, workerVars,
       packetVars, requestVars, supervisorVars
  <2>2. Owned' /\ Named' /\ OnTime'
    BY <1>6 DEF BindFails, MediaTypeOK, Owned, Named, OnTime, OneLateRound, workerVars,
       packetVars, requestVars, supervisorVars
  <2>3. Newest' /\ Answered'
    BY <1>6 DEF BindFails, Newest, Answered, ResendsWhatWasAsked, workerVars,
       packetVars, requestVars, supervisorVars
  <2> QED  BY <2>1, <2>2, <2>3 DEF Inv
<1>7. CASE Load
  <2>1. MediaTypeOK'
    BY <1>7, MediaAssumption DEF Load, MediaTypeOK, Owned, workerVars, packetVars,
       requestVars, supervisorVars
  <2>2. Owned' /\ Named' /\ OnTime'
    BY <1>7 DEF Load, MediaTypeOK, Owned, Named, OnTime, OneLateRound, workerVars, packetVars,
       requestVars, supervisorVars
  <2>3. Newest' /\ Answered'
    BY <1>7 DEF Load, Newest, Answered, ResendsWhatWasAsked, workerVars, packetVars,
       requestVars, supervisorVars
  <2> QED  BY <2>1, <2>2, <2>3 DEF Inv
<1>8. CASE Sleep
  <2>1. MediaTypeOK'
    BY <1>8, MediaAssumption DEF Sleep, MediaTypeOK, Owned, workerVars, packetVars,
       requestVars, supervisorVars
  <2>2. Owned' /\ Named' /\ OnTime'
    BY <1>8 DEF Sleep, MediaTypeOK, Owned, Named, OnTime, OneLateRound, workerVars, packetVars,
       requestVars, supervisorVars
  <2>3. Newest' /\ Answered'
    BY <1>8 DEF Sleep, Newest, Answered, ResendsWhatWasAsked, workerVars,
       packetVars, requestVars, supervisorVars
  <2> QED  BY <2>1, <2>2, <2>3 DEF Inv
<1>9. CASE Open
  <2>1. MediaTypeOK'
    <3>1. /\ live' \in Nat /\ asked' \in 0 .. live'
         /\ label' \in {"system", "tone"} /\ capture' \in {"system", "tone"}
      BY <1>9 DEF Open, StartWorker, SourceOf, MediaTypeOK, Owned, Named, workerVars
    <3> QED  BY <1>9, <3>1 DEF Open, StartWorker, SourceOf, MediaTypeOK, workerVars,
                packetVars, requestVars, supervisorVars
  <2>2. Owned' /\ Named' /\ OnTime'
    BY <1>9 DEF Open, StartWorker, SourceOf, MediaTypeOK, Owned, Named, OnTime, OneLateRound,
       workerVars, packetVars, requestVars, supervisorVars
  <2>3. Newest' /\ Answered'
    BY <1>9 DEF Open, StartWorker, SourceOf, Newest, Answered, ResendsWhatWasAsked,
       workerVars, packetVars, requestVars, supervisorVars
  <2> QED  BY <2>1, <2>2, <2>3 DEF Inv
<1>10. CASE OpenFails
  <2>1. MediaTypeOK'
    <3>1. label' \in {"configured", "idle", "system", "tone"} /\ failures' \in Nat
      BY <1>10 DEF OpenFails, SourceOf, MediaTypeOK, Owned, Named, workerVars
    <3> QED  BY <1>10, <3>1 DEF OpenFails, SourceOf, MediaTypeOK, workerVars,
                packetVars, requestVars, supervisorVars
  <2>2. Owned' /\ Named' /\ OnTime'
    BY <1>10 DEF OpenFails, MediaTypeOK, Owned, Named, OnTime, OneLateRound, workerVars,
       packetVars, requestVars, supervisorVars
  <2>3. Newest' /\ Answered'
    BY <1>10 DEF OpenFails, Newest, Answered, ResendsWhatWasAsked, workerVars,
       packetVars, requestVars, supervisorVars
  <2> QED  BY <2>1, <2>2, <2>3 DEF Inv
<1>11. CASE ReceiveError
  <2>1. MediaTypeOK'
    BY <1>11, MediaAssumption DEF ReceiveError, MediaTypeOK, Owned, workerVars,
       packetVars, requestVars, supervisorVars
  <2>2. Owned' /\ Named' /\ OnTime'
    BY <1>11 DEF ReceiveError, MediaTypeOK, Owned, Named, OnTime, OneLateRound, workerVars,
       packetVars, requestVars, supervisorVars
  <2>3. Newest' /\ Answered'
    BY <1>11 DEF ReceiveError, Newest, Answered, ResendsWhatWasAsked, workerVars,
       packetVars, requestVars, supervisorVars
  <2> QED  BY <2>1, <2>2, <2>3 DEF Inv
<1>12. CASE Close
  <2>1. MediaTypeOK'
    <3>1. asked' \in 0 .. live
      BY <1>12 DEF Close, MediaTypeOK, Owned, Named, workerVars
    <3> QED  BY <1>12, <3>1 DEF Close, MediaTypeOK, workerVars, packetVars,
                requestVars, supervisorVars
  <2>2. Owned' /\ Named' /\ OnTime'
    BY <1>12 DEF Close, MediaTypeOK, Owned, Named, OnTime, OneLateRound, workerVars, packetVars,
       requestVars, supervisorVars
  <2>3. Newest' /\ Answered'
    BY <1>12 DEF Close, Newest, Answered, ResendsWhatWasAsked, workerVars,
       packetVars, requestVars, supervisorVars
  <2> QED  BY <2>1, <2>2, <2>3 DEF Inv
<1>13. CASE Joined
  <2>1. MediaTypeOK'
    <3>1. /\ at' \in {"sleeping", "fallback", "failing"}
         /\ label' \in {"configured", "idle", "system", "tone"}
      BY <1>13 DEF Joined, MediaTypeOK, Owned, Named, workerVars
    <3> QED  BY <1>13, <3>1 DEF Joined, MediaTypeOK, workerVars, packetVars,
                requestVars, supervisorVars
  <2>2. Owned' /\ Named' /\ OnTime'
    BY <1>13 DEF Joined, MediaTypeOK, Owned, Named, OnTime, OneLateRound, workerVars, packetVars,
       requestVars, supervisorVars
  <2>3. Newest' /\ Answered'
    BY <1>13 DEF Joined, Newest, Answered, ResendsWhatWasAsked, workerVars,
       packetVars, requestVars, supervisorVars
  <2> QED  BY <2>1, <2>2, <2>3 DEF Inv
<1>14. CASE Fallback
  <2>1. MediaTypeOK'
    <3>1. live' \in Nat /\ asked' \in 0 .. live'
      BY <1>14 DEF Fallback, StartWorker, MediaTypeOK, Owned, Named, workerVars
    <3> QED  BY <1>14, <3>1 DEF Fallback, StartWorker, MediaTypeOK, workerVars,
                packetVars, requestVars, supervisorVars
  <2>2. Owned' /\ Named' /\ OnTime'
    BY <1>14 DEF Fallback, StartWorker, MediaTypeOK, Owned, Named, OnTime, OneLateRound,
       workerVars, packetVars, requestVars, supervisorVars
  <2>3. Newest' /\ Answered'
    BY <1>14 DEF Fallback, StartWorker, Newest, Answered, ResendsWhatWasAsked,
       workerVars, packetVars, requestVars, supervisorVars
  <2> QED  BY <2>1, <2>2, <2>3 DEF Inv
<1>15. CASE FallbackFails
  <2>1. MediaTypeOK'
    BY <1>15, MediaAssumption DEF FallbackFails, MediaTypeOK, Owned, workerVars,
       packetVars, requestVars, supervisorVars
  <2>2. Owned' /\ Named' /\ OnTime'
    BY <1>15 DEF FallbackFails, MediaTypeOK, Owned, Named, OnTime, OneLateRound, workerVars,
       packetVars, requestVars, supervisorVars
  <2>3. Newest' /\ Answered'
    BY <1>15 DEF FallbackFails, Newest, Answered, ResendsWhatWasAsked, workerVars,
       packetVars, requestVars, supervisorVars
  <2> QED  BY <2>1, <2>2, <2>3 DEF Inv
<1>16. CASE Send
  <2>1. MediaTypeOK'
    BY <1>16, MediaAssumption DEF Send, MediaTypeOK, Owned, workerVars, packetVars,
       requestVars, supervisorVars
  <2>2. Owned' /\ Named' /\ OnTime'
    BY <1>16, MediaAssumption DEF Send, MediaTypeOK, Owned, Named, OnTime, OneLateRound,
       workerVars, packetVars,
       requestVars, supervisorVars
  <2>3. Newest' /\ Answered'
    BY <1>16 DEF Send, Newest, Answered, ResendsWhatWasAsked, workerVars,
       packetVars, requestVars, supervisorVars
  <2> QED  BY <2>1, <2>2, <2>3 DEF Inv
<1>17. CASE SendFails
  <2>1. MediaTypeOK'
    BY <1>17, MediaAssumption DEF SendFails, MediaTypeOK, Owned, workerVars,
       packetVars, requestVars, supervisorVars
  <2>2. Owned' /\ Named' /\ OnTime'
    BY <1>17 DEF SendFails, MediaTypeOK, Owned, Named, OnTime, OneLateRound, workerVars,
       packetVars, requestVars, supervisorVars
  <2>3. Newest' /\ Answered'
    BY <1>17 DEF SendFails, Newest, Answered, ResendsWhatWasAsked, workerVars,
       packetVars, requestVars, supervisorVars
  <2> QED  BY <2>1, <2>2, <2>3 DEF Inv
<1>18. CASE Serve
  <2>1. MediaTypeOK'
    <3> DEFINE R == [from : Phones, number : 0 .. SeqNumbers - 1]
    <3>1. requests \in Seq(R) /\ requests # <<>> /\ requests' = Tail(requests)
      BY <1>18 DEF Serve, MediaTypeOK
    <3>2. requests' \in Seq(R)
      <4> HIDE DEF R
      <4> QED  BY <3>1
    <3>3. budget' \in 0 .. MaxRetransmits
      BY <1>18, MediaAssumption DEF Serve, MediaTypeOK
    <3>4. resent' \in [asked : Nat \cup {Empty}, packet : Nat \cup {Empty}]
      <4>1. Head(requests).number \in Nat
        BY <1>18, RequestTyped DEF Serve
      <4>2. SlotOf(Head(requests).number) \in Slots
        BY <4>1, MediaAssumption, Division DEF SlotOf, Slots
      <4> QED  BY <1>18, <4>1, <4>2 DEF Serve, MediaTypeOK, NothingResent
    <3> QED  BY <1>18, <3>2, <3>3, <3>4 DEF Serve, MediaTypeOK, workerVars,
                packetVars, supervisorVars
  <2>2. Owned' /\ Named' /\ OnTime'
    BY <1>18, MediaAssumption DEF Serve, MediaTypeOK, Owned, Named, OnTime, OneLateRound,
       workerVars, packetVars,
       requestVars, supervisorVars
  <2>3. Newest' /\ Answered'
    BY <1>18, ServeAnswers DEF Serve, Newest, Answered, packetVars
  <2> QED  BY <2>1, <2>2, <2>3 DEF Inv
<1>19. CASE Served
  <2>1. MediaTypeOK'
    BY <1>19, MediaAssumption DEF Served, NothingResent, MediaTypeOK, Owned,
       workerVars, packetVars, requestVars, supervisorVars
  <2>2. Owned' /\ Named' /\ OnTime'
    BY <1>19 DEF Served, NothingResent, MediaTypeOK, Owned, Named, OnTime, OneLateRound,
       workerVars, packetVars, requestVars, supervisorVars
  <2>3. Newest' /\ Answered'
    BY <1>19 DEF Served, NothingResent, Newest, Answered, ResendsWhatWasAsked,
       workerVars, packetVars, requestVars, supervisorVars
  <2> QED  BY <2>1, <2>2, <2>3 DEF Inv
<1>20. ASSUME NEW lasted \in BOOLEAN, Fail(lasted) PROVE Inv'
  <2>1. MediaTypeOK'
    BY <1>20, MediaAssumption DEF Fail, MediaTypeOK, Owned, workerVars, packetVars,
       requestVars, supervisorVars
  <2>2. Owned' /\ Named' /\ OnTime'
    BY <1>20 DEF Fail, MediaTypeOK, Owned, Named, OnTime, OneLateRound, workerVars, packetVars,
       requestVars, supervisorVars
  <2>3. Newest' /\ Answered'
    BY <1>20 DEF Fail, Newest, Answered, ResendsWhatWasAsked, workerVars,
       packetVars, requestVars, supervisorVars
  <2> QED  BY <2>1, <2>2, <2>3 DEF Inv
<1>21. CASE Restart
  <2>1. MediaTypeOK'
    BY <1>21, MediaAssumption DEF Restart, NextDelay, Lesser, NothingResent,
       MediaTypeOK, Owned, workerVars, packetVars, requestVars, supervisorVars
  <2>2. Owned' /\ Named' /\ OnTime'
    BY <1>21 DEF Restart, NextDelay, Lesser, NothingResent, MediaTypeOK, Owned,
       Named, OnTime, OneLateRound, workerVars, packetVars, requestVars, supervisorVars
  <2>3. Newest' /\ Answered'
    BY <1>21 DEF Restart, NextDelay, Lesser, NothingResent, Newest, Answered,
       ResendsWhatWasAsked, workerVars, packetVars, requestVars, supervisorVars
  <2> QED  BY <2>1, <2>2, <2>3 DEF Inv
<1>22. ASSUME NEW d \in 0 .. MaxDrop, Receive(d) PROVE Inv'
  <2>1. d \in Nat
    BY MediaAssumption
  <2>2. /\ position' \in Nat /\ cache' \in [Slots -> Nat \cup {Empty}] /\ stored' \subseteq Nat
        /\ Newest'
    BY <1>22, <2>1, ReceiveKeepsNewest
  <2>3. MediaTypeOK'
    BY <1>22, <2>2 DEF Receive, MediaTypeOK, workerVars, requestVars, supervisorVars
  <2>4. Owned' /\ Named' /\ OnTime'
    BY <1>22 DEF Receive, Owned, Named, OnTime, OneLateRound, workerVars
  <2>5. Answered'
    BY <1>22 DEF Receive, Answered, ResendsWhatWasAsked, requestVars
  <2> QED  BY <2>2, <2>3, <2>4, <2>5
<1>23. CASE UNCHANGED vars
  <2>1. MediaTypeOK'
    BY <1>23 DEF vars, MediaTypeOK, workerVars, packetVars, requestVars, supervisorVars
  <2>2. Owned' /\ Named' /\ OnTime'
    BY <1>23 DEF vars, Owned, Named, OnTime, OneLateRound, workerVars, packetVars,
       requestVars
  <2>3. Newest' /\ Answered'
    BY <1>23 DEF vars, Newest, Answered, ResendsWhatWasAsked, packetVars, requestVars
  <2> QED  BY <2>1, <2>2, <2>3
<1> HIDE DEF Inv
<1> QED
  BY <1>1, <1>2, <1>3, <1>4, <1>5, <1>6, <1>7, <1>8, <1>9, <1>10, <1>11, <1>12, <1>13,
     <1>14, <1>15, <1>16, <1>17, <1>18, <1>19, <1>20, <1>21, <1>22, <1>23 DEF Next,
     Attempt, Errors, Supervise

\* The strengthened invariant holds in every run of the media task.
THEOREM Invariance == MediaSpec => []Inv
BY InvInit, InvNext, PTL DEF MediaSpec

\* The media task's state keeps its types, the retry delay its limits.
THEOREM MediaTypeCorrect == MediaSpec => []MediaTypeOK
<1>1. Inv => MediaTypeOK
  BY DEF Inv
<1> QED  BY <1>1, Invariance, PTL

\* Sessions, the fallback and restarts never leave two capture threads alive.
THEOREM NeverTwoWorkers == MediaSpec => []OneWorker
<1>1. Inv => OneWorker
  BY DEF Inv, Owned, OneWorker
<1> QED  BY <1>1, Invariance, PTL

\* For every cache size that divides the number of sequence numbers, and any
\* pattern of drops, the packets of the last CachePackets positions can be had.
THEOREM RecentPacketsCached == MediaSpec => []RecentIsCached
<1>1. Inv => RecentIsCached
  BY NewestIsRecent DEF Inv
<1> QED  BY <1>1, Invariance, PTL

\* A retransmission is the packet sent last under the number asked for.
THEOREM ResendsRight == MediaSpec => []ResendsWhatWasAsked
<1>1. Inv => ResendsWhatWasAsked
  BY DEF Inv, Answered
<1> QED  BY <1>1, Invariance, PTL

\* After a session ends or moves, its address is sent at most one frame and the
\* retransmissions of one round, however often the target moves again.
THEOREM StreamStopsInTime == MediaSpec => []OneLateRound
<1>1. Inv => OneLateRound
  BY DEF Inv, OnTime
<1> QED  BY <1>1, Invariance, PTL

\* While packets are sent the status names the source they come from.
THEOREM SourceNamed == MediaSpec => []LabelNamesSource
<1>1. Inv => LabelNamesSource
  BY DEF Inv, Owned, Named, LabelNamesSource
<1> QED  BY <1>1, Invariance, PTL
==============================================================================
