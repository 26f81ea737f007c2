-------------------------- MODULE SenderTargetProofs --------------------------
(***************************************************************************)
(* Proofs about module SenderTarget: the sender is one more task of the    *)
(* service, so that everything proved of SessionState holds with it too,   *)
(* and the target it caches is never stale without its knowing.            *)
(***************************************************************************)
EXTENDS SenderTarget, SessionStateProofs

\* The media task is between its two writes exactly when the sender is, and
\* no generation the sender has loaded lies in the future.
SenderInv ==
    /\ Inv
    /\ SenderTypeOK
    /\ sender.at = "direct" <=> pc[Media] = "directCommit"
    /\ sender.fetched <= generation
    /\ sender.observed # MaxGeneration => sender.observed <= generation
    /\ CacheCoherent

------------------------------------------------------------------------------

USE SessionAssumption, GenerationAssumption
    DEF Goto, sessionVars, pairingVars, handlerVars, auxVars

\* Every step of the service with its sender is a step of the service or none.
LEMMA SenderIsTask == SenderNext => [Next]_vars
    BY DEF SenderNext, SenderStep, Next, Boot, BootDirectDone,
           LoadSame, LoadChanged, ReadTarget, Send, SenderFails, BindFails

\* The service with its sender is the service.
THEOREM SenderSafe == SenderSpec => Spec
<1>1. SenderInit => Init
    BY DEF SenderInit
<1>2. [SenderNext]_senderVars => [Next]_vars
    BY SenderIsTask DEF senderVars, vars
<1> QED
    BY <1>1, <1>2, PTL DEF SenderSpec, Spec

\* The target changes only when a task enters a change; a change ends with a
\* new generation; the generation only grows.
LEMMA Generations ==
    ASSUME Inv, [Next]_vars
    PROVE  /\ generation' \in Nat /\ generation <= generation'
           /\ target' # target => TargetInFlux'
           /\ TargetInFlux /\ ~TargetInFlux' => generation' > generation
<1> USE DEF Inv, TypeInv, TypeOK, Tasks, TargetInFlux
<1>1. ASSUME NEW h \in Handlers, StartRequest(h)
      PROVE  UNCHANGED <<generation, target, lock>> /\ pc'[Media] = pc[Media]
    BY <1>1 DEF StartRequest
<1>2. ASSUME NEW h \in Handlers, Calm(h)
      PROVE  UNCHANGED <<generation, target, lock>> /\ pc'[Media] = pc[Media]
    BY <1>2 DEF Calm
<1>3. ASSUME NEW h \in Handlers, HeartbeatRenews(h)
      PROVE  UNCHANGED <<generation, target, lock>> /\ pc'[Media] = pc[Media]
    BY <1>3 DEF HeartbeatRenews
<1>4. ASSUME NEW h \in Handlers,
             \/ ResumeHit(h) \/ ResumeLapse(h) \/ Claim(h) \/ HeartbeatLapse(h)
             \/ Disconnect(h)
      PROVE  UNCHANGED generation /\ lock' = h
    BY <1>4 DEF ResumeHit, ResumeLapse, Claim, HeartbeatLapse, Disconnect, BeginCommit
<1>5. ASSUME NEW h \in Handlers,
             \/ ResumeDone(h) \/ ResumeLapseDone(h) \/ ClaimDone(h)
             \/ HeartbeatLapseDone(h) \/ DisconnectDone(h)
      PROVE  UNCHANGED target /\ generation' = generation + 1
    BY <1>5 DEF ResumeDone, ResumeLapseDone, ClaimDone, HeartbeatLapseDone,
                DisconnectDone, EndCommit
<1>6. CASE Expire \/ ExpireDone
    BY <1>6 DEF Expire, ExpireDone, BeginCommit, EndCommit
<1>7. CASE Tick \/ MediaStartsIdle \/ UNCHANGED vars
    BY <1>7 DEF Tick, MediaStartsIdle, vars
<1>8. CASE MediaStarts
    BY <1>8 DEF MediaStarts, SetDirectTarget
<1>9. CASE SetDirectTargetDone
    BY <1>9 DEF SetDirectTargetDone
<1> QED
    BY <1>1, <1>2, <1>3, <1>4, <1>5, <1>6, <1>7, <1>8, <1>9, StepKinds

\* Only the media task itself enters and leaves its change of the target.
LEMMA MediaAlone == Inv /\ ControlNext => pc'[Media] = pc[Media]
<1> SUFFICES ASSUME Inv, ControlNext PROVE pc'[Media] = pc[Media]
    OBVIOUS
<1> USE DEF Inv, TypeInv, TypeOK, Tasks
<1>1. ASSUME NEW h \in Handlers, NEW label, Goto(h, label) PROVE pc'[Media] = pc[Media]
    BY <1>1
<1>2. ASSUME NEW h \in Handlers, StartRequest(h) PROVE \E label : Goto(h, label)
    BY <1>2 DEF StartRequest
<1>3. ASSUME NEW h \in Handlers, StartStatus(h) \/ RefuseProtocol(h) \/ Reply(h)
      PROVE  \E label : Goto(h, label)
    BY <1>3 DEF StartStatus, RefuseProtocol, Reply
<1>4. ASSUME NEW h \in Handlers, Connect(h) PROVE \E label : Goto(h, label)
    BY <1>4 DEF Connect, BeginCommit, EndCommit, ResumeHit, ResumeDone, ResumeMiss,
       ResumeLapse, ResumeLapseDone, AuthArrive, AuthReject, AuthWrong, AuthAccept,
       SessionIdFails, Claim, ClaimDone, ClaimBusy
<1>5. ASSUME NEW h \in Handlers, Heartbeat(h) PROVE \E label : Goto(h, label)
    BY <1>5 DEF Heartbeat, BeginCommit, EndCommit, HeartbeatRenews, HeartbeatInactive,
       HeartbeatLapse, HeartbeatLapseDone
<1>6. ASSUME NEW h \in Handlers, Drop(h) \/ Snapshot(h) PROVE \E label : Goto(h, label)
    BY <1>6 DEF Drop, BeginCommit, EndCommit, Disconnect, DisconnectDone,
       DisconnectIgnored, Snapshot, SnapshotTarget, SnapshotDevice
<1>7. CASE LeaseExpirer \/ Tick
    BY <1>7 DEF LeaseExpirer, Expire, ExpireDone, BeginCommit, EndCommit, Tick
<1> QED
    BY <1>1, <1>2, <1>3, <1>4, <1>5, <1>6, <1>7 DEF ControlNext, Arrive, Handle

\* Every step keeps the sender's invariant.
LEMMA SenderStepInv == SenderInv /\ [SenderNext]_senderVars => SenderInv'
<1> SUFFICES ASSUME SenderInv, [SenderNext]_senderVars PROVE SenderInv'
    OBVIOUS
<1>1. [Next]_vars
    BY SenderIsTask DEF senderVars
<1>2. Inv' /\ TypeOK'
    BY <1>1, InvStep DEF SenderInv, Inv, TypeInv
<1>3. /\ generation' \in Nat /\ generation <= generation'
      /\ target' # target => TargetInFlux'
      /\ TargetInFlux /\ ~TargetInFlux' => generation' > generation
    BY <1>1, Generations DEF SenderInv
<1>4. generation \in Nat /\ target \in Addrs \cup {NoAddr} /\ TypeOK
    BY DEF SenderInv, Inv, TypeInv, TypeOK
<1>5. CASE UNCHANGED sender /\ pc'[Media] = pc[Media]
    BY <1>2, <1>3, <1>4, <1>5 DEF SenderInv, SenderTypeOK, CacheCoherent
<1>6. CASE Boot /\ MediaStarts
    BY <1>2, <1>3, <1>4, <1>6 DEF Boot, MediaStarts, SetDirectTarget, SenderInv,
       SenderTypeOK, CacheCoherent, TypeOK, Tasks
<1>7. CASE BootDirectDone
    BY <1>2, <1>3, <1>4, <1>7 DEF BootDirectDone, SetDirectTargetDone, SenderInv,
       SenderTypeOK, CacheCoherent, TypeOK, Tasks, TargetInFlux
<1>8. CASE Boot /\ MediaStartsIdle
    BY <1>2, <1>3, <1>4, <1>8 DEF Boot, MediaStartsIdle, SenderInv,
       SenderTypeOK, CacheCoherent, TargetInFlux
<1>9. CASE LoadSame \/ LoadChanged \/ ReadTarget \/ Send
    BY <1>2, <1>3, <1>4, <1>9 DEF LoadSame, LoadChanged, ReadTarget, Send, SenderInv,
       SenderTypeOK, CacheCoherent, TargetInFlux, vars
<1>10. CASE SenderFails \/ BindFails
    BY <1>2, <1>3, <1>4, <1>10 DEF SenderFails, BindFails, Booting, SenderInv,
       SenderTypeOK, CacheCoherent, TargetInFlux, vars
<1>11. CASE ControlNext /\ UNCHANGED sender
    BY <1>5, <1>11, MediaAlone DEF SenderInv
<1>12. CASE UNCHANGED senderVars
    BY <1>5, <1>12 DEF senderVars, vars
<1> QED
    BY <1>6, <1>7, <1>8, <1>9, <1>10, <1>11, <1>12
    DEF SenderNext, SenderStep, Boot

\* The sender's variables keep their types, and it never trusts a stale target:
\* when the generation it has observed is the current one and no task is in the
\* middle of a change, the target it caches is the session's.
THEOREM SenderCoherent == SenderSpec => [](SenderTypeOK /\ CacheCoherent)
<1>1. SenderInit => SenderInv
  <2> SUFFICES ASSUME SenderInit PROVE SenderInv
    OBVIOUS
  <2>1. Inv
    BY InitInv DEF SenderInit
  <2> QED
    BY <2>1 DEF SenderInit, Init, Booting, SenderInv, SenderTypeOK, CacheCoherent,
       Inv, TypeInv, Tasks
<1>2. SenderInv => SenderTypeOK /\ CacheCoherent
    BY DEF SenderInv
<1> QED
    BY <1>1, <1>2, SenderStepInv, PTL DEF SenderSpec
====
