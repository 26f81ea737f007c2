-------------------------- MODULE SessionStateProofs --------------------------
(***************************************************************************)
(* Proofs about module SessionState, for every set of clients, addresses   *)
(* and handlers, every timeout and every bound.                            *)
(*                                                                         *)
(* The inductive invariant Inv has four parts: the types, with the request *)
(* a working handler serves; the device lock, held by exactly the task     *)
(* that is between its two writes; what that task has already written to   *)
(* target; and where session ids can be.                                   *)
(***************************************************************************)
EXTENDS SessionState, TLAPS

\* Handlers that serve a request, as opposed to a status or nothing.
Serving == Labels \ {"idle", "upgrade", "status", "readTarget", "readDevice",
                     "directCommit", "expireCommit"}

\* Connects whose session id has not become active yet.
Unclaimed == {"resume", "lapseCommit", "auth", "check", "claim", "claimCommit"}

TypeInv ==
    /\ TypeOK
    /\ pc[Expirer] \in {"idle", "expireCommit"}
    /\ pc[Media] \in {"idle", "directCommit"}
    /\ \A h \in Handlers :
          /\ pc[h] \notin {"expireCommit", "directCommit"}
          /\ pc[h] \in Serving => req[h] \in Request

\* A task holds the lock exactly while it is between its two writes.
LockInv == \A p \in Tasks : pc[p] \in Committing <=> lock = p

Clears == {"lapseCommit", "beatLapse", "dropCommit", "expireCommit"}

\* What the holder of the lock has written, and what it knows of the device,
\* which nobody else can change.
CommitInv ==
    /\ \A p \in Tasks :
          pc[p] \in Clears /\ DirectTarget = NoAddr => target = NoAddr
    /\ \A h \in Handlers :
          /\ pc[h] = "claimCommit" =>
                /\ ~HeldAgainst(req[h].client)
                /\ DirectTarget = NoAddr => target = req[h].addr
          /\ pc[h] = "resumeCommit" =>
                /\ device # NoDevice
                /\ DirectTarget = NoAddr => target = device.target
          /\ pc[h] = "dropCommit" => ~StaleDisconnect(req[h])

\* Where session ids are: each names one request, the active session is not
\* among the retired, and a phone only knows sessions that have been active.
IdInv ==
    /\ \A s \in retired : s <= started
    /\ device # NoDevice => device.session <= started /\ device.session \notin retired
    /\ \A h \in Handlers : pc[h] \in Serving =>
          /\ req[h].id <= started
          /\ req[h].session \in KnownSessions
          /\ pc[h] \in Unclaimed =>
                /\ req[h].id \notin retired
                /\ device # NoDevice => device.session # req[h].id
          /\ \A g \in Handlers : pc[g] \in Serving /\ g # h => req[g].id # req[h].id

Inv == TypeInv /\ LockInv /\ CommitInv /\ RoutedToDevice /\ IdInv /\ ResumeBeforePin

------------------------------------------------------------------------------

USE SessionAssumption

\* The service starts in the invariant.
LEMMA InitInv == Init => Inv
<1> SUFFICES ASSUME Init PROVE Inv
    OBVIOUS
<1> USE DEF Init, Tasks, Sessions
<1>1. TypeInv
    BY DEF TypeInv, TypeOK, Labels, Serving
<1>2. LockInv
    BY DEF LockInv, Committing
<1>3. CommitInv
    BY DEF CommitInv, Clears
<1>4. RoutedToDevice /\ ResumeBeforePin
    BY DEF RoutedToDevice, ResumeBeforePin, DeviceTarget
<1>5. IdInv
    BY DEF IdInv, Serving
<1> QED
    BY <1>1, <1>2, <1>3, <1>4, <1>5 DEF Inv

------------------------------------------------------------------------------
(***************************************************************************)
(* The steps.  Most leave the session alone and only move one handler on:  *)
(* they are calm.                                                          *)
(***************************************************************************)

\* Where a connect is once it depends on the PIN, and the refusals.
FellThrough == {"auth", "check", "claim", "unauthorized", "expired", "blocked",
                "busy", "failed"}

Calm(h) ==
    /\ UNCHANGED <<now, sessionVars, retired, mediaStarts>>
    /\ TypeOK'
    /\ started <= started'
    /\ \E label \in Labels \ (Committing \cup {"directCommit"}) :
          /\ pc[h] \notin Committing \cup {"directCommit"}
          /\ Goto(h, label)
          /\ label \in Serving => pc[h] \in Serving /\ UNCHANGED req
          /\ label \in Unclaimed => pc[h] \in Unclaimed
          /\ label \in FellThrough =>
                \/ pc[h] \in FellThrough
                \/ req[h].kind # "connect"
                \/ device # NoDevice => ~Resumes(req[h])
    /\ \E r \in Request \cup {NoRequest} : req' = [req EXCEPT ![h] = r]

USE DEF Goto, sessionVars, pairingVars, handlerVars, auxVars

\* Which steps are calm.
LEMMA CalmSteps ==
    ASSUME Inv, NEW h \in Handlers,
           \/ StartStatus(h) \/ RefuseProtocol(h) \/ ResumeMiss(h)
           \/ AuthArrive(h) \/ AuthReject(h) \/ AuthWrong(h) \/ AuthAccept(h)
           \/ SessionIdFails(h) \/ ClaimBusy(h) \/ HeartbeatInactive(h)
           \/ DisconnectIgnored(h) \/ Snapshot(h) \/ Reply(h)
    PROVE  Calm(h)
<1> USE DEF Inv, TypeInv, TypeOK, Calm, Labels, Committing, Replies, Serving,
            Unclaimed, FellThrough
<1>0. req = [req EXCEPT ![h] = req[h]] /\ req[h] \in Request \cup {NoRequest}
    OBVIOUS
<1>1. CASE StartStatus(h) \/ RefuseProtocol(h)
    BY <1>0, <1>1 DEF StartStatus, RefuseProtocol
<1>2. CASE ResumeMiss(h)
  <2>1. Goto(h, "auth") /\ UNCHANGED <<now, sessionVars, retired, mediaStarts, started, req>>
    BY <1>2 DEF ResumeMiss
  <2>2. pc[h] = "resume" /\ (device # NoDevice => ~Resumes(req[h]))
    BY <1>2 DEF ResumeMiss
  <2>3. "auth" \in Labels \ (Committing \cup {"directCommit"})
    OBVIOUS
  <2>4. "auth" \in Serving /\ "auth" \in Unclaimed /\ pc[h] \in Serving /\ pc[h] \in Unclaimed /\ pc[h] \notin Committing \cup {"directCommit"}
    BY <2>2
  <2>5. TypeOK'
    BY <1>2 DEF ResumeMiss
  <2>6. started <= started'
    BY <2>1
  <2> HIDE DEF TypeOK, Labels, Serving, Committing, Unclaimed, Inv, TypeInv
  <2> QED
    BY <1>0, <2>1, <2>2, <2>3, <2>4, <2>5, <2>6
<1>3. CASE AuthArrive(h) \/ AuthReject(h)
    BY <1>0, <1>3 DEF AuthArrive, AuthReject
<1>4. CASE AuthWrong(h) \/ AuthAccept(h)
    BY <1>0, <1>4 DEF AuthWrong, AuthAccept
<1>5. CASE SessionIdFails(h) \/ ClaimBusy(h)
    BY <1>0, <1>5 DEF SessionIdFails, ClaimBusy
<1>6. CASE HeartbeatInactive(h) \/ DisconnectIgnored(h)
    BY <1>0, <1>6 DEF HeartbeatInactive, DisconnectIgnored
<1>7. CASE Snapshot(h)
    BY <1>0, <1>7 DEF Snapshot, SnapshotTarget, SnapshotDevice
<1>8. CASE Reply(h)
  <2>1. Goto(h, "idle") /\ UNCHANGED <<now, sessionVars, retired, mediaStarts, started>>
    BY <1>8 DEF Reply
  <2>2. pc[h] \in Replies /\ req' = [req EXCEPT ![h] = NoRequest]
    BY <1>8 DEF Reply
  <2>3. "idle" \in Labels \ (Committing \cup {"directCommit"}) /\ "idle" \notin Serving \cup Unclaimed \cup FellThrough
    OBVIOUS
  <2>4. pc[h] \notin Committing \cup {"directCommit"}
    BY <2>2
  <2>5. TypeOK'
    BY <1>8 DEF Reply
  <2>6. started <= started'
    BY <2>1
  <2> HIDE DEF TypeOK, Labels, Serving, Committing, Unclaimed, FellThrough, Inv, TypeInv
  <2> QED
    BY <2>1, <2>2, <2>3, <2>4, <2>5, <2>6
<1> QED
    BY <1>1, <1>2, <1>3, <1>4, <1>5, <1>6, <1>7, <1>8

\* How a request starts.
Begins(h, r) ==
    /\ req' = [req EXCEPT ![h] = r]
    /\ r.id = started'
    /\ r.session \in KnownSessions
    /\ Goto(h, FirstStep(r))
    /\ FirstStep(r) \in {"resume", "auth", "beat", "drop", "unauthorized"}
    /\ r.kind = "connect" /\ FirstStep(r) # "resume" => r.session = NoSession

\* A request starts with its own number as the id of the session it may get.
LEMMA StartStep ==
    ASSUME TypeOK, NEW h \in Handlers, StartRequest(h)
    PROVE  \E r \in Request : Begins(h, r)
<1>1. PICK kind \in Kinds \ {"status"}, c \in Clients, s \in KnownSessions,
           a \in Addrs, ok \in PinTries :
         LET r == [id |-> started + 1, kind |-> kind, client |-> c,
                   session |-> s, addr |-> a, pinOk |-> ok]
         IN  /\ req' = [req EXCEPT ![h] = r]
             /\ Goto(h, FirstStep(r))
    BY DEF StartRequest
<1> DEFINE r == [id |-> started + 1, kind |-> kind, client |-> c,
                 session |-> s, addr |-> a, pinOk |-> ok]
<1>2. s \in Sessions \cup {NoSession}
    BY DEF KnownSessions, TypeOK, Device
<1>3. started + 1 \in Sessions /\ started' = started + 1
    BY DEF StartRequest, TypeOK, Sessions
<1>4. r \in Request
    BY <1>2, <1>3 DEF Request
<1>5. /\ FirstStep(r) \in {"resume", "auth", "beat", "drop", "unauthorized"}
      /\ r.kind = "connect" /\ FirstStep(r) # "resume" => r.session = NoSession
    BY DEF FirstStep, AllKinds
<1> QED
    BY <1>1, <1>3, <1>4, <1>5 DEF Begins

\* A renewal changes nothing of the device but its target and its age.
LEMMA Renewal ==
    ASSUME device \in Device, now \in Nat, NEW a \in Addrs
    PROVE  /\ LET d == [device EXCEPT !.refreshed = now] IN
                 /\ d \in Device /\ d.client = device.client
                 /\ d.session = device.session /\ d.target = device.target
                 /\ d.refreshed = now
           /\ LET d == [device EXCEPT !.target = a, !.refreshed = now] IN
                 /\ d \in Device /\ d.client = device.client
                 /\ d.session = device.session /\ d.target = a
                 /\ d.refreshed = now
    BY DEF Device

\* Every step is calm, or one of these.
LEMMA StepKinds ==
    ASSUME Inv, Next
    PROVE  \/ \E h \in Handlers :
                \/ StartRequest(h) \/ Calm(h) \/ HeartbeatRenews(h)
                \/ ResumeHit(h) \/ ResumeLapse(h) \/ Claim(h)
                \/ HeartbeatLapse(h) \/ Disconnect(h)
                \/ ResumeDone(h) \/ ResumeLapseDone(h) \/ ClaimDone(h)
                \/ HeartbeatLapseDone(h) \/ DisconnectDone(h)
           \/ Expire \/ ExpireDone \/ Tick
           \/ MediaStarts \/ MediaStartsIdle \/ SetDirectTargetDone
    BY CalmSteps DEF Next, ControlNext, Arrive, Handle, Connect, Heartbeat,
                     Drop, LeaseExpirer

\* What EndCommit does to the ids and the device.
LEMMA Ending ==
    ASSUME TypeOK, NEW p \in Tasks, NEW d \in Device \cup {NoDevice},
           NEW label, EndCommit(p, d, label)
    PROVE  /\ device' \in Device \cup {NoDevice} /\ generation' \in Nat
           /\ retired' \subseteq Sessions
           /\ retired \subseteq retired'
           /\ retired' \subseteq retired \cup {IF device = NoDevice THEN NoSession ELSE device.session}
<1>1. device # NoDevice => device.session \in Sessions
    BY DEF TypeOK, Device
<1> QED
    BY <1>1 DEF EndCommit, TypeOK

\* Every step keeps the types and gives a working handler its request.
LEMMA TypeInvStep == Inv /\ Next => TypeInv'
<1> SUFFICES ASSUME Inv, Next PROVE TypeInv'
    OBVIOUS
<1> USE DEF Inv, TypeInv, TypeOK, Tasks, Labels, Committing, Replies, Serving
<1>1. ASSUME NEW h \in Handlers, StartRequest(h) PROVE TypeInv'
  <2>1. PICK r \in Request : Begins(h, r)
    BY <1>1, StartStep
  <2>2. /\ pc[h] = "idle" /\ started < MaxRequests /\ started' = started + 1
        /\ UNCHANGED <<now, sessionVars, pairingVars, arrived, seen, mediaStarts, retired>>
    BY <1>1 DEF StartRequest
  <2> QED
    BY <2>1, <2>2 DEF Begins
<1>2. ASSUME NEW h \in Handlers, Calm(h) PROVE TypeInv'
    BY <1>2 DEF Calm
<1>3. ASSUME NEW h \in Handlers, ResumeHit(h) PROVE TypeInv'
  <2>1. req[h].addr \in Addrs
    BY <1>3 DEF ResumeHit, Request
  <2>2. device' \in Device
    BY <1>3, <2>1, Renewal DEF ResumeHit
  <2> QED
    BY <1>3, <2>1, <2>2 DEF ResumeHit, BeginCommit
<1>4. ASSUME NEW h \in Handlers, HeartbeatRenews(h) PROVE TypeInv'
    BY <1>4, Renewal DEF HeartbeatRenews
<1>5. ASSUME NEW h \in Handlers, ResumeLapse(h) PROVE TypeInv'
    BY <1>5 DEF ResumeLapse, BeginCommit
<1>6. ASSUME NEW h \in Handlers, Claim(h) PROVE TypeInv'
  <2>1. req[h].addr \in Addrs
    BY <1>6 DEF Claim, Request
  <2> QED
    BY <1>6, <2>1 DEF Claim, BeginCommit
<1>7. ASSUME NEW h \in Handlers, HeartbeatLapse(h) PROVE TypeInv'
    BY <1>7 DEF HeartbeatLapse, BeginCommit
<1>8. ASSUME NEW h \in Handlers, Disconnect(h) PROVE TypeInv'
    BY <1>8 DEF Disconnect, BeginCommit
<1>9. ASSUME NEW h \in Handlers, ResumeDone(h) PROVE TypeInv'
  <2>1. EndCommit(h, device, "resumed")
    BY <1>9 DEF ResumeDone
  <2>2. /\ device' \in Device \cup {NoDevice} /\ generation' \in Nat
        /\ retired' \subseteq Sessions
    BY <2>1, Ending
  <2> QED
    BY <1>9, <2>1, <2>2 DEF ResumeDone, EndCommit
<1>10. ASSUME NEW h \in Handlers, ResumeLapseDone(h) PROVE TypeInv'
  <2>1. EndCommit(h, NoDevice, "auth")
    BY <1>10 DEF ResumeLapseDone
  <2>2. /\ device' \in Device \cup {NoDevice} /\ generation' \in Nat
        /\ retired' \subseteq Sessions
    BY <2>1, Ending
  <2> QED
    BY <1>10, <2>1, <2>2 DEF ResumeLapseDone, EndCommit
<1>11. ASSUME NEW h \in Handlers, HeartbeatLapseDone(h) PROVE TypeInv'
  <2>1. EndCommit(h, NoDevice, "inactive")
    BY <1>11 DEF HeartbeatLapseDone
  <2>2. /\ device' \in Device \cup {NoDevice} /\ generation' \in Nat
        /\ retired' \subseteq Sessions
    BY <2>1, Ending
  <2> QED
    BY <1>11, <2>1, <2>2 DEF HeartbeatLapseDone, EndCommit
<1>12. ASSUME NEW h \in Handlers, DisconnectDone(h) PROVE TypeInv'
  <2>1. EndCommit(h, NoDevice, "ok")
    BY <1>12 DEF DisconnectDone
  <2>2. /\ device' \in Device \cup {NoDevice} /\ generation' \in Nat
        /\ retired' \subseteq Sessions
    BY <2>1, Ending
  <2> QED
    BY <1>12, <2>1, <2>2 DEF DisconnectDone, EndCommit
<1>13. ASSUME NEW h \in Handlers, ClaimDone(h) PROVE TypeInv'
  <2> DEFINE d == [client |-> req[h].client, session |-> req[h].id,
                   target |-> req[h].addr, refreshed |-> now]
  <2>1. EndCommit(h, d, "ok")
    BY <1>13 DEF ClaimDone
  <2>2. d \in Device
    BY <1>13 DEF ClaimDone, Device, Request
  <2>3. /\ device' \in Device \cup {NoDevice} /\ generation' \in Nat
        /\ retired' \subseteq Sessions
    BY <2>1, <2>2, Ending
  <2> QED
    BY <1>13, <2>1, <2>3 DEF ClaimDone, EndCommit
<1>14. CASE Expire
    BY <1>14 DEF Expire, BeginCommit
<1>15. CASE ExpireDone
  <2>1. EndCommit(Expirer, NoDevice, "idle")
    BY <1>15 DEF ExpireDone
  <2>3. /\ device' \in Device \cup {NoDevice} /\ generation' \in Nat
        /\ retired' \subseteq Sessions
    BY <2>1, Ending
  <2> QED
    BY <1>15, <2>1, <2>3 DEF ExpireDone, EndCommit
<1>16. CASE Tick
    BY <1>16 DEF Tick
<1>17. CASE MediaStarts
    BY <1>17 DEF MediaStarts, SetDirectTarget
<1>18. CASE MediaStartsIdle
    BY <1>18 DEF MediaStartsIdle
<1>19. CASE SetDirectTargetDone
    BY <1>19 DEF SetDirectTargetDone
<1> QED
    BY StepKinds, <1>1, <1>2, <1>3, <1>4, <1>5, <1>6, <1>7, <1>8, <1>9, <1>10, <1>11,
       <1>12, <1>13, <1>14, <1>15, <1>16, <1>17, <1>18, <1>19


\* Every step keeps the lock with the one task between its two writes.
LEMMA LockInvStep == Inv /\ Next => LockInv'
<1> SUFFICES ASSUME Inv, Next PROVE LockInv'
    OBVIOUS
<1> USE DEF Inv, TypeInv, TypeOK, Tasks, Labels, Committing, Replies, Serving, LockInv
<1>1. ASSUME NEW h \in Handlers, StartRequest(h) PROVE LockInv'
  <2>1. PICK r \in Request : Begins(h, r)
    BY <1>1, StartStep
  <2>2. /\ pc[h] = "idle" /\ started < MaxRequests /\ started' = started + 1
        /\ UNCHANGED <<now, sessionVars, pairingVars, arrived, seen, mediaStarts, retired>>
    BY <1>1 DEF StartRequest
  <2> QED
    BY <2>1, <2>2 DEF Begins
<1>2. ASSUME NEW h \in Handlers, Calm(h) PROVE LockInv'
    BY <1>2 DEF Calm
<1>3. ASSUME NEW h \in Handlers, ResumeHit(h) PROVE LockInv'
    BY <1>3, Renewal DEF ResumeHit, BeginCommit, Request
<1>4. ASSUME NEW h \in Handlers, HeartbeatRenews(h) PROVE LockInv'
    BY <1>4, Renewal DEF HeartbeatRenews
<1>5. ASSUME NEW h \in Handlers, ResumeLapse(h) PROVE LockInv'
    BY <1>5 DEF ResumeLapse, BeginCommit
<1>6. ASSUME NEW h \in Handlers, Claim(h) PROVE LockInv'
    BY <1>6 DEF Claim, BeginCommit
<1>7. ASSUME NEW h \in Handlers, HeartbeatLapse(h) PROVE LockInv'
    BY <1>7 DEF HeartbeatLapse, BeginCommit
<1>8. ASSUME NEW h \in Handlers, Disconnect(h) PROVE LockInv'
    BY <1>8 DEF Disconnect, BeginCommit
<1>9. ASSUME NEW h \in Handlers, ResumeDone(h) PROVE LockInv'
    BY <1>9 DEF ResumeDone, EndCommit
<1>10. ASSUME NEW h \in Handlers, ResumeLapseDone(h) PROVE LockInv'
    BY <1>10 DEF ResumeLapseDone, EndCommit
<1>11. ASSUME NEW h \in Handlers, HeartbeatLapseDone(h) PROVE LockInv'
    BY <1>11 DEF HeartbeatLapseDone, EndCommit
<1>12. ASSUME NEW h \in Handlers, DisconnectDone(h) PROVE LockInv'
    BY <1>12 DEF DisconnectDone, EndCommit
<1>13. ASSUME NEW h \in Handlers, ClaimDone(h) PROVE LockInv'
    BY <1>13 DEF ClaimDone, EndCommit
<1>14. CASE Expire
    BY <1>14 DEF Expire, BeginCommit
<1>15. CASE ExpireDone
    BY <1>15 DEF ExpireDone, EndCommit
<1>16. CASE Tick
    BY <1>16 DEF Tick
<1>17. CASE MediaStarts
    BY <1>17 DEF MediaStarts, SetDirectTarget
<1>18. CASE MediaStartsIdle
    BY <1>18 DEF MediaStartsIdle
<1>19. CASE SetDirectTargetDone
    BY <1>19 DEF SetDirectTargetDone
<1> QED
    BY StepKinds, <1>1, <1>2, <1>3, <1>4, <1>5, <1>6, <1>7, <1>8, <1>9, <1>10, <1>11,
       <1>12, <1>13, <1>14, <1>15, <1>16, <1>17, <1>18, <1>19


\* What a task has written and knows stays true until it gives the lock back,
\* because nobody else can take the lock meanwhile.
LEMMA CommitInvStep == Inv /\ Next => CommitInv'
<1> SUFFICES ASSUME Inv, Next PROVE CommitInv'
    OBVIOUS
<1> USE DEF Inv, TypeInv, TypeOK, Tasks, Labels, Committing, Replies, Serving, LockInv, CommitInv, Clears, HeldAgainst, StaleDisconnect, LeaseExpired
<1>1. ASSUME NEW h \in Handlers, StartRequest(h) PROVE CommitInv'
  <2>1. PICK r \in Request : Begins(h, r)
    BY <1>1, StartStep
  <2>2. /\ pc[h] = "idle" /\ started < MaxRequests /\ started' = started + 1
        /\ UNCHANGED <<now, sessionVars, pairingVars, arrived, seen, mediaStarts, retired>>
    BY <1>1 DEF StartRequest
  <2> QED
    BY <2>1, <2>2 DEF Begins
<1>2. ASSUME NEW h \in Handlers, Calm(h) PROVE CommitInv'
    BY <1>2 DEF Calm
<1>3. ASSUME NEW h \in Handlers, ResumeHit(h) PROVE CommitInv'
  <2>1. req[h].addr \in Addrs
    BY <1>3 DEF ResumeHit, Request
  <2>2. device' \in Device /\ device'.target = req[h].addr
    BY <1>3, <2>1, Renewal DEF ResumeHit
  <2> QED
    BY <1>3, <2>1, <2>2 DEF ResumeHit, BeginCommit
<1>4. ASSUME NEW h \in Handlers, HeartbeatRenews(h) PROVE CommitInv'
    BY <1>4, Renewal DEF HeartbeatRenews
<1>5. ASSUME NEW h \in Handlers, ResumeLapse(h) PROVE CommitInv'
    BY <1>5 DEF ResumeLapse, BeginCommit
<1>6. ASSUME NEW h \in Handlers, Claim(h) PROVE CommitInv'
    BY <1>6 DEF Claim, BeginCommit
<1>7. ASSUME NEW h \in Handlers, HeartbeatLapse(h) PROVE CommitInv'
    BY <1>7 DEF HeartbeatLapse, BeginCommit
<1>8. ASSUME NEW h \in Handlers, Disconnect(h) PROVE CommitInv'
    BY <1>8 DEF Disconnect, BeginCommit
<1>9. ASSUME NEW h \in Handlers, ResumeDone(h) PROVE CommitInv'
    BY <1>9 DEF ResumeDone, EndCommit
<1>10. ASSUME NEW h \in Handlers, ResumeLapseDone(h) PROVE CommitInv'
    BY <1>10 DEF ResumeLapseDone, EndCommit
<1>11. ASSUME NEW h \in Handlers, HeartbeatLapseDone(h) PROVE CommitInv'
    BY <1>11 DEF HeartbeatLapseDone, EndCommit
<1>12. ASSUME NEW h \in Handlers, DisconnectDone(h) PROVE CommitInv'
    BY <1>12 DEF DisconnectDone, EndCommit
<1>13. ASSUME NEW h \in Handlers, ClaimDone(h) PROVE CommitInv'
    BY <1>13 DEF ClaimDone, EndCommit
<1>14. CASE Expire
    BY <1>14 DEF Expire, BeginCommit
<1>15. CASE ExpireDone
    BY <1>15 DEF ExpireDone, EndCommit
<1>16. CASE Tick
  <2>1. device # NoDevice => device.refreshed \in Nat
    BY DEF Device
  <2> QED
    BY <1>16, <2>1 DEF Tick
<1>17. CASE MediaStarts
    BY <1>17 DEF MediaStarts, SetDirectTarget
<1>18. CASE MediaStartsIdle
    BY <1>18 DEF MediaStartsIdle
<1>19. CASE SetDirectTargetDone
    BY <1>19 DEF SetDirectTargetDone
<1> QED
    BY StepKinds, <1>1, <1>2, <1>3, <1>4, <1>5, <1>6, <1>7, <1>8, <1>9, <1>10, <1>11,
       <1>12, <1>13, <1>14, <1>15, <1>16, <1>17, <1>18, <1>19


\* When the lock is given back, the target written first is the one of the
\* device written last.
LEMMA RoutedToDeviceStep == Inv /\ Next => RoutedToDevice'
<1> SUFFICES ASSUME Inv, Next PROVE RoutedToDevice'
    OBVIOUS
<1> USE DEF Inv, TypeInv, TypeOK, Tasks, Labels, Committing, Replies, Serving, LockInv, CommitInv, Clears, RoutedToDevice, DeviceTarget
<1>1. ASSUME NEW h \in Handlers, StartRequest(h) PROVE RoutedToDevice'
  <2>1. PICK r \in Request : Begins(h, r)
    BY <1>1, StartStep
  <2>2. /\ pc[h] = "idle" /\ started < MaxRequests /\ started' = started + 1
        /\ UNCHANGED <<now, sessionVars, pairingVars, arrived, seen, mediaStarts, retired>>
    BY <1>1 DEF StartRequest
  <2> QED
    BY <2>1, <2>2 DEF Begins
<1>2. ASSUME NEW h \in Handlers, Calm(h) PROVE RoutedToDevice'
    BY <1>2 DEF Calm
<1>3. ASSUME NEW h \in Handlers, ResumeHit(h) PROVE RoutedToDevice'
    BY <1>3, Renewal DEF ResumeHit, BeginCommit, Request
<1>4. ASSUME NEW h \in Handlers, HeartbeatRenews(h) PROVE RoutedToDevice'
    BY <1>4, Renewal DEF HeartbeatRenews
<1>5. ASSUME NEW h \in Handlers, ResumeLapse(h) PROVE RoutedToDevice'
    BY <1>5 DEF ResumeLapse, BeginCommit
<1>6. ASSUME NEW h \in Handlers, Claim(h) PROVE RoutedToDevice'
    BY <1>6 DEF Claim, BeginCommit
<1>7. ASSUME NEW h \in Handlers, HeartbeatLapse(h) PROVE RoutedToDevice'
    BY <1>7 DEF HeartbeatLapse, BeginCommit
<1>8. ASSUME NEW h \in Handlers, Disconnect(h) PROVE RoutedToDevice'
    BY <1>8 DEF Disconnect, BeginCommit
<1>9. ASSUME NEW h \in Handlers, ResumeDone(h) PROVE RoutedToDevice'
    BY <1>9 DEF ResumeDone, EndCommit
<1>10. ASSUME NEW h \in Handlers, ResumeLapseDone(h) PROVE RoutedToDevice'
    BY <1>10 DEF ResumeLapseDone, EndCommit
<1>11. ASSUME NEW h \in Handlers, HeartbeatLapseDone(h) PROVE RoutedToDevice'
    BY <1>11 DEF HeartbeatLapseDone, EndCommit
<1>12. ASSUME NEW h \in Handlers, DisconnectDone(h) PROVE RoutedToDevice'
    BY <1>12 DEF DisconnectDone, EndCommit
<1>13. ASSUME NEW h \in Handlers, ClaimDone(h) PROVE RoutedToDevice'
  <2> DEFINE d == [client |-> req[h].client, session |-> req[h].id,
                   target |-> req[h].addr, refreshed |-> now]
  <2>1. EndCommit(h, d, "ok")
    BY <1>13 DEF ClaimDone
  <2>2. d \in Device /\ d.target = req[h].addr /\ d.session = req[h].id
    BY <1>13 DEF ClaimDone, Device, Request
  <2> QED
    BY <1>13, <2>1, <2>2 DEF ClaimDone, EndCommit
<1>14. CASE Expire
    BY <1>14 DEF Expire, BeginCommit
<1>15. CASE ExpireDone
    BY <1>15 DEF ExpireDone, EndCommit
<1>16. CASE Tick
    BY <1>16 DEF Tick
<1>17. CASE MediaStarts
    BY <1>17 DEF MediaStarts, SetDirectTarget
<1>18. CASE MediaStartsIdle
    BY <1>18 DEF MediaStartsIdle
<1>19. CASE SetDirectTargetDone
    BY <1>19 DEF SetDirectTargetDone
<1> QED
    BY StepKinds, <1>1, <1>2, <1>3, <1>4, <1>5, <1>6, <1>7, <1>8, <1>9, <1>10, <1>11,
       <1>12, <1>13, <1>14, <1>15, <1>16, <1>17, <1>18, <1>19


\* A connect that falls through to the PIN does not name the active session,
\* and no session named earlier becomes active later.
LEMMA ResumeBeforePinStep == Inv /\ Next => ResumeBeforePin'
<1> SUFFICES ASSUME Inv, Next PROVE ResumeBeforePin'
    OBVIOUS
<1> USE DEF Inv, TypeInv, TypeOK, Tasks, Labels, Committing, Replies, Serving, IdInv, Unclaimed, FellThrough, ResumeBeforePin, KnownSessions, Resumes
<1>0. device # NoDevice => device \in Device /\ device.session \in Sessions /\ device.session # NoSession
    BY DEF Device, Sessions, NoSession
<1>1. ASSUME NEW h \in Handlers, StartRequest(h) PROVE ResumeBeforePin'
  <2>1. PICK r \in Request : Begins(h, r)
    BY <1>1, StartStep
  <2>2. /\ pc[h] = "idle" /\ started < MaxRequests /\ started' = started + 1
        /\ UNCHANGED <<now, sessionVars, pairingVars, arrived, seen, mediaStarts, retired>>
    BY <1>1 DEF StartRequest
  <2> QED
    BY <1>0, <2>1, <2>2 DEF Begins
<1>2. ASSUME NEW h \in Handlers, Calm(h) PROVE ResumeBeforePin'
    BY <1>2 DEF Calm
<1>3. ASSUME NEW h \in Handlers, ResumeHit(h) PROVE ResumeBeforePin'
  <2>1. req[h].addr \in Addrs
    BY <1>3 DEF ResumeHit, Request
  <2>2. device' \in Device /\ device'.client = device.client /\ device'.session = device.session
    BY <1>3, <2>1, Renewal DEF ResumeHit
  <2> QED
    BY <1>3, <1>0, <2>1, <2>2 DEF ResumeHit, BeginCommit
<1>4. ASSUME NEW h \in Handlers, HeartbeatRenews(h) PROVE ResumeBeforePin'
  <2>1. device' \in Device /\ device'.client = device.client /\ device'.session = device.session
    BY <1>4, Renewal DEF HeartbeatRenews
  <2> QED
    BY <1>4, <1>0, <2>1 DEF HeartbeatRenews
<1>5. ASSUME NEW h \in Handlers, ResumeLapse(h) PROVE ResumeBeforePin'
    BY <1>5 DEF ResumeLapse, BeginCommit
<1>6. ASSUME NEW h \in Handlers, Claim(h) PROVE ResumeBeforePin'
    BY <1>6 DEF Claim, BeginCommit
<1>7. ASSUME NEW h \in Handlers, HeartbeatLapse(h) PROVE ResumeBeforePin'
    BY <1>7 DEF HeartbeatLapse, BeginCommit
<1>8. ASSUME NEW h \in Handlers, Disconnect(h) PROVE ResumeBeforePin'
    BY <1>8 DEF Disconnect, BeginCommit
<1>9. ASSUME NEW h \in Handlers, ResumeDone(h) PROVE ResumeBeforePin'
    BY <1>9 DEF ResumeDone, EndCommit
<1>10. ASSUME NEW h \in Handlers, ResumeLapseDone(h) PROVE ResumeBeforePin'
    BY <1>10 DEF ResumeLapseDone, EndCommit
<1>11. ASSUME NEW h \in Handlers, HeartbeatLapseDone(h) PROVE ResumeBeforePin'
    BY <1>11 DEF HeartbeatLapseDone, EndCommit
<1>12. ASSUME NEW h \in Handlers, DisconnectDone(h) PROVE ResumeBeforePin'
    BY <1>12 DEF DisconnectDone, EndCommit
<1>13. ASSUME NEW h \in Handlers, ClaimDone(h) PROVE ResumeBeforePin'
  <2> DEFINE d == [client |-> req[h].client, session |-> req[h].id,
                   target |-> req[h].addr, refreshed |-> now]
  <2>1. EndCommit(h, d, "ok")
    BY <1>13 DEF ClaimDone
  <2>2. d \in Device /\ d.target = req[h].addr /\ d.session = req[h].id
    BY <1>13 DEF ClaimDone, Device, Request
  <2>3. req[h].id \in Sessions /\ req[h].id # NoSession
    BY <1>13 DEF ClaimDone, Request, Sessions, NoSession
  <2>4. \A g \in Handlers : pc[g] \in Serving => req[g].session # d.session
    BY <1>13, <2>2, <2>3 DEF ClaimDone
  <2> QED
    BY <1>13, <2>1, <2>2, <2>4 DEF ClaimDone, EndCommit
<1>14. CASE Expire
    BY <1>14 DEF Expire, BeginCommit
<1>15. CASE ExpireDone
    BY <1>15 DEF ExpireDone, EndCommit
<1>16. CASE Tick
    BY <1>16 DEF Tick
<1>17. CASE MediaStarts
    BY <1>17 DEF MediaStarts, SetDirectTarget
<1>18. CASE MediaStartsIdle
    BY <1>18 DEF MediaStartsIdle
<1>19. CASE SetDirectTargetDone
    BY <1>19 DEF SetDirectTargetDone
<1> QED
    BY StepKinds, <1>1, <1>2, <1>3, <1>4, <1>5, <1>6, <1>7, <1>8, <1>9, <1>10, <1>11,
       <1>12, <1>13, <1>14, <1>15, <1>16, <1>17, <1>18, <1>19

\* Session ids stay where they are in a step that neither ends nor starts a
\* session and takes up no request.
LEMMA IdFrame ==
    ASSUME TypeInv, IdInv, UNCHANGED retired,
           started' \in Nat, started <= started',
           device' = NoDevice <=> device = NoDevice,
           device # NoDevice => device'.session = device.session,
           \A g \in Handlers : pc'[g] \in Serving =>
              /\ pc[g] \in Serving
              /\ req'[g] = req[g]
              /\ pc'[g] \in Unclaimed => pc[g] \in Unclaimed
    PROVE  IdInv'
<1>1. KnownSessions' = KnownSessions
    BY DEF KnownSessions
<1>2. \A s \in Nat : s <= started => s <= started'
    BY DEF TypeInv, TypeOK
<1>3. /\ retired \subseteq Nat
      /\ device # NoDevice => device.session \in Nat
      /\ \A g \in Handlers : pc[g] \in Serving => req[g].id \in Nat
    BY DEF TypeInv, TypeOK, Request, Device, Sessions
<1>4. \A s \in retired' : s <= started'
    BY <1>2, <1>3 DEF IdInv
<1>5. device' # NoDevice => device'.session <= started' /\ device'.session \notin retired'
    BY <1>2, <1>3 DEF IdInv
<1>6. ASSUME NEW h \in Handlers, pc'[h] \in Serving
      PROVE  /\ req'[h].id <= started'
             /\ req'[h].session \in KnownSessions'
             /\ pc'[h] \in Unclaimed =>
                   /\ req'[h].id \notin retired'
                   /\ device' # NoDevice => device'.session # req'[h].id
             /\ \A g \in Handlers : pc'[g] \in Serving /\ g # h => req'[g].id # req'[h].id
    BY <1>1, <1>2, <1>3, <1>6 DEF IdInv
<1> QED
    BY <1>4, <1>5, <1>6 DEF IdInv


\* Every step keeps the session ids apart.
LEMMA IdInvStep == Inv /\ Next => IdInv'
<1> SUFFICES ASSUME Inv, Next PROVE IdInv'
    OBVIOUS
<1> USE DEF Inv, TypeInv, TypeOK, Tasks, Labels, Committing, Replies, Serving, IdInv, Unclaimed
<1>0. /\ started \in Nat /\ retired \subseteq Nat
      /\ device # NoDevice => device \in Device /\ device.session \in Sessions /\ device.session # NoSession
    BY DEF Device, Sessions, NoSession
<1>1. ASSUME NEW h \in Handlers, StartRequest(h) PROVE IdInv'
  <2>1. PICK r \in Request : Begins(h, r)
    BY <1>1, StartStep
  <2>2. /\ pc[h] = "idle" /\ started' = started + 1
        /\ UNCHANGED <<sessionVars, retired>>
    BY <1>1 DEF StartRequest
  <2> USE DEF Begins
  <2>3. KnownSessions' = KnownSessions
    BY <2>2 DEF KnownSessions
  <2>4. \A s \in Nat : s <= started => s <= started' /\ s # r.id
    BY <2>1, <2>2
  <2>5. /\ req'[h] = r
        /\ \A g \in Handlers \ {h} : pc'[g] = pc[g] /\ req'[g] = req[g]
    BY <2>1
  <2>6. \A g \in Handlers : pc[g] \in Serving => req[g].id \in Nat
    BY DEF Request, Sessions
  <2>7. r.id <= started'
    BY <2>1, <2>2
  <2>8. \A s \in retired' : s <= started'
    BY <1>0, <2>2, <2>4
  <2>9. device' # NoDevice => device'.session <= started' /\ device'.session \notin retired'
    BY <1>0, <2>2, <2>4 DEF Sessions
  <2>10. ASSUME NEW g \in Handlers, pc'[g] \in Serving
         PROVE  /\ req'[g].id <= started'
                /\ req'[g].session \in KnownSessions'
                /\ req'[g].id \notin retired' \/ pc'[g] \notin Unclaimed
                /\ device' # NoDevice /\ pc'[g] \in Unclaimed => device'.session # req'[g].id
                /\ \A f \in Handlers : pc'[f] \in Serving /\ f # g => req'[f].id # req'[g].id
    <3>1. CASE g = h
        BY <1>0, <2>1, <2>2, <2>3, <2>4, <2>5, <2>6, <2>7, <3>1
    <3>2. CASE g # h
        BY <1>0, <2>1, <2>2, <2>3, <2>4, <2>5, <2>6, <2>7, <2>10, <3>2
    <3> QED
        BY <3>1, <3>2
  <2> QED
    BY <2>8, <2>9, <2>10 DEF IdInv
<1>2. ASSUME NEW h \in Handlers, Calm(h) PROVE IdInv'
  <2>1. PICK label \in Labels :
          /\ Goto(h, label)
          /\ label \in Serving => pc[h] \in Serving /\ UNCHANGED req
          /\ label \in Unclaimed => pc[h] \in Unclaimed
    BY <1>2 DEF Calm
  <2>2. PICK r \in Request \cup {NoRequest} : req' = [req EXCEPT ![h] = r]
    BY <1>2 DEF Calm
  <2>3. UNCHANGED <<sessionVars, retired>> /\ started <= started' /\ started' \in Nat
    BY <1>2 DEF Calm
  <2>4. \A g \in Handlers : pc'[g] \in Serving =>
          /\ pc[g] \in Serving
          /\ req'[g] = req[g]
          /\ pc'[g] \in Unclaimed => pc[g] \in Unclaimed
    BY <2>1, <2>2
  <2> QED
    BY <2>3, <2>4, IdFrame
<1>3. ASSUME NEW h \in Handlers, ResumeHit(h) PROVE IdInv'
  <2>1. device' \in Device /\ device'.session = device.session
    BY <1>3, Renewal DEF ResumeHit, Request
  <2> QED
    BY <1>3, <2>1, IdFrame DEF ResumeHit, BeginCommit
<1>4. ASSUME NEW h \in Handlers, HeartbeatRenews(h) PROVE IdInv'
  <2>1. device' \in Device /\ device'.session = device.session
    BY <1>4, Renewal DEF HeartbeatRenews, Request
  <2> QED
    BY <1>4, <2>1, IdFrame DEF HeartbeatRenews, BeginCommit
<1>5. ASSUME NEW h \in Handlers, ResumeLapse(h) PROVE IdInv'
    BY <1>5, IdFrame DEF ResumeLapse, BeginCommit
<1>6. ASSUME NEW h \in Handlers, Claim(h) PROVE IdInv'
    BY <1>6, IdFrame DEF Claim, BeginCommit
<1>7. ASSUME NEW h \in Handlers, HeartbeatLapse(h) PROVE IdInv'
    BY <1>7, IdFrame DEF HeartbeatLapse, BeginCommit
<1>8. ASSUME NEW h \in Handlers, Disconnect(h) PROVE IdInv'
    BY <1>8, IdFrame DEF Disconnect, BeginCommit
<1>9. ASSUME NEW h \in Handlers, ResumeDone(h) PROVE IdInv'
  <2>1. EndCommit(h, device, "resumed") /\ UNCHANGED <<req, started>>
    BY <1>9 DEF ResumeDone
  <2>2. KnownSessions \subseteq KnownSessions'
    BY <2>1 DEF EndCommit, KnownSessions
  <2> QED
    BY <1>0, <1>9, <2>1, <2>2 DEF EndCommit, ResumeDone
<1>10. ASSUME NEW h \in Handlers, ResumeLapseDone(h) PROVE IdInv'
  <2>1. EndCommit(h, NoDevice, "auth") /\ UNCHANGED <<req, started>>
    BY <1>10 DEF ResumeLapseDone
  <2>2. KnownSessions \subseteq KnownSessions'
    BY <2>1 DEF EndCommit, KnownSessions
  <2> QED
    BY <1>0, <1>10, <2>1, <2>2 DEF EndCommit, ResumeLapseDone
<1>11. ASSUME NEW h \in Handlers, HeartbeatLapseDone(h) PROVE IdInv'
  <2>1. EndCommit(h, NoDevice, "inactive") /\ UNCHANGED <<req, started>>
    BY <1>11 DEF HeartbeatLapseDone
  <2>2. KnownSessions \subseteq KnownSessions'
    BY <2>1 DEF EndCommit, KnownSessions
  <2> QED
    BY <1>0, <1>11, <2>1, <2>2 DEF EndCommit, HeartbeatLapseDone
<1>12. ASSUME NEW h \in Handlers, DisconnectDone(h) PROVE IdInv'
  <2>1. EndCommit(h, NoDevice, "ok") /\ UNCHANGED <<req, started>>
    BY <1>12 DEF DisconnectDone
  <2>2. KnownSessions \subseteq KnownSessions'
    BY <2>1 DEF EndCommit, KnownSessions
  <2> QED
    BY <1>0, <1>12, <2>1, <2>2 DEF EndCommit, DisconnectDone
<1>13. ASSUME NEW h \in Handlers, ClaimDone(h) PROVE IdInv'
  <2> DEFINE d == [client |-> req[h].client, session |-> req[h].id,
                   target |-> req[h].addr, refreshed |-> now]
  <2>1. EndCommit(h, d, "ok")
    BY <1>13 DEF ClaimDone
  <2>2. d \in Device /\ d.target = req[h].addr /\ d.session = req[h].id
    BY <1>13 DEF ClaimDone, Device, Request
  <2>3. KnownSessions \subseteq KnownSessions'
    BY <2>1, <2>2 DEF EndCommit, KnownSessions
  <2>4. UNCHANGED <<req, started>> /\ pc[h] = "claimCommit" /\ retired \subseteq retired'
    BY <1>13, <2>1 DEF ClaimDone, EndCommit
  <2> QED
    BY <1>0, <2>1, <2>2, <2>3, <2>4 DEF EndCommit
<1>14. CASE Expire
    BY <1>14, IdFrame DEF Expire, BeginCommit
<1>15. CASE ExpireDone
  <2>1. EndCommit(Expirer, NoDevice, "idle") /\ UNCHANGED <<req, started>>
    BY <1>15 DEF ExpireDone
  <2>2. KnownSessions \subseteq KnownSessions'
    BY <2>1 DEF EndCommit, KnownSessions
  <2> QED
    BY <1>0, <1>15, <2>1, <2>2 DEF EndCommit, ExpireDone
<1>16. CASE Tick
    BY <1>16, IdFrame DEF Tick
<1>17. CASE MediaStarts
    BY <1>17, IdFrame DEF MediaStarts, SetDirectTarget
<1>18. CASE MediaStartsIdle
    BY <1>18, IdFrame DEF MediaStartsIdle
<1>19. CASE SetDirectTargetDone
    BY <1>19, IdFrame DEF SetDirectTargetDone
<1> QED
    BY StepKinds, <1>1, <1>2, <1>3, <1>4, <1>5, <1>6, <1>7, <1>8, <1>9, <1>10, <1>11,
       <1>12, <1>13, <1>14, <1>15, <1>16, <1>17, <1>18, <1>19

------------------------------------------------------------------------------

\* A step that changes nothing, and then any step, keeps the invariant.
LEMMA Stutter == Inv /\ UNCHANGED vars => Inv'
<1> SUFFICES ASSUME Inv, UNCHANGED vars PROVE Inv'
    OBVIOUS
<1> USE DEF Inv, vars
<1>1. TypeInv'
    BY DEF TypeInv, TypeOK
<1>2. LockInv'
    BY DEF LockInv
<1>3. CommitInv'
    BY DEF CommitInv, HeldAgainst, LeaseExpired, StaleDisconnect
<1>4. RoutedToDevice' /\ ResumeBeforePin'
    BY DEF RoutedToDevice, DeviceTarget, ResumeBeforePin
<1>5. IdInv'
    BY DEF IdInv, KnownSessions
<1> QED
    BY <1>1, <1>2, <1>3, <1>4, <1>5

\* Every step of the service keeps the invariant.
LEMMA InvStep == Inv /\ [Next]_vars => Inv'
    BY Stutter, TypeInvStep, LockInvStep, CommitInvStep, RoutedToDeviceStep,
       ResumeBeforePinStep, IdInvStep DEF Inv

\* Inv is an inductive invariant of the service.
THEOREM Invariance == Spec => []Inv
<1>1. Init => Inv
    BY InitInv
<1>2. Inv /\ [Next]_vars => Inv'
    BY InvStep
<1> QED
    BY <1>1, <1>2, PTL DEF Spec

\* The variables keep their types: in particular a session id is never zero
\* and is never used for two requests' devices.
THEOREM TypeCorrect == Spec => []TypeOK
<1>1. Inv => TypeOK
    BY DEF Inv, TypeInv
<1> QED
    BY <1>1, Invariance, PTL

\* Without --target RTP goes to the device that holds the lease, and to nobody
\* when it is free, whenever the device lock is free.
THEOREM Routing == Spec => []RoutedToDevice
<1>1. Inv => RoutedToDevice
    BY DEF Inv
<1> QED
    BY <1>1, Invariance, PTL

\* A phone that presents its running session never depends on the PIN.
THEOREM ResumeFirst == Spec => []ResumeBeforePin
<1>1. Inv => ResumeBeforePin
    BY DEF Inv
<1> QED
    BY <1>1, Invariance, PTL

\* A disconnect that names an earlier session cannot end the active one.
THEOREM StaleDisconnects == Spec => StaleDisconnectHarmless
<1>1. ASSUME Inv, [Next]_vars
      PROVE  \A h \in Handlers :
                pc[h] = "dropCommit" /\ device # NoDevice /\ device' = NoDevice
                => req[h].session \in {NoSession, device.session}
  <2>1. ASSUME NEW h \in Handlers, pc[h] = "dropCommit"
        PROVE  ~StaleDisconnect(req[h])
    BY <1>1, <2>1 DEF Inv, CommitInv
  <2> QED
    BY <2>1 DEF StaleDisconnect
<1> QED
    BY <1>1, Invariance, PTL DEF Spec, StaleDisconnectHarmless

------------------------------------------------------------------------------
(***************************************************************************)
(* The rate limit.  A request reads the clock before it waits for the      *)
(* pairing lock, so what it compares with the block is never in the future.*)
(***************************************************************************)

ArrivedInv == TypeInv /\ \A h \in Handlers : arrived[h] <= now

\* No request carries an instant from the future.
LEMMA ArrivedStep == Inv /\ ArrivedInv /\ [Next]_vars => ArrivedInv'
<1> SUFFICES ASSUME Inv, ArrivedInv, [Next]_vars PROVE ArrivedInv'
    OBVIOUS
<1>1. TypeInv'
    BY InvStep DEF Inv
<1>2. now' \in Nat /\ now <= now'
  <2>1. CASE Next
    <3> USE DEF ArrivedInv, TypeInv, TypeOK
    <3>1. ASSUME NEW h \in Handlers, StartRequest(h) \/ Calm(h) PROVE UNCHANGED now
        BY <3>1 DEF StartRequest, Calm
    <3>2. ASSUME NEW h \in Handlers,
                 \/ HeartbeatRenews(h) \/ ResumeHit(h) \/ ResumeLapse(h) \/ Claim(h)
                 \/ HeartbeatLapse(h) \/ Disconnect(h) \/ ResumeDone(h)
                 \/ ResumeLapseDone(h) \/ ClaimDone(h) \/ HeartbeatLapseDone(h)
                 \/ DisconnectDone(h)
          PROVE  UNCHANGED now
        BY <3>2 DEF HeartbeatRenews, ResumeHit, ResumeLapse, Claim, HeartbeatLapse,
                    Disconnect, ResumeDone, ResumeLapseDone, ClaimDone,
                    HeartbeatLapseDone, DisconnectDone
    <3>3. CASE Expire \/ ExpireDone \/ MediaStarts \/ MediaStartsIdle \/ SetDirectTargetDone
        BY <3>3 DEF Expire, ExpireDone, MediaStarts, MediaStartsIdle, SetDirectTarget,
           SetDirectTargetDone
    <3>4. CASE Tick
        BY <3>4 DEF Tick
    <3> QED
        BY <2>1, <3>1, <3>2, <3>3, <3>4, StepKinds
  <2> QED
    BY <2>1 DEF vars, ArrivedInv, TypeInv, TypeOK
<1>3. ASSUME NEW h \in Handlers PROVE arrived'[h] \in {arrived[h], 0, now}
  <2> USE DEF ArrivedInv, TypeInv, TypeOK
  <2>1. CASE UNCHANGED arrived
    BY <2>1
  <2>2. ASSUME NEW g \in Handlers, AuthArrive(g) \/ Reply(g)
        PROVE  arrived'[h] \in {arrived[h], 0, now}
    BY <2>2 DEF AuthArrive, Reply
  <2> QED
    BY <2>1, <2>2 DEF Next, ControlNext, vars, Arrive, Handle, Connect, Heartbeat, Drop,
       Snapshot, LeaseExpirer, StartRequest, StartStatus, RefuseProtocol, ResumeHit,
       ResumeDone, ResumeMiss, ResumeLapse, ResumeLapseDone, AuthReject, AuthWrong,
       AuthAccept, SessionIdFails, Claim, ClaimDone, ClaimBusy, HeartbeatRenews,
       HeartbeatInactive, HeartbeatLapse, HeartbeatLapseDone, Disconnect,
       DisconnectDone, DisconnectIgnored, SnapshotTarget, SnapshotDevice, Expire,
       ExpireDone, Tick, MediaStarts, MediaStartsIdle, SetDirectTarget,
           SetDirectTargetDone
<1>4. \A h \in Handlers : arrived[h] \in Nat /\ arrived[h] <= now /\ now \in Nat
    BY DEF ArrivedInv, TypeInv, TypeOK
<1>5. ASSUME NEW h \in Handlers PROVE arrived'[h] <= now'
    BY <1>2, <1>3, <1>4
<1> QED
    BY <1>1, <1>5 DEF ArrivedInv

\* What one step can do while pairing is blocked.
LEMMA BlockedStep ==
    ASSUME ArrivedInv, [Next]_vars, now < blockedUntil
    PROVE  /\ UNCHANGED <<failures, blockedUntil>>
           /\ \A h \in Handlers : pc[h] = "check" => pc'[h] \in {"check", "blocked"}
<1> USE DEF ArrivedInv, TypeInv, TypeOK, Tasks
<1>1. \A h \in Handlers : PinBlocked(h)
    BY DEF PinBlocked
<1>2. ASSUME NEW h \in Handlers, AuthReject(h)
      PROVE  /\ UNCHANGED <<failures, blockedUntil>>
             /\ \A g \in Handlers : pc[g] = "check" => pc'[g] \in {"check", "blocked"}
    BY <1>1, <1>2 DEF AuthReject
<1>3. ASSUME NEW h \in Handlers PROVE ~AuthWrong(h) /\ ~AuthAccept(h)
    BY <1>1 DEF AuthWrong, AuthAccept
<1>4. ASSUME NEW h \in Handlers,
             \/ Arrive(h) \/ Heartbeat(h) \/ Drop(h) \/ Snapshot(h) \/ Reply(h)
             \/ ResumeHit(h) \/ ResumeDone(h) \/ ResumeMiss(h) \/ ResumeLapse(h)
             \/ ResumeLapseDone(h) \/ AuthArrive(h) \/ SessionIdFails(h)
             \/ Claim(h) \/ ClaimDone(h) \/ ClaimBusy(h)
      PROVE  /\ UNCHANGED <<failures, blockedUntil>>
             /\ pc[h] # "check" \/ UNCHANGED pc
             /\ \E label : Goto(h, label)
    BY <1>4 DEF Arrive, Heartbeat, Drop, Snapshot, Replies, BeginCommit, EndCommit,
       StartRequest, StartStatus, RefuseProtocol, Reply, ResumeHit,
       ResumeDone, ResumeMiss, ResumeLapse, ResumeLapseDone, AuthArrive,
       SessionIdFails, Claim, ClaimDone, ClaimBusy, HeartbeatRenews,
       HeartbeatInactive, HeartbeatLapse, HeartbeatLapseDone, Disconnect,
       DisconnectDone, DisconnectIgnored, SnapshotTarget, SnapshotDevice
<1>5. CASE LeaseExpirer \/ Tick \/ MediaStarts \/ MediaStartsIdle \/ SetDirectTargetDone \/ UNCHANGED vars
    BY <1>5 DEF LeaseExpirer, Tick, MediaStarts, MediaStartsIdle, SetDirectTarget,
           SetDirectTargetDone,
       Expire, ExpireDone, BeginCommit, EndCommit, vars
<1> QED
    BY <1>2, <1>3, <1>4, <1>5 DEF Next, ControlNext, Handle, Connect

\* While pairing is blocked no PIN is looked at and the block neither moves nor
\* lifts, however the attempts and the waiting for the lock interleave.
THEOREM BlockHolds == Spec => BlockRunsItsCourse
<1>1. Init => ArrivedInv
    BY InitInv DEF Init, Inv, ArrivedInv
<1>2. Spec => []ArrivedInv
    BY <1>1, ArrivedStep, Invariance, PTL DEF Spec
<1>3. ASSUME ArrivedInv, [Next]_vars
      PROVE  now < blockedUntil =>
                /\ UNCHANGED <<failures, blockedUntil>>
                /\ \A h \in Handlers : pc[h] = "check" => pc'[h] \in {"check", "blocked"}
    BY <1>3, BlockedStep
<1> QED
    BY <1>2, <1>3, PTL DEF Spec, BlockRunsItsCourse

------------------------------------------------------------------------------
(***************************************************************************)
(* Refinement.  Seen through device, now and retired alone, every step of  *)
(* the service is a step of module Lease or none: a renewal when the       *)
(* device is refreshed under the lock, a grant or a release when the lock  *)
(* is given back.                                                          *)
(***************************************************************************)

AbstractVars == <<now, device, retired>>

\* Every step is a step of the lease, or none.
LEMMA LeaseStep == Inv /\ [Next]_vars => [Abstract!Next]_AbstractVars
<1> SUFFICES ASSUME Inv, [Next]_vars PROVE Abstract!Next \/ UNCHANGED AbstractVars
    OBVIOUS
<1> USE DEF AbstractVars
<1>0. /\ TypeOK
      /\ device # NoDevice => device \in Device /\ device.session \in Sessions
                              /\ device.session # 0 /\ device.refreshed \in Nat
                              /\ device.target \in Addrs
    BY DEF Inv, TypeInv, TypeOK, Device, Sessions
<1>1. ASSUME NEW h \in Handlers, StartRequest(h) PROVE UNCHANGED AbstractVars
    BY <1>1 DEF StartRequest
<1>2. ASSUME NEW h \in Handlers, Calm(h) PROVE UNCHANGED AbstractVars
    BY <1>2 DEF Calm
<1>3. ASSUME NEW h \in Handlers,
             \/ ResumeLapse(h) \/ Claim(h) \/ HeartbeatLapse(h) \/ Disconnect(h)
      PROVE  UNCHANGED AbstractVars
    BY <1>3 DEF ResumeLapse, Claim, HeartbeatLapse, Disconnect
<1>4. CASE Expire \/ MediaStarts \/ MediaStartsIdle \/ SetDirectTargetDone \/ UNCHANGED vars
    BY <1>4 DEF Expire, MediaStarts, MediaStartsIdle, SetDirectTarget,
           SetDirectTargetDone, vars
<1>5. ASSUME NEW h \in Handlers, ResumeHit(h) PROVE Abstract!Next
  <2>1. req[h].addr \in Addrs
    BY <1>5 DEF ResumeHit, Inv, TypeInv, Serving, Labels, Request
  <2>2. Abstract!Renew(req[h].addr)
    BY <1>0, <1>5, <2>1 DEF ResumeHit, Abstract!Renew, Abstract!Expired, LeaseExpired, TypeOK
  <2> QED
    BY <2>1, <2>2 DEF Abstract!Next
<1>6. ASSUME NEW h \in Handlers, HeartbeatRenews(h) PROVE Abstract!Next
  <2>1. [device EXCEPT !.refreshed = now]
           = [device EXCEPT !.target = device.target, !.refreshed = now]
    BY <1>0, <1>6 DEF HeartbeatRenews, Device
  <2>2. Abstract!Renew(device.target)
    BY <1>0, <1>6, <2>1 DEF HeartbeatRenews, Abstract!Renew, Abstract!Expired,
       LeaseExpired, TypeOK
  <2> QED
    BY <1>0, <1>6, <2>2 DEF Abstract!Next, HeartbeatRenews
<1>7. ASSUME NEW h \in Handlers, ResumeDone(h) PROVE UNCHANGED AbstractVars
    BY <1>7 DEF ResumeDone, EndCommit, Inv, CommitInv
<1>8. ASSUME NEW p \in Tasks, NEW label, EndCommit(p, NoDevice, label), UNCHANGED now
      PROVE  Abstract!Next
  <2>1. Abstract!Release
    BY <1>0, <1>8 DEF EndCommit, Abstract!Release, Abstract!Ending
  <2> QED
    BY <2>1 DEF Abstract!Next
<1>9. ASSUME NEW h \in Handlers,
             ResumeLapseDone(h) \/ HeartbeatLapseDone(h) \/ DisconnectDone(h)
      PROVE  Abstract!Next
    BY <1>8, <1>9 DEF ResumeLapseDone, HeartbeatLapseDone, DisconnectDone, Tasks
<1>10. CASE ExpireDone
    BY <1>8, <1>10 DEF ExpireDone, Tasks
<1>11. ASSUME NEW h \in Handlers, ClaimDone(h) PROVE Abstract!Next
  <2> DEFINE d == [client |-> req[h].client, session |-> req[h].id,
                   target |-> req[h].addr, refreshed |-> now]
  <2>1. EndCommit(h, d, "ok") /\ UNCHANGED now
    BY <1>11 DEF ClaimDone
  <2>2. /\ pc[h] = "claimCommit" /\ pc[h] \in Serving /\ pc[h] \in Unclaimed
        /\ req[h] \in Request
    BY <1>11 DEF ClaimDone, Inv, TypeInv, Serving, Labels, Committing, Unclaimed
  <2>3. /\ req[h].client \in Clients /\ req[h].id \in Sessions /\ req[h].addr \in Addrs
        /\ req[h].id # 0
    BY <2>2 DEF Request, Sessions
  <2>4. req[h].id \notin retired /\ (device # NoDevice => device.session # req[h].id)
    BY <2>2 DEF Inv, IdInv
  <2>5. ~HeldAgainst(req[h].client)
    BY <2>2 DEF Inv, CommitInv
  <2>6. device = NoDevice \/ device.client = req[h].client \/ Abstract!Expired
    BY <1>0, <2>5 DEF HeldAgainst, LeaseExpired, Abstract!Expired, TypeOK
  <2>7. d # NoDevice /\ d.session = req[h].id
    BY <2>3, <1>0 DEF Device, TypeOK
  <2>8. device' = d /\ retired' = retired \cup Abstract!Ending(req[h].id)
    BY <2>1, <2>4, <2>7 DEF EndCommit, Abstract!Ending
  <2>9. Abstract!Grant(req[h].client, req[h].id, req[h].addr)
    BY <2>1, <2>4, <2>6, <2>8 DEF Abstract!Grant
  <2> QED
    BY <2>3, <2>9 DEF Abstract!Next
<1>12. CASE Tick
    BY <1>12 DEF Tick, Abstract!Next, Abstract!Tick
<1> QED
    BY <1>1, <1>2, <1>3, <1>4, <1>5, <1>6, <1>7, <1>9, <1>10, <1>11, <1>12, StepKinds

\* The handlers, the expirer and the media task together implement the lease
\* that module Lease specifies: one holder, no takeover of a running lease, no
\* session that comes back.
THEOREM Refinement == Spec => ImplementsLease
<1>1. Init => Abstract!Init
    BY DEF Init, Abstract!Init
<1>2. Inv /\ [Next]_vars => [Abstract!Next]_(Abstract!leaseVars)
    BY LeaseStep DEF AbstractVars, Abstract!leaseVars
<1> QED
    BY <1>1, <1>2, Invariance, PTL DEF Spec, ImplementsLease, Abstract!Spec

\* What phones rely on.  While a lease runs no other phone gets it ...
THEOREM NoTakeover ==
    Spec => [][device # NoDevice /\ device' # NoDevice /\ device'.client # device.client
               => LeaseExpired]_vars
<1>1. ASSUME Inv, [Next]_vars, device # NoDevice, device' # NoDevice,
             device'.client # device.client
      PROVE  LeaseExpired
  <2>1. Abstract!Next
    BY <1>1, LeaseStep DEF AbstractVars
  <2>2. device \in Device /\ device.refreshed \in Nat /\ now \in Nat /\ LeaseTimeout \in Nat
    BY <1>1 DEF Inv, TypeInv, TypeOK, Device
  <2>3. ASSUME NEW a, Abstract!Renew(a) PROVE FALSE
    <3>1. device'.client = device.client
      BY <2>2, <2>3 DEF Abstract!Renew, Device
    <3> QED
      BY <1>1, <3>1
  <2>4. ASSUME NEW c, NEW s, NEW a, Abstract!Grant(c, s, a) PROVE LeaseExpired
    <3>1. device'.client = c
      BY <2>4 DEF Abstract!Grant
    <3>2. Abstract!Expired
      BY <1>1, <2>4, <3>1 DEF Abstract!Grant
    <3> QED
      BY <2>2, <3>2 DEF Abstract!Expired, LeaseExpired
  <2> QED
    BY <1>1, <2>1, <2>3, <2>4 DEF Abstract!Next, Abstract!Release, Abstract!Tick
<1>2. Inv /\ [Next]_vars =>
         [device # NoDevice /\ device' # NoDevice /\ device'.client # device.client
          => LeaseExpired]_vars
  BY <1>1
<1> QED
  BY <1>2, Invariance, PTL DEF Spec

\* ... and a session that has ended never holds it again.
THEOREM NoRevival ==
    Spec => /\ [](device # NoDevice => device.session \notin retired)
            /\ [][retired \subseteq retired']_vars
<1>1. Inv => (device # NoDevice => device.session \notin retired)
  BY DEF Inv, IdInv
<1>2. Inv /\ [Next]_vars => [retired \subseteq retired']_vars
  <2> SUFFICES ASSUME Inv, [Next]_vars PROVE retired \subseteq retired'
    OBVIOUS
  <2>1. CASE UNCHANGED AbstractVars
    BY <2>1 DEF AbstractVars
  <2>2. CASE Abstract!Next
    BY <2>2 DEF Abstract!Next, Abstract!Grant, Abstract!Renew, Abstract!Release, Abstract!Tick
  <2> QED
    BY <2>1, <2>2, LeaseStep
<1> QED
  BY <1>1, <1>2, Invariance, PTL DEF Spec
====
