----------------------------- MODULE SessionState -----------------------------
(***************************************************************************)
(* The desktop service's session: the state of desktop-service/src/state.rs*)
(* and the tasks that run over it concurrently:                            *)
(*   - the HTTP handlers of control.rs (connect, heartbeat, disconnect,    *)
(*     status), each a task of the multi-threaded runtime;                 *)
(*   - the lease expirer of main.rs;                                       *)
(*   - the media task, as far as it writes the RTP target (SenderTarget    *)
(*     adds how it reads it).                                              *)
(*                                                                         *)
(* A step is what a task does between two points where another task can    *)
(* see a difference: taking the device lock, releasing it, writing target, *)
(* advancing target_generation, reading the clock before waiting for a     *)
(* lock.  The order of locks is always device, then target.                *)
(***************************************************************************)
EXTENDS Integers

CONSTANTS Clients, Addrs,
          Handlers,        \* requests the service can have in progress at once
          Kinds,           \* routes the environment calls in this instance
          PinTries,        \* whether a request may carry a wrong PIN
          LeaseTimeout,    \* DEFAULT_LEASE_TIMEOUT
          PinTtl,          \* DEFAULT_PIN_TTL
          BlockDuration,   \* DEFAULT_PAIRING_BLOCK_DURATION
          MaxFailures,     \* DEFAULT_MAX_PAIRING_FAILURES
          DirectTarget,    \* the --target option, or NoAddr
          NoAddr, NoDevice, Expirer, Media, NoOwner, NoRequest,
          MaxTime,         \* bound: the clock stops here
          MaxRequests,     \* bound: requests in a behaviour
          MaxMediaStarts   \* bound: starts of the media sender in a behaviour

Sessions == 1 .. MaxRequests
NoSession == 0
Tasks == Handlers \cup {Expirer, Media}
AllKinds == {"connect", "heartbeat", "disconnect", "status"}

Request == [id : Sessions, kind : AllKinds, client : Clients,
            session : Sessions \cup {NoSession}, addr : Addrs, pinOk : BOOLEAN]
Device == [client : Clients, session : Sessions, target : Addrs, refreshed : Nat]

ASSUME SessionAssumption ==
    /\ LeaseTimeout \in Nat \ {0}
    /\ PinTtl \in Nat \ {0}
    /\ BlockDuration \in Nat \ {0}
    /\ MaxFailures \in Nat \ {0}
    /\ MaxTime \in Nat /\ MaxRequests \in Nat /\ MaxMediaStarts \in Nat
    /\ Clients # {} /\ Addrs # {}
    /\ Kinds \subseteq AllKinds
    /\ PinTries \subseteq BOOLEAN
    /\ NoAddr \notin Addrs
    /\ DirectTarget \in Addrs \cup {NoAddr}
    /\ Expirer \notin Handlers /\ Media \notin Handlers /\ Expirer # Media
    /\ NoOwner \notin Tasks
    /\ NoDevice \notin Device

VARIABLES now,          \* the monotonic clock
          target, generation, device, lock,
          pinCreated, failures, blockedUntil,
          pc, req, arrived, seen,
          mediaStarts, started, retired

sessionVars == <<target, generation, device, lock>>
pairingVars == <<pinCreated, failures, blockedUntil>>
handlerVars == <<pc, req, arrived, seen>>
auxVars == <<mediaStarts, started, retired>>
vars == <<now, sessionVars, pairingVars, handlerVars, auxVars>>

(***************************************************************************)
(* now            Instant::now()                                           *)
(* target         the RTP target, read by the sender                       *)
(* generation     target_generation, bumped after every write of target    *)
(* device         the active device and when its lease was last refreshed  *)
(* lock           which task holds the write lock of device                *)
(* pinCreated, failures, blockedUntil   the PIN's age and the rate limit   *)
(*                (blockedUntil = 0 is None)                               *)
(* pc, req        where each task is, and the request it serves            *)
(* arrived        the instant authorize_pairing_pin reads before its lock  *)
(* seen           the target a status snapshot has read so far             *)
(* mediaStarts    how often the media sender has been started              *)
(* started        requests received so far; also names their session ids,  *)
(*                which next_session_id makes unique                       *)
(* retired        sessions that were active and no longer are              *)
(***************************************************************************)

Replies == {"ok", "resumed", "unauthorized", "expired", "blocked", "busy",
            "failed", "inactive", "upgrade", "status"}

\* Where a task is while it holds the device lock and has written target.
Committing == {"claimCommit", "resumeCommit", "lapseCommit", "beatLapse",
               "dropCommit", "expireCommit"}

Labels == {"idle", "resume", "auth", "check", "claim", "beat", "drop",
           "readTarget", "readDevice", "directCommit"}
          \cup Committing \cup Replies

DeviceTarget == IF device = NoDevice THEN NoAddr ELSE device.target

\* Sessions a phone can have been told about.
KnownSessions ==
    {NoSession} \cup retired
        \cup (IF device = NoDevice THEN {} ELSE {device.session})

Init ==
    /\ now = 0
    /\ target = NoAddr
    /\ generation = 0
    /\ device = NoDevice
    /\ lock = NoOwner
    /\ pinCreated = 0
    /\ failures = 0
    /\ blockedUntil = 0
    /\ pc = [p \in Tasks |-> "idle"]
    /\ req = [h \in Handlers |-> NoRequest]
    /\ arrived = [h \in Handlers |-> 0]
    /\ seen = [h \in Handlers |-> NoAddr]
    /\ mediaStarts = 0
    /\ started = 0
    /\ retired = {}

Goto(p, label) == pc' = [pc EXCEPT ![p] = label]

------------------------------------------------------------------------------
(***************************************************************************)
(* The device lock.  A task that changes the lease writes target, bumps    *)
(* the generation, then writes device and releases the lock; nobody can    *)
(* read device in between, so the last two are one step.                   *)
(***************************************************************************)

\* active.refreshed_at.elapsed() >= lease_timeout
LeaseExpired == now - device.refreshed >= LeaseTimeout

BeginCommit(p, addr, label) ==
    /\ target' = addr
    /\ lock' = p
    /\ Goto(p, label)

\* A faulty version: releasing the target does not count as a change.
EndCommitSilentRelease(p, d, label) ==
    /\ generation' = IF d = NoDevice THEN generation ELSE generation + 1
    /\ device' = d
    /\ retired' = retired \cup
          (IF device = NoDevice \/ (d # NoDevice /\ d.session = device.session)
           THEN {} ELSE {device.session})
    /\ lock' = NoOwner
    /\ Goto(p, label)
    /\ UNCHANGED target

EndCommit(p, d, label) ==
    /\ generation' = generation + 1
    /\ device' = d
    /\ retired' = retired \cup
          (IF device = NoDevice \/ (d # NoDevice /\ d.session = device.session)
           THEN {} ELSE {device.session})
    /\ lock' = NoOwner
    /\ Goto(p, label)
    /\ UNCHANGED target

------------------------------------------------------------------------------
(***************************************************************************)
(* Requests arrive.                                                        *)
(***************************************************************************)

FirstStep(r) ==
    CASE r.kind = "connect" /\ r.session # NoSession -> "resume"
      [] r.kind = "connect" /\ r.session = NoSession -> "auth"
      [] r.kind = "heartbeat" -> IF r.pinOk THEN "beat" ELSE "unauthorized"
      [] r.kind = "disconnect" -> IF r.pinOk THEN "drop" ELSE "unauthorized"
      [] r.kind = "status" -> "readTarget"

\* connect, heartbeat and disconnect, up to their first access to the state.
StartRequest(h) ==
    /\ pc[h] = "idle"
    /\ started < MaxRequests
    /\ \E kind \in Kinds \ {"status"}, c \in Clients, s \in KnownSessions,
          a \in Addrs, ok \in PinTries :
         LET r == [id |-> started + 1, kind |-> kind, client |-> c,
                   session |-> s, addr |-> a, pinOk |-> ok]
         IN  /\ kind = "heartbeat" => s # NoSession
             /\ req' = [req EXCEPT ![h] = r]
             /\ Goto(h, FirstStep(r))
    /\ started' = started + 1
    /\ UNCHANGED <<now, sessionVars, pairingVars, arrived, seen, mediaStarts, retired>>

\* GET /api/status; from the desktop itself it also renews the PIN.
StartStatus(h) ==
    /\ pc[h] = "idle"
    /\ started < MaxRequests
    /\ "status" \in Kinds
    /\ \E loopback \in BOOLEAN :
         pinCreated' = IF loopback THEN now ELSE pinCreated
    /\ Goto(h, "readTarget")
    /\ started' = started + 1
    /\ UNCHANGED <<now, sessionVars, failures, blockedUntil, req, arrived, seen,
                   mediaStarts, retired>>

\* A connect whose protocol versions do not overlap is refused at once.
RefuseProtocol(h) ==
    /\ pc[h] = "idle"
    /\ started < MaxRequests
    /\ "connect" \in Kinds
    /\ started' = started + 1
    /\ Goto(h, "upgrade")
    /\ UNCHANGED <<now, sessionVars, pairingVars, req, arrived, seen, mediaStarts, retired>>

\* The response leaves and the handler is free for another request.
Reply(h) ==
    /\ pc[h] \in Replies
    /\ Goto(h, "idle")
    /\ req' = [req EXCEPT ![h] = NoRequest]
    /\ arrived' = [arrived EXCEPT ![h] = 0]
    /\ seen' = [seen EXCEPT ![h] = NoAddr]
    /\ UNCHANGED <<now, sessionVars, pairingVars, auxVars>>

------------------------------------------------------------------------------
(***************************************************************************)
(* connect: resume a session, or authorize the PIN and claim the lease.    *)
(***************************************************************************)

\* A faulty version: a session resumes only at the address it had.
ResumesAtSameAddress(r) ==
    device.client = r.client /\ device.session = r.session /\ device.target = r.addr

Resumes(r) == device.client = r.client /\ device.session = r.session

ResumeHit(h) ==
    /\ pc[h] = "resume"
    /\ lock = NoOwner
    /\ device # NoDevice
    /\ ~LeaseExpired
    /\ Resumes(req[h])
    /\ device' = [device EXCEPT !.target = req[h].addr, !.refreshed = now]
    /\ BeginCommit(h, req[h].addr, "resumeCommit")
    /\ UNCHANGED <<now, generation, pairingVars, req, arrived, seen, auxVars>>

ResumeDone(h) ==
    /\ pc[h] = "resumeCommit"
    /\ EndCommit(h, device, "resumed")
    /\ UNCHANGED <<now, pairingVars, req, arrived, seen, mediaStarts, started>>

\* Another session, or none: the PIN decides.
ResumeMiss(h) ==
    /\ pc[h] = "resume"
    /\ lock = NoOwner
    /\ device # NoDevice => ~LeaseExpired /\ ~Resumes(req[h])
    /\ Goto(h, "auth")
    /\ UNCHANGED <<now, sessionVars, pairingVars, req, arrived, seen, auxVars>>

\* The lease has run out: it is cleared first, and the PIN decides.
ResumeLapse(h) ==
    /\ pc[h] = "resume"
    /\ lock = NoOwner
    /\ device # NoDevice
    /\ LeaseExpired
    /\ BeginCommit(h, NoAddr, "lapseCommit")
    /\ UNCHANGED <<now, generation, device, pairingVars, req, arrived, seen,
                   auxVars>>

ResumeLapseDone(h) ==
    /\ pc[h] = "lapseCommit"
    /\ EndCommit(h, NoDevice, "auth")
    /\ UNCHANGED <<now, pairingVars, req, arrived, seen, mediaStarts, started>>

\* authorize_pairing_pin reads the clock, then waits for its lock.
AuthArrive(h) ==
    /\ pc[h] = "auth"
    /\ arrived' = [arrived EXCEPT ![h] = now]
    /\ Goto(h, "check")
    /\ UNCHANGED <<now, sessionVars, pairingVars, req, seen, auxVars>>

\* A faulty version: the counter, reset when the block begins, is asked instead.
PinBlockedByCount(h) == failures >= MaxFailures

PinBlocked(h) == arrived[h] < blockedUntil

\* now.duration_since(pin_created_at) is 0 when the PIN is the later one.
PinExpired(h) == arrived[h] - pinCreated >= PinTtl

AuthReject(h) ==
    /\ pc[h] = "check"
    /\ \/ PinBlocked(h) /\ Goto(h, "blocked")
       \/ ~PinBlocked(h) /\ PinExpired(h) /\ Goto(h, "expired")
    /\ UNCHANGED <<now, sessionVars, pairingVars, req, arrived, seen, auxVars>>

AuthWrong(h) ==
    /\ pc[h] = "check"
    /\ ~PinBlocked(h) /\ ~PinExpired(h)
    /\ ~req[h].pinOk
    /\ \/ /\ failures + 1 < MaxFailures
          /\ failures' = failures + 1
          /\ UNCHANGED blockedUntil
          /\ Goto(h, "unauthorized")
       \/ /\ failures + 1 >= MaxFailures
          /\ failures' = 0
          /\ blockedUntil' = arrived[h] + BlockDuration
          /\ Goto(h, "blocked")
    /\ UNCHANGED <<now, sessionVars, pinCreated, req, arrived, seen, auxVars>>

AuthAccept(h) ==
    /\ pc[h] = "check"
    /\ ~PinBlocked(h) /\ ~PinExpired(h)
    /\ req[h].pinOk
    /\ failures' = 0
    /\ blockedUntil' = 0
    /\ Goto(h, "claim")
    /\ UNCHANGED <<now, sessionVars, pinCreated, req, arrived, seen, auxVars>>

\* next_session_id could not read the random source.
SessionIdFails(h) ==
    /\ pc[h] = "claim"
    /\ Goto(h, "failed")
    /\ UNCHANGED <<now, sessionVars, pairingVars, req, arrived, seen, auxVars>>

\* A faulty version: >= for <, the running lease is the one given away.
HeldAgainstInverted(c) == device # NoDevice /\ LeaseExpired /\ device.client # c

\* connect_device turns away another client while the lease runs.
HeldAgainst(c) == device # NoDevice /\ ~LeaseExpired /\ device.client # c

Claim(h) ==
    /\ pc[h] = "claim"
    /\ lock = NoOwner
    /\ ~HeldAgainst(req[h].client)
    /\ BeginCommit(h, req[h].addr, "claimCommit")
    /\ UNCHANGED <<now, generation, device, pairingVars, req, arrived, seen,
                   auxVars>>

\* A faulty version: the new device keeps the session id of the request.
ClaimDoneKeepsSession(h) ==
    /\ pc[h] = "claimCommit"
    /\ EndCommit(h, [client |-> req[h].client, session |-> req[h].session,
                     target |-> req[h].addr, refreshed |-> now], "ok")
    /\ UNCHANGED <<now, pairingVars, req, arrived, seen, mediaStarts, started>>

ClaimDone(h) ==
    /\ pc[h] = "claimCommit"
    /\ EndCommit(h, [client |-> req[h].client, session |-> req[h].id,
                     target |-> req[h].addr, refreshed |-> now], "ok")
    /\ UNCHANGED <<now, pairingVars, req, arrived, seen, mediaStarts, started>>

ClaimBusy(h) ==
    /\ pc[h] = "claim"
    /\ lock = NoOwner
    /\ HeldAgainst(req[h].client)
    /\ Goto(h, "busy")
    /\ UNCHANGED <<now, sessionVars, pairingVars, req, arrived, seen, auxVars>>

------------------------------------------------------------------------------
(***************************************************************************)
(* heartbeat, disconnect, the lease expirer and status.                    *)
(***************************************************************************)

HeartbeatRenews(h) ==
    /\ pc[h] = "beat"
    /\ lock = NoOwner
    /\ device # NoDevice
    /\ ~LeaseExpired
    /\ device.session = req[h].session
    /\ device' = [device EXCEPT !.refreshed = now]
    /\ Goto(h, "ok")
    /\ UNCHANGED <<now, target, generation, lock, pairingVars, req, arrived, seen,
                   auxVars>>

HeartbeatInactive(h) ==
    /\ pc[h] = "beat"
    /\ lock = NoOwner
    /\ device # NoDevice => ~LeaseExpired /\ device.session # req[h].session
    /\ Goto(h, "inactive")
    /\ UNCHANGED <<now, sessionVars, pairingVars, req, arrived, seen, auxVars>>

\* A faulty version: the lapsed device loses its lease but not its stream.
HeartbeatLapseKeepsTarget(h) ==
    /\ pc[h] = "beat"
    /\ lock = NoOwner
    /\ device # NoDevice
    /\ LeaseExpired
    /\ BeginCommit(h, target, "beatLapse")
    /\ UNCHANGED <<now, generation, device, pairingVars, req, arrived, seen,
                   auxVars>>

HeartbeatLapse(h) ==
    /\ pc[h] = "beat"
    /\ lock = NoOwner
    /\ device # NoDevice
    /\ LeaseExpired
    /\ BeginCommit(h, NoAddr, "beatLapse")
    /\ UNCHANGED <<now, generation, device, pairingVars, req, arrived, seen,
                   auxVars>>

HeartbeatLapseDone(h) ==
    /\ pc[h] = "beatLapse"
    /\ EndCommit(h, NoDevice, "inactive")
    /\ UNCHANGED <<now, pairingVars, req, arrived, seen, mediaStarts, started>>

\* A disconnect that names a session other than the active one is stale.
StaleDisconnect(r) ==
    /\ r.session # NoSession
    /\ device # NoDevice
    /\ device.session # r.session

Disconnect(h) ==
    /\ pc[h] = "drop"
    /\ lock = NoOwner
    /\ ~StaleDisconnect(req[h])
    /\ BeginCommit(h, NoAddr, "dropCommit")
    /\ UNCHANGED <<now, generation, device, pairingVars, req, arrived, seen,
                   auxVars>>

DisconnectDone(h) ==
    /\ pc[h] = "dropCommit"
    /\ EndCommit(h, NoDevice, "ok")
    /\ UNCHANGED <<now, pairingVars, req, arrived, seen, mediaStarts, started>>

DisconnectIgnored(h) ==
    /\ pc[h] = "drop"
    /\ lock = NoOwner
    /\ StaleDisconnect(req[h])
    /\ Goto(h, "inactive")
    /\ UNCHANGED <<now, sessionVars, pairingVars, req, arrived, seen, auxVars>>

\* A faulty version: the expirer watches only the session it was started for.
ExpireFirstSession ==
    /\ pc[Expirer] = "idle"
    /\ lock = NoOwner
    /\ device # NoDevice /\ device.session = 1
    /\ LeaseExpired
    /\ BeginCommit(Expirer, NoAddr, "expireCommit")
    /\ UNCHANGED <<now, generation, device, pairingVars, req, arrived, seen,
                   auxVars>>

\* expire_stale_device, called every second by the lease expirer.
Expire ==
    /\ pc[Expirer] = "idle"
    /\ lock = NoOwner
    /\ device # NoDevice
    /\ LeaseExpired
    /\ BeginCommit(Expirer, NoAddr, "expireCommit")
    /\ UNCHANGED <<now, generation, device, pairingVars, req, arrived, seen,
                   auxVars>>

ExpireDone ==
    /\ pc[Expirer] = "expireCommit"
    /\ EndCommit(Expirer, NoDevice, "idle")
    /\ UNCHANGED <<now, pairingVars, req, arrived, seen, mediaStarts, started>>

\* snapshot reads target and device under two locks, one after the other.
SnapshotTarget(h) ==
    /\ pc[h] = "readTarget"
    /\ seen' = [seen EXCEPT ![h] = target]
    /\ Goto(h, "readDevice")
    /\ UNCHANGED <<now, sessionVars, pairingVars, req, arrived, auxVars>>

SnapshotDevice(h) ==
    /\ pc[h] = "readDevice"
    /\ lock = NoOwner
    /\ Goto(h, "status")
    /\ UNCHANGED <<now, sessionVars, pairingVars, req, arrived, seen, auxVars>>

------------------------------------------------------------------------------
(***************************************************************************)
(* The media task: each time run_media_sender starts it writes --target,   *)
(* if one was given, without the device lock.                              *)
(***************************************************************************)

SetDirectTarget ==
    /\ pc[Media] = "idle"
    /\ DirectTarget # NoAddr
    /\ target' = DirectTarget
    /\ Goto(Media, "directCommit")
    /\ UNCHANGED <<now, generation, device, lock, pairingVars, req, arrived, seen,
                   started, retired>>

SetDirectTargetDone ==
    /\ pc[Media] = "directCommit"
    /\ generation' = generation + 1
    /\ Goto(Media, "idle")
    /\ UNCHANGED <<now, target, device, lock, pairingVars, req, arrived, seen,
                   auxVars>>

\* The supervisor starts the sender, for the first time or after a failure.
MediaStarts ==
    /\ mediaStarts < MaxMediaStarts
    /\ SetDirectTarget
    /\ mediaStarts' = mediaStarts + 1

MediaStartsIdle ==
    /\ mediaStarts < MaxMediaStarts
    /\ DirectTarget = NoAddr
    /\ mediaStarts' = mediaStarts + 1
    /\ UNCHANGED <<now, sessionVars, pairingVars, handlerVars, started, retired>>

Tick ==
    /\ now < MaxTime
    /\ now' = now + 1
    /\ UNCHANGED <<sessionVars, pairingVars, handlerVars, auxVars>>

------------------------------------------------------------------------------

Arrive(h) == StartRequest(h) \/ StartStatus(h) \/ RefuseProtocol(h)

Connect(h) ==
    \/ ResumeHit(h) \/ ResumeDone(h) \/ ResumeMiss(h)
    \/ ResumeLapse(h) \/ ResumeLapseDone(h)
    \/ AuthArrive(h) \/ AuthReject(h) \/ AuthWrong(h) \/ AuthAccept(h)
    \/ SessionIdFails(h) \/ Claim(h) \/ ClaimDone(h) \/ ClaimBusy(h)

Heartbeat(h) ==
    \/ HeartbeatRenews(h) \/ HeartbeatInactive(h)
    \/ HeartbeatLapse(h) \/ HeartbeatLapseDone(h)

Drop(h) == Disconnect(h) \/ DisconnectDone(h) \/ DisconnectIgnored(h)

Snapshot(h) == SnapshotTarget(h) \/ SnapshotDevice(h)

\* Everything a handler does once its request has arrived.
Handle(h) == Connect(h) \/ Heartbeat(h) \/ Drop(h) \/ Snapshot(h) \/ Reply(h)

LeaseExpirer == Expire \/ ExpireDone

\* Everything but the media task.
ControlNext ==
    \/ \E h \in Handlers : Arrive(h) \/ Handle(h)
    \/ LeaseExpirer
    \/ Tick

Next ==
    \/ ControlNext
    \/ MediaStarts
    \/ MediaStartsIdle
    \/ SetDirectTargetDone

Spec == Init /\ [][Next]_vars

------------------------------------------------------------------------------
(***************************************************************************)
(* Properties.                                                             *)
(***************************************************************************)

TypeOK ==
    /\ now \in Nat
    /\ target \in Addrs \cup {NoAddr}
    /\ generation \in Nat
    /\ device \in Device \cup {NoDevice}
    /\ lock \in Tasks \cup {NoOwner}
    /\ pinCreated \in Nat
    /\ failures \in 0 .. MaxFailures - 1
    /\ blockedUntil \in Nat
    /\ pc \in [Tasks -> Labels]
    /\ req \in [Handlers -> Request \cup {NoRequest}]
    /\ arrived \in [Handlers -> Nat]
    /\ seen \in [Handlers -> Addrs \cup {NoAddr}]
    /\ mediaStarts \in Nat
    /\ started \in 0 .. MaxRequests
    /\ retired \subseteq Sessions

\* Unless a --target overrides it, RTP goes to the device that holds the
\* lease and to nobody when it is free, whenever no task is in the middle of
\* a change: connect_device, resume_device, refresh_session,
\* expire_stale_device and disconnect_device all keep target and device
\* together although they are two separate locks.
RoutedToDevice ==
    DirectTarget = NoAddr /\ lock = NoOwner => target = DeviceTarget

\* A task has written target and not yet bumped the generation.
TargetInFlux == lock # NoOwner \/ pc[Media] = "directCommit"

\* The session of a connect that fell through to the PIN is not the active
\* one: a phone that presents its running session is resumed and never
\* refused because the PIN has expired, is blocked, or the service is busy.
ResumeBeforePin ==
    \A h \in Handlers :
        /\ pc[h] \in {"auth", "check", "claim", "unauthorized", "expired",
                      "blocked", "busy", "failed"}
        /\ req[h].kind = "connect"
        /\ device # NoDevice
        => \/ device.client # req[h].client
           \/ device.session # req[h].session

\* The handlers and the expirer together implement the lease of module Lease.
Abstract == INSTANCE Lease WITH holder <- device
ImplementsLease == Abstract!Spec

\* A stale disconnect, one that names an earlier session, cannot end the
\* session that has replaced it, at whatever moment it arrives.
StaleDisconnectHarmless ==
    [][\A h \in Handlers :
          pc[h] = "dropCommit" /\ device # NoDevice /\ device' = NoDevice
          => req[h].session \in {NoSession, device.session}]_vars

\* While pairing is blocked the block neither moves nor lifts, and no PIN is
\* looked at, however long a request has waited for the lock.
BlockRunsItsCourse ==
    [][now < blockedUntil =>
          /\ UNCHANGED <<failures, blockedUntil>>
          /\ \A h \in Handlers : pc[h] = "check" => pc'[h] \in {"check", "blocked"}]_vars

\* An abandoned session ends by itself: its lease does not stay expired.
AbandonedLeaseEnds ==
    (device # NoDevice /\ LeaseExpired) ~> (device = NoDevice \/ ~LeaseExpired)

\* The device and the target of one status response belong together.
StatusCoherent ==
    [][\A h \in Handlers :
          pc[h] = "readDevice" /\ pc'[h] = "status" => seen[h] = DeviceTarget]_vars
==============================================================================
