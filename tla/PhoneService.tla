---------------------------- MODULE PhoneService -----------------------------
(***************************************************************************)
(* LanPulsePlaybackService, the Android service that plays, with the two   *)
(* buttons that command it, over HTTP against the desktop's one lease      *)
(* (LanPulsePlaybackService.kt, ControlClient.kt, AndroidLanPulseClient.kt *)
(* and the Connect and Disconnect of LanPulseApp.kt).                      *)
(*                                                                         *)
(* Commands are coroutines around a mutex and run in any order; the        *)
(* playback job is one more, and outlives its service while a request      *)
(* blocks it.  A request can be lost, served after its sender has given    *)
(* up, or served with its answer lost.  The desktop answers a request in   *)
(* one step, within Lease as SessionState does; another phone takes the    *)
(* lease whenever it can.  Audio is RtpReceiver's; a stream is heard here  *)
(* while the lease's target is the socket of the attempt that plays.       *)
(* Locks, audio focus, notifications and statistics are left out.          *)
(***************************************************************************)
EXTENDS Naturals, Sequences, FiniteSets

CONSTANTS Jobs,         \* playback jobs that can be alive at a time
          NoJob,
          MaxCommands,  \* bound on commands of the user and of the phone itself
          MaxFailures   \* bound on requests, heartbeats and sessions lost

ASSUME PhoneAssumption ==
    NoJob \notin Jobs /\ MaxCommands \in Nat /\ MaxFailures \in Nat

VARIABLES
    lease,      \* the desktop's: who holds it, in which session, at which socket
    sessions,   \* number of the last session given
    pinValid,   \* the PIN has not expired
    net,        \* requests on their way
    sockets,    \* number of the last socket opened
    messages,   \* what Android still tells the service, in order
    alive,      \* an instance of the service exists
    waiting,    \* coroutines that have not taken commandMutex yet
    command,    \* what the one that has taken it does
    job,        \* playbackJob
    listening,  \* audio focus and output devices are watched
    jobs,       \* the playback coroutines
    ui,         \* what the phone shows (AndroidPlaybackSession)
    said,       \* the last command
    commands,   \* commands so far
    failures    \* failures so far

deskVars == <<lease, sessions, pinValid>>
serviceVars == <<messages, alive, waiting, command, job, listening>>
boundVars == <<said, commands, failures>>
phoneVars == <<deskVars, net, sockets, serviceVars, jobs, ui, boundVars>>

NoSession == 0
NoSocket == 0
NoLease == [holder |-> "none", session |-> NoSession, socket |-> NoSocket]

(***************************************************************************)
(* jobs[j].at         where runPlaybackLoop is; "none": there is no job    *)
(* jobs[j].socket     the attempt's UDP socket                             *)
(* jobs[j].session    registeredSessionId                                  *)
(* jobs[j].resume     reconnectSessionId                                   *)
(* jobs[j].cancelled  the coroutine is cancelled                           *)
(* jobs[j].answer     the answer to its request, not read yet              *)
(***************************************************************************)
NoAnswer == [code |-> "none", session |-> NoSession]
Answer(code, session) == [code |-> code, session |-> session]

NewJob == [at |-> "attempt", socket |-> NoSocket, session |-> NoSession,
           resume |-> NoSession, cancelled |-> FALSE, answer |-> NoAnswer]
Ended == [NewJob EXCEPT !.at = "none"]

Init ==
    /\ lease = NoLease /\ sessions = 0 /\ pinValid \in BOOLEAN
    /\ net = {} /\ sockets = 0
    /\ messages = <<>> /\ alive = FALSE /\ job = NoJob /\ listening = FALSE
    /\ waiting = [connect |-> 0, disconnect |-> 0] /\ command = "none"
    /\ jobs = [j \in Jobs |-> Ended]
    /\ ui = "idle" /\ said = "disconnect" /\ commands = 0 /\ failures = 0

------------------------------------------------------------------------------
(* The desktop.                                                            *)

Beats(j) ==
    jobs[j].at = "playing" /\ lease.holder = "phone" /\ lease.session = jobs[j].session

\* The answer on its way takes less than a lease.
WillBeat(j) == jobs[j].answer.code = "ok" /\ jobs[j].answer.session = lease.session

Replace(r, answer) ==
    /\ net' = net \ {r}
    /\ jobs' = IF r.by = NoJob THEN jobs ELSE [jobs EXCEPT ![r.by].answer = answer]

Resumes(r) == lease.holder = "phone" /\ r.session # NoSession /\ r.session = lease.session

\* A faulty version: the number of a session is not used up.
ServeConnectUncounted(r) ==
    /\ r \in net /\ r.kind = "connect"
    /\ lease' = [holder |-> "phone", session |-> sessions + 1, socket |-> r.socket]
    /\ Replace(r, Answer("ok", sessions + 1))
    /\ UNCHANGED <<sessions, pinValid, sockets, serviceVars, ui, boundVars>>

\* The handler of /api/connect.
ServeConnect(r) ==
    /\ r \in net /\ r.kind = "connect"
    /\ \/ /\ Resumes(r)
          /\ lease' = [lease EXCEPT !.socket = r.socket]
          /\ Replace(r, Answer("ok", r.session))
          /\ UNCHANGED sessions
       \/ /\ ~Resumes(r) /\ ~pinValid
          /\ Replace(r, Answer("refused", NoSession))
          /\ UNCHANGED <<lease, sessions>>
       \/ /\ ~Resumes(r) /\ pinValid /\ lease.holder = "other"
          /\ Replace(r, Answer("refused", NoSession))
          /\ UNCHANGED <<lease, sessions>>
       \/ /\ ~Resumes(r) /\ pinValid /\ lease.holder # "other"
          /\ sessions' = sessions + 1
          /\ lease' = [holder |-> "phone", session |-> sessions', socket |-> r.socket]
          /\ Replace(r, Answer("ok", sessions'))
    /\ UNCHANGED <<pinValid, sockets, serviceVars, ui, boundVars>>

\* A faulty version: a disconnect is known by its phone, not by its session.
ServeDisconnectOfPhone(r) ==
    /\ r \in net /\ r.kind = "disconnect"
    /\ lease' = IF lease.holder = "phone" THEN NoLease ELSE lease
    /\ Replace(r, Answer("ok", NoSession))
    /\ UNCHANGED <<sessions, pinValid, sockets, serviceVars, ui, boundVars>>

\* The handler of /api/disconnect.  The phone presents the PIN it was paired with,
\* which passes the check of the PIN whether or not it has expired.
ServeDisconnect(r) ==
    /\ r \in net /\ r.kind = "disconnect"
    /\ lease' = IF lease.session = r.session THEN NoLease ELSE lease
    /\ Replace(r, Answer("ok", NoSession))
    /\ UNCHANGED <<sessions, pinValid, sockets, serviceVars, ui, boundVars>>

\* The lease runs out when nothing renews it.
Lapse ==
    /\ lease.holder = "phone" /\ \A j \in Jobs : ~Beats(j) /\ ~WillBeat(j)
    /\ lease' = NoLease
    /\ UNCHANGED <<sessions, pinValid, net, sockets, serviceVars, jobs, ui, boundVars>>

\* Heartbeats fail for as long as the lease lasts, or the desktop's user ends
\* the session.
LeaseLost ==
    /\ lease.holder = "phone" /\ failures < MaxFailures
    /\ lease' = NoLease /\ failures' = failures + 1
    /\ UNCHANGED <<sessions, pinValid, net, sockets, serviceVars, jobs, ui, said, commands>>

OtherPhone ==
    /\ \/ lease.holder = "none" /\ lease' = [NoLease EXCEPT !.holder = "other"]
       \/ lease.holder = "other" /\ lease' = NoLease
    /\ UNCHANGED <<sessions, pinValid, net, sockets, serviceVars, jobs, ui, boundVars>>

\* The PIN expires; the window's status requests renew it.
PinChanges ==
    /\ pinValid' = ~pinValid
    /\ UNCHANGED <<lease, sessions, net, sockets, serviceVars, jobs, ui, boundVars>>

------------------------------------------------------------------------------
(* runPlaybackLoop and playOnce.                                           *)

Request(j, kind, session, socket) ==
    [kind |-> kind, session |-> session, socket |-> socket, by |-> j]

Sends(j, r, state) ==
    /\ net' = net \cup {r}
    /\ jobs' = [jobs EXCEPT ![j] = state]

Goes(j, state) ==
    /\ jobs' = [jobs EXCEPT ![j] = state]
    /\ UNCHANGED net

Others == UNCHANGED <<deskVars, serviceVars, boundVars>>

\* The next attempt opens a socket and asks for the lease.
Attempt(j) ==
    /\ jobs[j].at = "attempt"
    /\ IF jobs[j].cancelled THEN Goes(j, Ended) /\ UNCHANGED sockets
       ELSE /\ sockets' = sockets + 1
            /\ Sends(j, Request(j, "connect", jobs[j].resume, sockets'),
                     [jobs[j] EXCEPT !.at = "connecting", !.socket = sockets',
                                     !.session = NoSession])
    /\ UNCHANGED ui /\ Others

Answered(j) == jobs[j].answer # NoAnswer

\* The lease is granted; the coroutine notes a cancellation only now.
Connected(j) ==
    /\ jobs[j].at = "connecting" /\ jobs[j].answer.code = "ok"
    /\ Goes(j, [jobs[j] EXCEPT !.at = "playing", !.session = jobs[j].answer.session,
                               !.resume = jobs[j].answer.session, !.answer = NoAnswer])
    /\ UNCHANGED <<sockets, ui>> /\ Others

Hears(j) == jobs[j].at = "playing" /\ lease.socket = jobs[j].socket

\* Statistics come with the packets, also to a coroutine that is cancelled.
Plays(j) ==
    /\ Hears(j) /\ ui # "playing"
    /\ ui' = "playing"
    /\ UNCHANGED <<net, jobs, sockets>> /\ Others

\* A faulty version: the phone trusts its heartbeats more than its ears.
StreamTimesOutUnlessBeating(j) ==
    /\ jobs[j].at = "playing" /\ ~Hears(j) /\ ~Beats(j)
    /\ Goes(j, [jobs[j] EXCEPT !.at = "failed"])
    /\ UNCHANGED <<sockets, ui>> /\ Others

\* Three seconds without a packet.
StreamTimesOut(j) ==
    /\ jobs[j].at = "playing" /\ ~Hears(j)
    /\ Goes(j, [jobs[j] EXCEPT !.at = "failed"])
    /\ UNCHANGED <<sockets, ui>> /\ Others

\* Packets are lost for so long, or the playback itself fails.
StreamFails(j) ==
    /\ jobs[j].at = "playing" /\ failures < MaxFailures
    /\ failures' = failures + 1
    /\ Goes(j, [jobs[j] EXCEPT !.at = "failed"])
    /\ UNCHANGED <<deskVars, sockets, serviceVars, ui, said, commands>>

\* The granted session's audio is of a format the phone cannot play: it is given
\* back before anything is heard, and that is final.
Incompatible(j) ==
    /\ jobs[j].at = "connecting" /\ jobs[j].answer.code = "ok" /\ ~jobs[j].cancelled
    /\ LET granted == jobs[j].answer.session
       IN  Sends(j, Request(j, "disconnect", granted, NoSocket),
                 [jobs[j] EXCEPT !.at = "giving up", !.session = granted,
                                 !.resume = granted, !.answer = NoAnswer])
    /\ UNCHANGED <<sockets, ui>> /\ Others

\* The session of a playback that is cancelled is given back.
Leaves(j) ==
    /\ jobs[j].at = "playing" /\ jobs[j].cancelled
    /\ Sends(j, Request(j, "disconnect", jobs[j].session, NoSocket),
             [jobs[j] EXCEPT !.at = "leaving"])
    /\ UNCHANGED <<sockets, ui>> /\ Others

Left(j) ==
    /\ jobs[j].at = "leaving" /\ Answered(j)
    /\ Goes(j, Ended)
    /\ UNCHANGED <<sockets, ui>> /\ Others

\* A refusal is final, and gives back a session that could not be resumed; also
\* when the coroutine has been cancelled meanwhile.
Refused(j) ==
    /\ jobs[j].at = "connecting" /\ jobs[j].answer.code = "refused"
    /\ IF jobs[j].resume = NoSession
       THEN Goes(j, [jobs[j] EXCEPT !.at = "giving up"])
       ELSE Sends(j, Request(j, "disconnect", jobs[j].resume, NoSocket),
                  [jobs[j] EXCEPT !.at = "giving up", !.answer = NoAnswer])
    /\ UNCHANGED <<sockets, ui>> /\ Others

\* failAndStop shows the failure and lets the audio focus go first ...
GivesUp(j) ==
    /\ jobs[j].at = "giving up" /\ Answered(j)
    /\ Goes(j, [jobs[j] EXCEPT !.at = "stopping", !.answer = NoAnswer])
    /\ ui' = "failed" /\ listening' = (listening /\ j # job)
    /\ UNCHANGED <<deskVars, sockets, messages, alive, waiting, command, job, boundVars>>

\* A faulty version: the service goes on when it has been told to start again.
StopSelfUnlessStarted ==
    IF messages # <<>> \/ waiting.connect > 0 THEN UNCHANGED messages
    ELSE messages' = Append(messages, "destroy")

\* stopSelf ends this instance, whatever commands wait for it; once is enough.
StopSelf ==
    IF "destroy" \in {messages[i] : i \in DOMAIN messages} THEN UNCHANGED messages
    ELSE messages' = Append(messages, "destroy")

\* ... and stops the service, unless it is another one by now.
GivenUp(j) ==
    /\ jobs[j].at = "stopping"
    /\ Goes(j, Ended)
    /\ IF j = job THEN StopSelf ELSE UNCHANGED messages
    /\ UNCHANGED <<deskVars, sockets, alive, waiting, command, job, listening, ui, boundVars>>

\* The request is lost, or comes late, or its answer is lost.
RequestFails(j) ==
    /\ jobs[j].at \in {"connecting", "leaving", "giving up"} /\ failures < MaxFailures
    /\ jobs[j].answer.code # "failed"
    /\ failures' = failures + 1
    /\ jobs' = [jobs EXCEPT ![j].answer = Answer("failed", NoSession)]
    /\ \E late \in BOOLEAN :
          net' = {r \in net : r.by # j}
                 \cup {[r EXCEPT !.by = NoJob] : r \in {q \in net : late /\ q.by = j}}
    /\ UNCHANGED <<deskVars, sockets, serviceVars, ui, said, commands>>

ConnectFails(j) ==
    /\ jobs[j].at = "connecting" /\ jobs[j].answer.code = "failed"
    /\ Goes(j, [jobs[j] EXCEPT !.at = "failed", !.answer = NoAnswer])
    /\ UNCHANGED <<sockets, ui>> /\ Others

\* waitBeforeReconnect, where a cancellation is noted: at the delay, or, without a
\* network, at the end of the wait, when connecting has been shown once more.
Waits(j) ==
    /\ jobs[j].at = "failed"
    /\ Goes(j, [jobs[j] EXCEPT !.at = "waiting"])
    /\ ui' = "reconnecting"
    /\ UNCHANGED sockets /\ Others

Retries(j) ==
    /\ jobs[j].at = "waiting"
    /\ IF jobs[j].cancelled THEN Goes(j, Ended) /\ ui' \in {ui, "connecting"}
       ELSE Goes(j, [jobs[j] EXCEPT !.at = "attempt"]) /\ ui' = "connecting"
    /\ UNCHANGED sockets /\ Others

JobRuns(j) ==
    \/ Attempt(j) \/ Connected(j) \/ Plays(j) \/ StreamTimesOut(j) \/ Leaves(j) \/ Left(j)
    \/ Refused(j) \/ GivesUp(j) \/ GivenUp(j) \/ ConnectFails(j) \/ Waits(j) \/ Retries(j)

------------------------------------------------------------------------------
(* The service and its commands.                                           *)

\* The user's buttons.
Click(kind) ==
    /\ IF kind = "connect" THEN ui \in {"idle", "failed"} ELSE ui # "idle"
    /\ commands < MaxCommands
    /\ commands' = commands + 1 /\ said' = kind
    /\ messages' = Append(messages, kind)
    /\ UNCHANGED <<deskVars, net, sockets, alive, waiting, command, job,
                   listening, jobs, ui, failures>>

\* stopService also ends an instance that an earlier command is still to make.
StopService ==
    IF (messages = <<>> /\ ~alive) \/ (messages # <<>> /\ messages[Len(messages)] = "destroy")
    THEN UNCHANGED messages
    ELSE messages' = Append(messages, "destroy")

\* Android refuses to start the service: a connect is shown as failed, and for a
\* disconnect the service is stopped without it.
ClickFails(kind) ==
    /\ IF kind = "connect" THEN ui \in {"idle", "failed"} ELSE ui # "idle"
    /\ commands < MaxCommands /\ failures < MaxFailures
    /\ commands' = commands + 1 /\ failures' = failures + 1
    /\ IF kind = "connect"
       THEN ui' = "failed" /\ UNCHANGED <<messages, said>>
       ELSE ui' = "idle" /\ said' = kind /\ StopService
    /\ UNCHANGED <<deskVars, net, sockets, alive, waiting, command, job, listening, jobs>>

\* Audio focus goes to another app, or the headphones are taken off.
OutputGone ==
    /\ listening /\ commands < MaxCommands
    /\ commands' = commands + 1 /\ said' = "disconnect"
    /\ waiting' = [waiting EXCEPT !.disconnect = @ + 1]
    /\ UNCHANGED <<deskVars, net, sockets, messages, alive, command, job,
                   listening, jobs, ui, failures>>

\* onStartCommand; Android makes an instance where there is none.
StartCommand ==
    /\ messages # <<>> /\ Head(messages) # "destroy"
    /\ messages' = Tail(messages)
    /\ alive' = TRUE
    /\ waiting' = [waiting EXCEPT ![Head(messages)] = @ + 1]
    /\ ui' = IF Head(messages) = "connect" THEN "connecting" ELSE ui
    /\ UNCHANGED <<deskVars, net, sockets, command, job, listening, jobs, boundVars>>

\* A faulty version: the playback coroutine is left to itself.
DestroyLeavingJob ==
    /\ messages # <<>> /\ Head(messages) = "destroy"
    /\ messages' = Tail(messages)
    /\ alive' = FALSE
    /\ waiting' = [connect |-> 0, disconnect |-> 0] /\ command' = "none" /\ job' = NoJob
    /\ listening' = FALSE
    /\ UNCHANGED <<deskVars, net, sockets, jobs, ui, boundVars>>

\* onDestroy: all coroutines are cancelled, and a blocked one ends when it can.
Destroy ==
    /\ messages # <<>> /\ Head(messages) = "destroy"
    /\ messages' = Tail(messages)
    /\ alive' = FALSE
    /\ waiting' = [connect |-> 0, disconnect |-> 0] /\ command' = "none" /\ job' = NoJob
    /\ listening' = FALSE
    /\ jobs' = IF job = NoJob \/ jobs[job].at = "none" THEN jobs
               ELSE [jobs EXCEPT ![job].cancelled = TRUE]
    /\ UNCHANGED <<deskVars, net, sockets, ui, boundVars>>

\* replaceSession and stopSession take the mutex and cancel the job ...
Takes(kind) ==
    /\ command = "none" /\ waiting[kind] > 0
    /\ waiting' = [waiting EXCEPT ![kind] = @ - 1]
    /\ command' = kind
    /\ jobs' = IF job = NoJob \/ jobs[job].at = "none" THEN jobs
               ELSE [jobs EXCEPT ![job].cancelled = TRUE]
    /\ UNCHANGED <<deskVars, net, sockets, messages, alive, job, listening, ui, boundVars>>

\* ... and go on when it has ended.
Joined == job # NoJob => jobs[job].at = "none"

Launches ==
    /\ command = "connect" /\ Joined
    /\ command' = "none"
    /\ \E j \in Jobs :
          /\ jobs[j].at = "none"
          /\ job' = j /\ jobs' = [jobs EXCEPT ![j] = NewJob]
    /\ listening' = TRUE
    /\ UNCHANGED <<deskVars, net, sockets, messages, alive, waiting, ui, boundVars>>

\* Audio focus is denied.
FocusDenied ==
    /\ command = "connect" /\ Joined /\ failures < MaxFailures
    /\ failures' = failures + 1
    /\ command' = "stopping" /\ ui' = "failed" /\ listening' = FALSE
    /\ UNCHANGED <<deskVars, net, sockets, messages, alive, waiting, job, jobs, said, commands>>

Stops ==
    /\ command = "disconnect" /\ Joined
    /\ command' = "stopping" /\ job' = NoJob /\ ui' = "idle" /\ listening' = FALSE
    /\ UNCHANGED <<deskVars, net, sockets, messages, alive, waiting, jobs, boundVars>>

Stopped ==
    /\ command = "stopping"
    /\ command' = "none"
    /\ StopSelf
    /\ UNCHANGED <<deskVars, net, sockets, alive, waiting, job, listening, jobs, ui, boundVars>>

CommandRuns == (\E kind \in {"connect", "disconnect"} : Takes(kind)) \/ Launches \/ Stops \/ Stopped

Serve(r) == ServeConnect(r) \/ ServeDisconnect(r)

Next ==
    \/ \E r \in net : Serve(r)
    \/ Lapse \/ LeaseLost \/ OtherPhone \/ PinChanges
    \/ \E j \in Jobs : JobRuns(j) \/ Incompatible(j) \/ StreamFails(j) \/ RequestFails(j)
    \/ \E kind \in {"connect", "disconnect"} : Click(kind) \/ ClickFails(kind)
    \/ OutputGone \/ FocusDenied \/ StartCommand \/ Destroy \/ CommandRuns

Spec == Init /\ [][Next]_phoneVars

\* Requests have time limits, coroutines and the main thread are scheduled, and
\* the desktop expires an abandoned lease.
FairSpec ==
    /\ Spec
    /\ \A j \in Jobs : WF_phoneVars(JobRuns(j))
    /\ WF_phoneVars(\E r \in net : Serve(r)) /\ WF_phoneVars(Lapse)
    /\ WF_phoneVars(StartCommand) /\ WF_phoneVars(Destroy) /\ WF_phoneVars(CommandRuns)

------------------------------------------------------------------------------
(* Properties.                                                             *)

Job == [at : {"none", "attempt", "connecting", "playing", "failed", "waiting", "leaving",
              "giving up", "stopping"},
        socket : Nat, session : Nat, resume : Nat, cancelled : BOOLEAN,
        answer : [code : {"none", "ok", "refused", "failed"}, session : Nat]]

PhoneTypeOK ==
    /\ lease \in [holder : {"none", "phone", "other"}, session : 0 .. sessions,
                  socket : 0 .. sockets]
    /\ sessions \in Nat /\ sockets \in Nat /\ pinValid \in BOOLEAN
    /\ net \subseteq [kind : {"connect", "disconnect"}, session : 0 .. sessions,
                      socket : 0 .. sockets, by : Jobs \cup {NoJob}]
    /\ messages \in Seq({"connect", "disconnect", "destroy"})
    /\ alive \in BOOLEAN /\ listening \in BOOLEAN
    /\ waiting \in [{"connect", "disconnect"} -> Nat]
    /\ command \in {"none", "connect", "disconnect", "stopping"}
    /\ job \in Jobs \cup {NoJob} /\ jobs \in [Jobs -> Job]
    /\ ui \in {"idle", "connecting", "playing", "reconnecting", "failed"}
    /\ said \in {"connect", "disconnect"} /\ commands \in 0 .. MaxCommands
    /\ failures \in 0 .. MaxFailures

\* At most one job is not cancelled, and it is that of the instance there is.
OneJob ==
    \A j \in Jobs : jobs[j].at # "none" /\ ~jobs[j].cancelled => alive /\ j = job

\* A disconnect that an earlier job or attempt has sent, however late it comes,
\* never ends the session that plays.
LateDisconnectHarmless ==
    [][\A r \in net \ net', j \in Jobs :
          r.kind = "disconnect" /\ Beats(j) /\ ~jobs[j].cancelled => lease' = lease]_phoneVars

Silent == lease.holder # "phone" /\ \A j \in Jobs : jobs[j].at = "none"

\* After a disconnect the phone stays silent and the lease is free for others.
DisconnectLasts == []<>(said = "connect") \/ <>[]Silent

\* A phone that is not told to stop hears the desktop again in the end, unless its
\* job has ended for good: refused, incompatible, without audio focus, or lost with
\* an instance of the service that was stopping.
StreamReturns == <>[](\A j \in Jobs : jobs[j].at = "none" \/ Hears(j))

==============================================================================
