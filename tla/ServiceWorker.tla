---------------------------- MODULE ServiceWorker -----------------------------
(***************************************************************************)
(* The worker thread of the desktop window (service/runtime.rs,            *)
(* process.rs, http.rs).  It takes commands from one channel, starts,      *)
(* polls and kills the service process, and reports on another channel.    *)
(*                                                                         *)
(* A step ends where another thread or process can come in between: a      *)
(* command taken, a process spawned, a line read, a request answered, an   *)
(* event sent.  Log events are left out.  A process is killed and waited   *)
(* for in one step, and waiting for one's own child does not fail.         *)
(***************************************************************************)
EXTENDS ServiceStart, Sequences

CONSTANTS NoPid,       \* no process
          MaxEvents    \* bound: no automatic poll with so many events unread

ASSUME WorkerAssumption == NoPid \notin Pids /\ MaxEvents \in Nat

VARIABLES
    commands,    \* the channel of WorkerCommands
    events,      \* the channel of WorkerEvents
    worker       \* the thread

workerVars == <<commands, events, worker>>

(***************************************************************************)
(* worker.at        where it is; "ended": the thread is gone               *)
(* worker.doing     the command it works on; "auto": a poll of its own     *)
(* worker.args      ... and the settings that came with it                 *)
(* worker.spawned   a process that has not said it is ready                *)
(* worker.heard     the ready line, passed on by the thread that reads     *)
(* worker.runtime   ServiceRuntime: the child, what it announced, its last *)
(*                  status ("idle", or "phone": one is connected), and     *)
(*                  whether the last request for it failed                 *)
(* worker.ok        the result to be reported                              *)
(***************************************************************************)
Stages == {"boot", "idle", "spawn", "await", "fetch", "post", "poll", "report", "finish", "ended"}
Status == {"none", "idle", "phone"}
Activities == {"start", "stop", "disconnect"}

NoService == [child |-> NoPid, info |-> NoLine, status |-> "none", error |-> FALSE]

\* service_args; discovery is never switched off.
ServiceArgs(s) ==
    [packetMs |-> s.packetMs, controlStart |-> s.controlStart,
     controlEnd |-> s.controlEnd, discoveryStart |-> s.discoveryStart,
     discoveryEnd |-> s.discoveryEnd, discover |-> TRUE]

Start(s) == [kind |-> "start", args |-> ServiceArgs(s)]
Do(kind) == [kind |-> kind, args |-> NoOption]

\* WorkerSnapshot
SnapshotOf(runtime) ==
    [running |-> runtime.child # NoPid, info |-> runtime.info,
     status |-> runtime.status, error |-> runtime.error]

Event(kind, snapshot, ok) == [kind |-> kind, snapshot |-> snapshot, ok |-> ok]
Finished(kind, ok) == Event(kind, SnapshotOf(NoService), ok)

NewWorker ==
    [at |-> "boot", doing |-> "none", args |-> NoOption, spawned |-> NoPid,
     heard |-> NoLine, runtime |-> NoService, ok |-> TRUE]

At(stage) == worker.at = stage

Quietly == UNCHANGED <<commands, events, taken, lan>>

------------------------------------------------------------------------------
(* The child.                                                              *)

\* terminate_child: kill, then wait.
Without(p) == IF p = NoPid THEN procs ELSE [procs EXCEPT ![p] = Free]

Exited(p) == p # NoPid /\ procs[p].at = "zombie"

\* reap_child, on the runtime and on the processes.
Reap(runtime) == IF Exited(runtime.child) THEN NoService ELSE runtime
Reaped(p) == IF Exited(p) THEN Without(p) ELSE procs

\* ServiceRuntime::poll up to the request, for the worker w; without a service
\* there is nothing to ask.
Poll(w) ==
    LET left == Reap(w.runtime) IN
    [w EXCEPT !.at = IF left.info = NoLine THEN "report" ELSE "fetch",
              !.runtime = IF left.info = NoLine
                          THEN [left EXCEPT !.status = "none", !.error = FALSE] ELSE left]

\* The service answers at the port it has announced ...
Answers(p) == procs[p].at = "serving" /\ procs[p].control = worker.runtime.info.control

\* fetch_status
StatusFetched ==
    /\ At("fetch") /\ Answers(worker.runtime.child)
    /\ worker' = [worker EXCEPT !.at = "report", !.runtime.error = FALSE,
           !.runtime.status = IF procs[worker.runtime.child].phone THEN "phone" ELSE "idle"]
    /\ UNCHANGED procs /\ Quietly

\* ... or not in time, or not at all: the last status stays.
StatusFails ==
    /\ At("fetch")
    /\ worker' = [worker EXCEPT !.at = "report", !.runtime.error = TRUE]
    /\ UNCHANGED procs /\ Quietly

------------------------------------------------------------------------------
(* Start.                                                                  *)

\* The worker takes up the next command, which is of this kind.
Takes(kind) ==
    /\ At("idle") /\ commands # <<>> /\ Head(commands).kind = kind
    /\ commands' = Tail(commands)
    /\ UNCHANGED <<events, taken, lan>>

Working(kind) == [worker EXCEPT !.doing = kind, !.ok = TRUE]

\* A child that runs is left alone.
TakeStart ==
    /\ Takes("start")
    /\ procs' = Reaped(worker.runtime.child)
    /\ LET left == Reap(worker.runtime) IN
       worker' = IF left.child = NoPid
                 THEN [Working("start") EXCEPT !.at = "spawn", !.runtime = left,
                                               !.args = Head(commands).args]
                 ELSE [Working("start") EXCEPT !.at = "report", !.runtime = left]

Spawn(p) ==
    /\ At("spawn") /\ procs[p] = Free
    /\ procs' = [procs EXCEPT ![p] = Spawned(worker.args)]
    /\ worker' = [worker EXCEPT !.at = "await", !.spawned = p, !.args = NoOption]
    /\ Quietly

\* No such program, or no process to be had.
SpawnFails ==
    /\ At("spawn")
    /\ worker' = [worker EXCEPT !.at = "report", !.ok = FALSE, !.args = NoOption]
    /\ UNCHANGED procs /\ Quietly

\* The thread of wait_for_ready takes the ready line and passes it on ...
ReadLine ==
    /\ At("await") /\ procs[worker.spawned].line # NoLine
    /\ worker' = [worker EXCEPT !.heard = procs[worker.spawned].line]
    /\ procs' = [procs EXCEPT ![worker.spawned].line = NoLine]
    /\ Quietly

\* ... and lets go of the pipe.
CloseOutput(p) ==
    /\ procs[p].read
    /\ (p = worker.spawned /\ worker.heard # NoLine) \/ p = worker.runtime.child
    /\ procs' = [procs EXCEPT ![p].read = FALSE]
    /\ UNCHANGED worker /\ Quietly

\* The line comes in time: the child is taken over and polled.
Ready ==
    /\ At("await") /\ worker.heard # NoLine
    /\ procs' = Reaped(worker.spawned)
    /\ worker' = Poll([worker EXCEPT !.spawned = NoPid, !.heard = NoLine,
           !.runtime = [NoService EXCEPT !.child = worker.spawned, !.info = worker.heard]])
    /\ Quietly

AwaitFailed == [worker EXCEPT !.at = "report", !.spawned = NoPid, !.ok = FALSE]

\* A faulty version: the process is forgotten.
ReadyFailsForgets ==
    /\ At("await") /\ worker.heard = NoLine
    /\ worker' = AwaitFailed
    /\ UNCHANGED procs /\ Quietly

\* Five seconds have passed, or the process has ended without a word.
ReadyFails ==
    /\ At("await") /\ worker.heard = NoLine
    /\ worker' = AwaitFailed
    /\ procs' = Without(worker.spawned)
    /\ Quietly

------------------------------------------------------------------------------
(* The other commands.                                                     *)

\* A faulty version: the process is killed and not waited for.
TakeStopOnlyKills ==
    /\ Takes("stop")
    /\ procs' = IF worker.runtime.child = NoPid THEN procs
                ELSE [procs EXCEPT ![worker.runtime.child] = Zombie(@)]
    /\ worker' = [Working("stop") EXCEPT !.at = "report", !.runtime = NoService]

TakeStop ==
    /\ Takes("stop")
    /\ procs' = Without(worker.runtime.child)
    /\ worker' = [Working("stop") EXCEPT !.at = "report", !.runtime = NoService]

TakePoll ==
    /\ Takes("poll")
    /\ procs' = Reaped(worker.runtime.child)
    /\ worker' = Poll(Working("poll"))

\* No command for 1.2 seconds.
AutoPoll ==
    /\ At("idle") /\ commands = <<>> /\ Len(events) < MaxEvents
    /\ worker.runtime.child # NoPid
    /\ procs' = Reaped(worker.runtime.child)
    /\ worker' = Poll(Working("auto"))
    /\ Quietly

\* A faulty version: without a service there is nothing to report.
TakeDisconnectSilently ==
    /\ Takes("disconnect")
    /\ worker' = IF worker.runtime.info = NoLine THEN worker
                 ELSE [Working("disconnect") EXCEPT !.at = "post"]
    /\ UNCHANGED procs

TakeDisconnect ==
    /\ Takes("disconnect")
    /\ worker' = IF worker.runtime.info = NoLine
                 THEN [Working("disconnect") EXCEPT !.at = "report", !.ok = FALSE]
                 ELSE [Working("disconnect") EXCEPT !.at = "post"]
    /\ UNCHANGED procs

\* disconnect_device: the phone loses its lease, then the status is asked for ...
Disconnected ==
    /\ At("post") /\ Answers(worker.runtime.child)
    /\ procs' = [procs EXCEPT ![worker.runtime.child].phone = FALSE]
    /\ worker' = [worker EXCEPT !.at = "poll"]
    /\ Quietly

PollAfterDisconnect ==
    /\ At("poll")
    /\ procs' = Reaped(worker.runtime.child)
    /\ worker' = Poll(worker)
    /\ Quietly

\* ... or the request or its answer is lost.
DisconnectFails(served) ==
    /\ At("post")
    /\ served => Answers(worker.runtime.child)
    /\ procs' = IF served THEN [procs EXCEPT ![worker.runtime.child].phone = FALSE] ELSE procs
    /\ worker' = [worker EXCEPT !.at = "report", !.ok = FALSE]
    /\ Quietly

TakeShutdown ==
    /\ Takes("shutdown")
    /\ procs' = Without(worker.runtime.child)
    /\ worker' = [Working("none") EXCEPT !.at = "ended", !.runtime = NoService]

------------------------------------------------------------------------------
(* Reports.                                                                *)

\* A faulty version: the thread's own polls are not reported.
SendSnapshotOnDemand ==
    /\ At("boot") \/ At("report")
    /\ events' = IF worker.doing = "auto" THEN events
                 ELSE Append(events, Event("snapshot", SnapshotOf(worker.runtime), TRUE))
    /\ worker' = IF worker.doing \in {"none", "auto"}
                 THEN [worker EXCEPT !.at = "idle", !.doing = "none"]
                 ELSE [worker EXCEPT !.at = "finish"]
    /\ UNCHANGED <<procs, commands, taken, lan>>

\* send_snapshot, when the thread starts and after every command.
SendSnapshot ==
    /\ At("boot") \/ At("report")
    /\ events' = Append(events, Event("snapshot", SnapshotOf(worker.runtime), TRUE))
    /\ worker' = IF worker.doing \in {"none", "auto"}
                 THEN [worker EXCEPT !.at = "idle", !.doing = "none"]
                 ELSE [worker EXCEPT !.at = "finish"]
    /\ UNCHANGED <<procs, commands, taken, lan>>

\* ActivityFinished, PollFinished
SendFinished ==
    /\ At("finish")
    /\ events' = Append(events, Finished(worker.doing, worker.ok))
    /\ worker' = [worker EXCEPT !.at = "idle", !.doing = "none", !.ok = TRUE]
    /\ UNCHANGED <<procs, commands, taken, lan>>

\* Each of these comes to an end: requests and the ready line have time limits.
WorkerRuns ==
    \/ TakeStart \/ TakeStop \/ TakePoll \/ TakeDisconnect \/ TakeShutdown
    \/ \E p \in Pids : Spawn(p)
    \/ SpawnFails \/ Ready \/ ReadyFails
    \/ StatusFetched \/ StatusFails
    \/ Disconnected \/ PollAfterDisconnect \/ \E served \in BOOLEAN : DisconnectFails(served)
    \/ SendSnapshot \/ SendFinished

WorkerNext == WorkerRuns \/ AutoPoll \/ ReadLine \/ \E p \in Pids : CloseOutput(p)

==============================================================================
