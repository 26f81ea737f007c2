------------------------------- MODULE Desktop --------------------------------
(***************************************************************************)
(* The desktop window: ServiceController, the application around it with   *)
(* its tray menu and buttons, and the settings (service/controller.rs,     *)
(* app.rs, tray.rs, ui.rs, settings.rs), beside the worker thread and the  *)
(* service process.                                                        *)
(*                                                                         *)
(* Everything here runs on the window's thread.  An operation reads all    *)
(* events that have come (pump) and then decides; buttons are drawn from   *)
(* what was shown before that.  Logs, notices, languages, layout and       *)
(* whether the window is visible are left out.                             *)
(***************************************************************************)
EXTENDS ServiceWorker

CONSTANTS Settings,      \* AppSettings a user can have saved or enter
          MaxClicks,     \* bound on tray menu clicks not handled yet
          Sockets        \* sockets that other programs open and close

VARIABLES
    shown,         \* the service's snapshot on display
    activity,      \* ServiceSnapshot::activity
    pollPending,   \* ServiceController::poll_pending
    settings,      \* LanPulseApp::settings
    clicks,        \* tray menu clicks not handled yet
    window         \* "open"; "joining" the worker; "closing"; "closed"

uiVars == <<shown, activity, pollPending, settings, clicks, window>>
desktopVars == <<startVars, workerVars, uiVars>>

Setting == [packetMs : Nat, controlStart : 0 .. LastPort, controlEnd : 0 .. LastPort,
            discoveryStart : 0 .. LastPort, discoveryEnd : 0 .. LastPort,
            startOnLaunch : BOOLEAN]

\* AppSettings::default, with ports 1 .. last for both sockets.
DefaultSettings(last) ==
    [packetMs |-> 5, controlStart |-> 1, controlEnd |-> last,
     discoveryStart |-> 1, discoveryEnd |-> last, startOnLaunch |-> TRUE]

\* A faulty version: the packet duration is left as it is.
SanitizePorts(s) ==
    [s EXCEPT !.controlStart = Greater(@, 1),
              !.controlEnd = Greater(@, Greater(s.controlStart, 1)),
              !.discoveryStart = Greater(@, 1),
              !.discoveryEnd = Greater(@, Greater(s.discoveryStart, 1))]

\* A faulty version: a range may start at port 0.
SanitizeFromZero(s) ==
    [s EXCEPT !.packetMs = IF @ \in PacketMillis THEN @ ELSE 5,
              !.controlEnd = Greater(@, s.controlStart),
              !.discoveryEnd = Greater(@, s.discoveryStart)]

Sanitize(s) ==
    [s EXCEPT !.packetMs = IF @ \in PacketMillis THEN @ ELSE 5,
              !.controlStart = Greater(@, 1),
              !.controlEnd = Greater(@, Greater(s.controlStart, 1)),
              !.discoveryStart = Greater(@, 1),
              !.discoveryEnd = Greater(@, Greater(s.discoveryStart, 1))]

ASSUME DesktopAssumption == Settings \subseteq Setting /\ MaxClicks \in Nat

------------------------------------------------------------------------------
(* ServiceController::pump                                                 *)

Kinds == {events[i].kind : i \in DOMAIN events}
Snapshots == {i \in DOMAIN events : events[i].kind = "snapshot"}
LastSnapshot == CHOOSE i \in Snapshots : \A j \in Snapshots : j <= i

Pumped == IF Snapshots = {} THEN shown ELSE events[LastSnapshot].snapshot
ActivityPumped == IF Kinds \cap Activities = {} THEN activity ELSE "idle"
PendingPumped == pollPending /\ "poll" \notin Kinds

Pump ==
    /\ events' = <<>>
    /\ shown' = Pumped
    /\ UNCHANGED <<startVars, worker, settings>>

BusyPumped == ActivityPumped # "idle"

------------------------------------------------------------------------------
(* The controller's operations, each after a pump.                         *)

\* The operation finds nothing to do.
Refused == activity' = ActivityPumped /\ UNCHANGED commands

\* The command goes to the worker; without one the operation is over at once.
Request(kind, command) ==
    IF worker.at = "ended" THEN activity' = "idle" /\ UNCHANGED commands
    ELSE activity' = kind /\ commands' = Append(commands, command)

\* ServiceController::start
StartService ==
    /\ Pump /\ pollPending' = PendingPumped
    /\ IF Pumped.running \/ BusyPumped THEN Refused ELSE Request("start", Start(settings))

\* A faulty version: an operation under way does not matter.
AskAlways(kind) ==
    /\ Pump /\ pollPending' = PendingPumped
    /\ IF ~Pumped.running THEN Refused ELSE Request(kind, Do(kind))

\* ServiceController::stop and ::disconnect_device
Ask(kind) ==
    /\ Pump /\ pollPending' = PendingPumped
    /\ IF ~Pumped.running \/ BusyPumped THEN Refused ELSE Request(kind, Do(kind))

\* ServiceController::refresh
Refresh ==
    /\ Pump /\ activity' = ActivityPumped
    /\ IF PendingPumped \/ BusyPumped \/ worker.at = "ended"
       THEN pollPending' = PendingPumped /\ UNCHANGED commands
       ELSE pollPending' = TRUE /\ commands' = Append(commands, Do("poll"))

------------------------------------------------------------------------------
(* The window.                                                             *)

Frames == window \in {"open", "closing"}
Drawn == Frames /\ activity = "idle" /\ UNCHANGED <<clicks, window>>

\* Every frame begins with sync_service.
Sync ==
    /\ Frames
    /\ Pump /\ activity' = ActivityPumped /\ pollPending' = PendingPumped
    /\ UNCHANGED <<commands, clicks, window>>

\* toggle_service goes by what is shown before the pump.
Toggle == IF shown.running THEN Ask("stop") ELSE StartService

\* Buttons; all but Settings are dead while an operation is under way.
ClickToggle == Drawn /\ Toggle
ClickRefresh == Drawn /\ shown.running /\ Refresh
ClickDisconnect == Drawn /\ shown.status = "phone" /\ Ask("disconnect")

\* The tray's menu item, and handle_tray some time later.
TrayClick ==
    /\ Frames /\ clicks < MaxClicks
    /\ clicks' = clicks + 1
    /\ UNCHANGED <<startVars, workerVars, shown, activity, pollPending, settings, window>>

HandleTray ==
    /\ Frames /\ clicks > 0
    /\ clicks' = clicks - 1
    /\ Toggle
    /\ UNCHANGED window

\* The code in the pairing window.
QrCode == shown.info

\* Save in the settings window.
ApplySettings(draft) ==
    /\ Frames
    /\ settings' = Sanitize(draft)
    /\ UNCHANGED <<startVars, workerVars, shown, activity, pollPending, clicks, window>>

\* A faulty version: waits for a thread that nobody has told to end.
QuitJoins ==
    /\ window = "open"
    /\ window' = "joining"
    /\ UNCHANGED <<startVars, workerVars, shown, activity, pollPending, settings, clicks>>

\* Quit in the tray, or the window closed and not merely hidden.
Quit ==
    /\ window = "open"
    /\ window' = "joining"
    /\ commands' = Append(commands, Do("shutdown"))
    /\ UNCHANGED <<startVars, events, worker, shown, activity, pollPending, settings, clicks>>

\* ServiceController::shutdown goes on when the thread has ended.
Joined ==
    /\ window = "joining" /\ worker.at = "ended"
    /\ window' = "closing"
    /\ shown' = [SnapshotOf(NoService) EXCEPT !.error = shown.error]
    /\ activity' = "idle"
    /\ UNCHANGED <<startVars, workerVars, pollPending, settings, clicks>>

Close ==
    /\ window = "closing"
    /\ window' = "closed"
    /\ UNCHANGED <<startVars, workerVars, shown, activity, pollPending, settings, clicks>>

------------------------------------------------------------------------------
(* All together.                                                           *)

\* LanPulseApp::new starts the service where the user wants it.
DesktopInit ==
    /\ procs = [p \in Pids |-> Free]
    /\ taken \in SUBSET Sockets
    /\ lan \in SUBSET Addresses
    /\ settings \in {Sanitize(s) : s \in Settings}
    /\ events = <<>> /\ worker = NewWorker
    /\ shown = SnapshotOf(NoService) /\ pollPending = FALSE
    /\ clicks = 0 /\ window = "open"
    /\ activity = IF settings.startOnLaunch THEN "start" ELSE "idle"
    /\ commands = IF settings.startOnLaunch THEN <<Start(settings)>> ELSE <<>>

User ==
    \/ ClickToggle \/ ClickRefresh \/ ClickDisconnect
    \/ TrayClick \/ HandleTray \/ Quit
    \/ \E draft \in Settings : ApplySettings(draft)

Surroundings ==
    \/ \E p \in Pids : Starts(p) \/ Dies(p) \/ PhoneChanges(p)
    \/ \E socket \in Sockets : OpensSocket(socket) \/ ClosesSocket(socket)

DesktopNext ==
    \/ WorkerNext /\ UNCHANGED uiVars
    \/ Surroundings /\ UNCHANGED <<workerVars, uiVars>>
    \/ Sync \/ Joined \/ Close \/ User

DesktopSpec == DesktopInit /\ [][DesktopNext]_desktopVars

\* Requests and the wait for the ready line have time limits, threads are
\* scheduled, and frames come at least every 300 ms.
FairDesktopSpec ==
    /\ DesktopSpec
    /\ WF_desktopVars(WorkerRuns /\ UNCHANGED uiVars)
    /\ WF_desktopVars(Sync) /\ WF_desktopVars(Joined) /\ WF_desktopVars(Close)

------------------------------------------------------------------------------
(* Properties.                                                             *)

Snapshot == [running : BOOLEAN, info : Info \cup {NoLine}, status : Status, error : BOOLEAN]
Runtime == [child : Pids \cup {NoPid}, info : Info \cup {NoLine}, status : Status,
            error : BOOLEAN]
CommandKinds == Activities \cup {"poll", "shutdown"}
EventKinds == Activities \cup {"poll", "snapshot"}

Process == [at : Places, options : Option, try : 0 .. LastPort + 1, control : Ports \cup {NoPort},
            discovery : Ports \cup {NoPort}, address : Addresses \cup {Loopback},
            line : Info \cup {NoLine}, read : BOOLEAN, phone : BOOLEAN]

\* The types of the window, the worker and the processes.
DesktopTypeOK ==
    /\ procs \in [Pids -> Process]
    /\ commands \in Seq([kind : CommandKinds, args : Option])
    /\ events \in Seq([kind : EventKinds, snapshot : Snapshot, ok : BOOLEAN])
    /\ worker \in [at : Stages, doing : CommandKinds \cup {"none", "auto"}, args : Option,
                   spawned : Pids \cup {NoPid}, heard : Info \cup {NoLine},
                   runtime : Runtime, ok : BOOLEAN]
    /\ shown \in Snapshot /\ activity \in Activities \cup {"idle"}
    /\ pollPending \in BOOLEAN /\ settings \in Setting /\ clicks \in 0 .. MaxClicks
    /\ window \in {"open", "joining", "closing", "closed"}

\* "No lanpulse-service process remains after the desktop app exits"
\* (docs/technical-design.md), nor any earlier than that: every process there is,
\* dead or alive, is the child or one that is starting, never both, whatever the
\* order of clicks, failures and deaths; and none when the worker has ended.
NoStrayService ==
    /\ \A p \in Pids : procs[p].at # "free" =>
          p \in {worker.runtime.child, worker.spawned}
    /\ worker.runtime.child = NoPid \/ worker.spawned = NoPid
    /\ worker.at = "ended" => worker.runtime.child = NoPid /\ worker.spawned = NoPid
    /\ window = "closed" => worker.at = "ended"

\* Options that a window passes are accepted and kept as they are by the
\* service, which checks and amends them by rules of its own.
OptionsAgree ==
    \A p \in Pids : procs[p].at = "options" =>
        Valid(procs[p].options) /\ Validated(procs[p].options) = procs[p].options

Of(queue, kind) == {i \in DOMAIN queue : queue[i].kind = kind}

\* The answers the window is owed for commands of a kind.
Owed(kind) ==
    Cardinality(Of(commands, kind)) + Cardinality(Of(events, kind))
        + (IF worker.doing = kind THEN 1 ELSE 0)

\* The window is busy exactly as long as it is owed one answer, and of the kind
\* it shows; likewise for a poll.  An answer too few would disable its buttons
\* for good, one too many enable them too early.
BusyWhileOwed ==
    window \in {"open", "joining"} =>
        /\ \A kind \in Activities : Owed(kind) = (IF activity = kind THEN 1 ELSE 0)
        /\ Owed("poll") = (IF pollPending THEN 1 ELSE 0)

\* When the window reads that a stop is done or that a start has failed, there
\* is no process.
ReportsAreTrue ==
    \A i \in DOMAIN events :
        events[i].kind = "stop" \/ (events[i].kind = "start" /\ ~events[i].ok) =>
            \A p \in Pids : procs[p].at = "free"

\* Once the worker is idle and its events are read, the window shows what the
\* worker holds: no change of its state goes unreported.
ShownAgrees ==
    window = "open" /\ events = <<>> /\ worker.at = "idle" =>
        shown = SnapshotOf(worker.runtime)

\* What the worker asks and what a phone scans leads to the service there is, at
\* the ports it holds: never to those of an earlier one, of a range, or of a
\* process that is only starting.
AnnouncedPortsHeld ==
    \A p \in Pids, info \in {worker.runtime.info, QrCode} \ {NoLine} :
        Alive(p) =>
            /\ procs[p].control = info.control /\ procs[p].discovery = info.discovery
            /\ info.control \in procs[p].options.controlStart .. procs[p].options.controlEnd

Awaits(kind) == IF kind = "poll" THEN pollPending ELSE activity = kind

\* Every operation and every poll that the window waits for is answered, also
\* when it quits meanwhile.
AnswersCome ==
    \A kind \in Activities \cup {"poll"} : Awaits(kind) ~> kind \in Kinds

\* Quitting never hangs, though the window waits for the worker and the worker
\* for a process that may not answer.
QuitReturns == window = "joining" ~> window = "closed"

==============================================================================
