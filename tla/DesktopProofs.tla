---------------------------- MODULE DesktopProofs -----------------------------
(***************************************************************************)
(* The safety properties of Desktop, for any number of processes, ports,   *)
(* settings and clicks.                                                    *)
(*                                                                         *)
(* The inductive invariant DesktopInv says, beyond the properties: what a  *)
(* service process has bound so far, which process the worker knows at     *)
(* each of its steps, and how far the snapshots on their way to the window *)
(* may be behind the worker.                                               *)
(***************************************************************************)
EXTENDS Desktop, FunctionTheorems, FiniteSetTheorems, WellFoundedInduction, TLAPS

\* Options that a service takes as they are.
Sane(o) ==
    /\ o.packetMs \in PacketMillis
    /\ 1 <= o.controlStart /\ o.controlStart <= o.controlEnd /\ o.controlEnd <= LastPort
    /\ 1 <= o.discoveryStart /\ o.discoveryStart <= o.discoveryEnd
    /\ o.discoveryEnd <= LastPort

Announced == {"ending line", "serving"}

\* What a process has read, bound and written so far.
ProcessOK(proc) ==
    /\ proc \in Process
    /\ proc.at \notin {"free", "zombie"} => Sane(proc.options) /\ proc.options.discover
    /\ proc.at = "control" => proc.options.controlStart <= proc.try
    /\ proc.at = "discovery" => proc.options.discoveryStart <= proc.try
    /\ proc.at \in {"discovery", "announcing"} \cup Announced =>
          proc.control \in proc.options.controlStart .. proc.options.controlEnd
    /\ proc.at \in {"announcing"} \cup Announced =>
          proc.discovery \in proc.options.discoveryStart .. proc.options.discoveryEnd
    /\ proc.line # NoLine /\ proc.at # "zombie" =>
          proc.at \in Announced /\ proc.line = ReadyLine(proc)

ProcessesOK == \A p \in Pids : ProcessOK(procs[p])

WorkerType ==
    [at : Stages, doing : CommandKinds \cup {"none", "auto"}, args : Option,
     spawned : Pids \cup {NoPid}, heard : Info \cup {NoLine}, runtime : Runtime, ok : BOOLEAN]

\* What the worker holds at each of its steps.
WorkerOK ==
    /\ worker \in WorkerType
    /\ worker.at = "await" <=> worker.spawned # NoPid
    /\ worker.doing # "shutdown"
    /\ worker.at \in {"spawn", "await"} => worker.doing = "start" /\ worker.runtime = NoService
    /\ worker.at = "spawn" => Sane(worker.args) /\ worker.args.discover
    /\ worker.heard # NoLine => worker.at = "await"
    /\ worker.runtime.child = NoPid => worker.runtime = NoService
    /\ worker.runtime.child # NoPid => worker.runtime.info # NoLine
    /\ worker.at \in {"boot", "idle", "ended"} => worker.doing = "none"
    /\ worker.at \in {"boot", "ended"} => worker.runtime.child = NoPid
    /\ worker.at \in {"post", "poll"} => worker.doing = "disconnect"
    /\ worker.at \in {"fetch", "post", "poll"} => worker.runtime.child # NoPid
    /\ worker.at = "finish" => worker.doing \in Activities \cup {"poll"}
    /\ worker.doing = "stop" => worker.at \in {"report", "finish"} /\ worker.runtime.child = NoPid
    /\ ~worker.ok => /\ worker.at \in {"report", "finish"}
                     /\ worker.doing \in {"start", "disconnect"}
                     /\ worker.doing = "start" => worker.runtime.child = NoPid

\* The processes that there are, and what the worker has heard of them.
Children ==
    \A p \in Pids :
        /\ procs[p].at # "free" => p \in {worker.runtime.child, worker.spawned}
        /\ Alive(p) /\ p = worker.spawned /\ worker.heard # NoLine =>
              procs[p].at \in Announced /\ worker.heard = ReadyLine(procs[p])
        /\ Alive(p) /\ p = worker.runtime.child =>
              procs[p].at \in Announced /\ worker.runtime.info = ReadyLine(procs[p])

ChannelsOK ==
    /\ commands \in Seq([kind : CommandKinds, args : Option])
    /\ events \in Seq([kind : EventKinds, snapshot : Snapshot, ok : BOOLEAN])
    /\ \A i \in DOMAIN commands : commands[i].kind = "start" =>
          Sane(commands[i].args) /\ commands[i].args.discover

WindowOK ==
    /\ shown \in Snapshot /\ activity \in Activities \cup {"idle"}
    /\ pollPending \in BOOLEAN /\ clicks \in 0 .. MaxClicks
    /\ settings \in Setting /\ Sane(settings)
    /\ window \in {"open", "joining", "closing", "closed"}
    /\ window \in {"closing", "closed"} => worker.at = "ended"

\* The snapshots the window shows or will have read.
Known == {shown} \cup {events[i].snapshot : i \in Snapshots}

Whole == \A s \in Known : s.running <=> s.info # NoLine

\* The last of them is behind the worker only while it works.
UpToDate ==
    window = "open" =>
        /\ worker.at \in {"idle", "finish"} => Pumped = SnapshotOf(worker.runtime)
        /\ worker.runtime.child # NoPid
              /\ ~(worker.doing = "start" /\ worker.at \in {"fetch", "report"}) =>
              Pumped.running

\* None of them is of an earlier service.
NoneOlder ==
    /\ worker.runtime.child # NoPid =>
          \A s \in Known : s.info \in {NoLine, worker.runtime.info}
    /\ worker.at # "ended"
          /\ (Of(commands, "start") # {} \/ worker.at \in {"spawn", "await"}) =>
          worker.runtime.child = NoPid /\ \A s \in Known : s.info = NoLine

DesktopInv ==
    /\ ProcessesOK /\ procs \in [Pids -> Process] /\ lan \subseteq Addresses
    /\ WorkerOK /\ Children /\ ChannelsOK /\ WindowOK
    /\ Whole /\ UpToDate /\ NoneOlder
    /\ BusyWhileOwed /\ ReportsAreTrue

-----------------------------------------------------------------------------
(* Queues.                                                                 *)

\* A queue with one element more.
LEMMA Appended ==
  ASSUME NEW S, NEW q \in Seq(S), NEW e \in S
  PROVE  /\ DOMAIN Append(q, e) = DOMAIN q \cup {Len(q) + 1} /\ Len(q) + 1 \notin DOMAIN q
         /\ Append(q, e)[Len(q) + 1] = e /\ Append(q, e) \in Seq(S)
         /\ \A i \in DOMAIN q : Append(q, e)[i] = q[i]
OBVIOUS

\* Nothing is in an empty queue.
LEMMA OfEmpty ==
  ASSUME NEW k
  PROVE  Of(<<>>, k) = {} /\ Cardinality(Of(<<>>, k)) = 0
BY FS_EmptySet DEF Of

\* The elements of a kind can be counted.
LEMMA OfFinite ==
  ASSUME NEW S, NEW q \in Seq(S), NEW k
  PROVE  /\ IsFiniteSet(Of(q, k)) /\ Cardinality(Of(q, k)) \in Nat
         /\ Cardinality(Of(q, k)) = 0 <=> \A i \in DOMAIN q : q[i].kind # k
<1>1. Of(q, k) \subseteq 1 .. Len(q)
  BY DEF Of
<1>2. IsFiniteSet(1 .. Len(q))
  BY FS_Interval
<1>3. IsFiniteSet(Of(q, k)) /\ Cardinality(Of(q, k)) \in Nat
  BY <1>1, <1>2, FS_Subset, FS_CardinalityType
<1>4. Cardinality(Of(q, k)) = 0 <=> Of(q, k) = {}
  BY <1>3, FS_EmptySet
<1>5. Of(q, k) = {} <=> \A i \in DOMAIN q : q[i].kind # k
  BY DEF Of
<1> QED
  BY <1>3, <1>4, <1>5

\* Appending adds one of its own kind ...
LEMMA OfAppend ==
  ASSUME NEW S, NEW q \in Seq(S), NEW e \in S, NEW k
  PROVE  Cardinality(Of(Append(q, e), k)) =
             Cardinality(Of(q, k)) + (IF e.kind = k THEN 1 ELSE 0)
<1> DEFINE new == Of(Append(q, e), k)
<1>1. /\ DOMAIN Append(q, e) = DOMAIN q \cup {Len(q) + 1} /\ Len(q) + 1 \notin DOMAIN q
      /\ Append(q, e)[Len(q) + 1] = e
      /\ \A i \in DOMAIN q : Append(q, e)[i] = q[i]
  BY Appended
<1>2. CASE e.kind = k
  <2>1. new = Of(q, k) \cup {Len(q) + 1} /\ Len(q) + 1 \notin Of(q, k)
    BY <1>1, <1>2 DEF Of
  <2> QED
    BY <2>1, <1>2, OfFinite, FS_AddElement
<1>3. CASE e.kind # k
  <2>1. new = Of(q, k)
    BY <1>1, <1>3 DEF Of
  <2> QED
    BY <2>1, <1>3, OfFinite
<1> QED
  BY <1>2, <1>3

\* ... and taking the head removes one.
LEMMA OfTail ==
  ASSUME NEW S, NEW q \in Seq(S), q # <<>>, NEW k
  PROVE  Cardinality(Of(q, k)) =
             Cardinality(Of(Tail(q), k)) + (IF Head(q).kind = k THEN 1 ELSE 0)
<1> DEFINE old == Of(q, k) \ {1}
           new == Of(Tail(q), k)
           back == [i \in new |-> i + 1]
<1>1. /\ Len(q) \in Nat \ {0} /\ Tail(q) \in Seq(S)
      /\ DOMAIN q = 1 .. Len(q) /\ DOMAIN Tail(q) = 1 .. Len(q) - 1
      /\ \A i \in 1 .. Len(q) - 1 : Tail(q)[i] = q[i + 1]
      /\ Head(q) = q[1]
  OBVIOUS
<1>2. back \in Bijection(new, old)
  <2>1. back \in [new -> old]
    BY <1>1 DEF Of
  <2>2. \A i, j \in new : back[i] = back[j] => i = j
    BY <1>1 DEF Of
  <2>3. ASSUME NEW j \in old PROVE \E i \in new : back[i] = j
    <3>1. j - 1 \in new
      BY <1>1 DEF Of
    <3>2. back[j - 1] = j
      BY <1>1, <3>1 DEF Of
    <3> QED
      BY <3>1, <3>2
  <2> QED
    BY <2>1, <2>2, <2>3 DEF Bijection, Injection, Surjection, IsInjective
<1>3. IsFiniteSet(new) /\ IsFiniteSet(Of(q, k))
  BY <1>1, OfFinite
<1>4. Cardinality(old) = Cardinality(new) /\ Cardinality(new) \in Nat
  BY <1>2, <1>3, FS_Bijection, FS_CardinalityType DEF ExistsBijection
<1>5. /\ Cardinality(Of(q, k) \ {1}) = Cardinality(Of(Tail(q), k))
      /\ Cardinality(Of(Tail(q), k)) \in Nat
  BY <1>4
<1> HIDE DEF old, new, back
<1>6. CASE Head(q).kind = k
  <2>1. 1 \in Of(q, k)
    BY <1>1, <1>6 DEF Of
  <2>2. Cardinality(Of(q, k) \ {1}) = Cardinality(Of(q, k)) - 1
    BY <2>1, <1>3, FS_RemoveElement
  <2>3. Cardinality(Of(q, k)) \in Nat
    BY <1>3, FS_CardinalityType
  <2> QED
    BY <2>2, <2>3, <1>5, <1>6
<1>7. CASE Head(q).kind # k
  <2>1. Of(q, k) \ {1} = Of(q, k)
    BY <1>1, <1>7 DEF Of
  <2>2. Cardinality(Of(q, k)) = Cardinality(Of(Tail(q), k))
    BY <2>1, <1>5, Zenon
  <2> QED
    BY <2>2, <1>5, <1>7
<1> QED
  BY <1>6, <1>7

-----------------------------------------------------------------------------
(* Steps of the service processes.                                         *)

\* What depends on the channels, the worker and the window only.
LEMMA OthersKeep ==
  ASSUME DesktopInv, UNCHANGED <<workerVars, uiVars>>
  PROVE  (WorkerOK /\ ChannelsOK /\ WindowOK /\ Whole /\ UpToDate /\ NoneOlder /\ BusyWhileOwed)'
<1> USE DEF workerVars, uiVars, DesktopInv
<1>1. WorkerOK'
  BY DEF WorkerOK
<1>2. ChannelsOK' /\ WindowOK'
  BY DEF ChannelsOK, WindowOK
<1>3. Snapshots' = Snapshots /\ Known' = Known /\ Pumped' = Pumped
  BY DEF Snapshots, Known, Pumped, LastSnapshot
<1>4. Whole'
  BY <1>3 DEF Whole
<1>5. UpToDate'
  BY <1>3 DEF UpToDate, SnapshotOf
<1>6. NoneOlder'
  BY <1>3 DEF NoneOlder, Of
<1>7. BusyWhileOwed'
  BY DEF BusyWhileOwed, Owed, Of
<1> QED
  BY <1>1, <1>2, <1>4, <1>5, <1>6, <1>7

\* A process may go on or end, and keeps what it has announced while it lives.
LEMMA ProcessStep ==
  ASSUME DesktopInv, NEW p \in Pids, NEW proc, Become(p, proc), UNCHANGED <<workerVars, uiVars>>,
         procs[p].at # "free", proc.at # "free", ProcessOK(proc),
         proc.at # "zombie" =>
             /\ procs[p].at # "zombie"
             /\ procs[p].at \in Announced =>
                   proc.at \in Announced /\ ReadyLine(proc) = ReadyLine(procs[p])
  PROVE  DesktopInv'
<1>1. /\ procs' = [procs EXCEPT ![p] = proc] /\ procs \in [Pids -> Process]
      /\ procs'[p] = proc /\ \A q \in Pids \ {p} : procs'[q] = procs[q]
  BY DEF Become, DesktopInv
<1>2. ProcessesOK' /\ procs' \in [Pids -> Process]
  BY <1>1 DEF DesktopInv, ProcessesOK, ProcessOK, ReadyLine
<1>5. (lan \subseteq Addresses)'
  BY DEF DesktopInv, Become
<1>3. Children'
  BY <1>1 DEF DesktopInv, Children, Alive, workerVars
<1>4. ReportsAreTrue'
  BY DEF DesktopInv, ReportsAreTrue, workerVars
<1> QED
  BY <1>2, <1>3, <1>4, <1>5, OthersKeep DEF DesktopInv

\* A process ends and stays a zombie.
LEMMA ExitKeeps ==
  ASSUME DesktopInv, NEW p \in Pids, Exit(p), UNCHANGED <<workerVars, uiVars>>, Alive(p)
  PROVE  DesktopInv'
<1> DEFINE old == procs[p]
           new == Zombie(old)
<1>1. ProcessOK(old) /\ Become(p, new) /\ old.at # "free"
  BY DEF DesktopInv, ProcessesOK, Exit, Alive
<1>5. NoOption \in Option /\ NoPort \in 0 .. LastPort + 1
  BY StartAssumption DEF NoOption, Option, NoPort
<1>6. old.line \in Info \cup {NoLine}
  BY <1>1 DEF ProcessOK, Process
<1>2. new \in Process
  BY <1>5, <1>6 DEF Process, Zombie, Free, Places
<1>3. new.at = "zombie"
  BY DEF Zombie, Free
<1>4. ProcessOK(new)
  BY <1>2, <1>3 DEF ProcessOK, Announced
<1> HIDE DEF new
<1> QED
  BY <1>1, <1>3, <1>4, ProcessStep

\* A step of a living process, from a stage before "ending line".
LEMMA StartStep ==
  ASSUME DesktopInv, NEW p \in Pids, NEW proc, Become(p, proc), UNCHANGED <<workerVars, uiVars>>,
         procs[p].at \in {"options", "control", "discovery", "announcing"},
         ProcessOK(proc), proc.at \notin {"free", "zombie"}
  PROVE  DesktopInv'
BY ProcessStep DEF Announced

\* Every step of main.rs up to axum::serve.
LEMMA StartsKeep ==
  ASSUME DesktopInv, NEW p \in Pids, Starts(p), UNCHANGED <<workerVars, uiVars>>
  PROVE  DesktopInv'
<1> DEFINE old == procs[p]
<1>0. ProcessOK(old) /\ old \in Process
  BY DEF DesktopInv, ProcessesOK, ProcessOK
<1>1. CASE ReadOptions(p)
  <2>0. old.at = "options" /\ Sane(old.options) /\ old.options.discover /\ old.options \in Option
    BY <1>0, <1>1 DEF ReadOptions, ProcessOK, Process
  <2>7. /\ Greater(old.options.controlStart, old.options.controlEnd) = old.options.controlEnd
        /\ Greater(old.options.discoveryStart, old.options.discoveryEnd)
              = old.options.discoveryEnd
    BY <2>0, StartAssumption DEF Sane, Greater, Option
  <2>1. Valid(old.options) /\ Validated(old.options) = old.options
    BY <2>0, <2>7 DEF Sane, Valid, Validated, Option
  <2> DEFINE new == [old EXCEPT !.at = "control", !.options = Validated(@),
                                !.try = old.options.controlStart]
  <2>2. Become(p, new)
    BY <1>1, <2>1 DEF ReadOptions
  <2>3. new = [old EXCEPT !.at = "control", !.try = old.options.controlStart]
    BY <1>0, <2>1 DEF Process
  <2>8. old.options.controlStart \in 0 .. LastPort + 1
    BY <2>0, StartAssumption DEF Option
  <2>4. new \in Process
    BY <1>0, <2>3, <2>8 DEF Process, Places
  <2>5. new.at = "control" /\ new.options = old.options /\ new.try = old.options.controlStart
        /\ new.line = old.line
    BY <1>0, <2>3 DEF Process
  <2> HIDE DEF new
  <2>6. ProcessOK(new)
    BY <1>0, <2>0, <2>4, <2>5, StartAssumption DEF ProcessOK, Option, Announced
  <2> QED
    BY <2>0, <2>2, <2>5, <2>6, StartStep
<1>2. CASE BindControl(p)
  <2> DEFINE new(address) ==
        [old EXCEPT
            !.at = IF old.options.discover THEN "discovery" ELSE "announcing",
            !.control = old.try, !.address = address,
            !.try = IF old.options.discover THEN old.options.discoveryStart ELSE NoPort]
  <2>1. PICK address \in DetectLanIp : Become(p, new(address))
    BY <1>2 DEF BindControl
  <2>2. address \in Addresses \cup {Loopback}
    BY <2>1 DEF DetectLanIp, HostnameIps, BestLanIp, DesktopInv
  <2>3. /\ old.at = "control" /\ Sane(old.options) /\ old.options.discover
        /\ old.options \in Option /\ old.try <= old.options.controlEnd
        /\ old.options.controlStart <= old.try
        /\ old.try \in 0 .. LastPort + 1 /\ old.line = NoLine
    BY <1>0, <1>2 DEF BindControl, TrialLeft, ProcessOK, Process, Announced
  <2> DEFINE next == [old EXCEPT !.at = "discovery", !.control = old.try, !.address = address,
                                 !.try = old.options.discoveryStart]
  <2>4. Become(p, next)
    BY <2>1, <2>3
  <2>5. old.try \in Ports /\ old.options.discoveryStart \in 0 .. LastPort + 1
    BY <2>3, StartAssumption DEF Sane, Option, Ports
  <2>6. next \in Process
    BY <1>0, <2>2, <2>5 DEF Process, Places
  <2>7. /\ next.at = "discovery" /\ next.options = old.options /\ next.control = old.try
        /\ next.try = old.options.discoveryStart /\ next.line = NoLine
    BY <1>0, <2>3 DEF Process
  <2> HIDE DEF next
  <2>8. ProcessOK(next)
    BY <2>3, <2>5, <2>6, <2>7, StartAssumption DEF ProcessOK, Option, Announced
  <2> QED
    BY <2>3, <2>4, <2>7, <2>8, StartStep
<1>3. CASE BindDiscovery(p)
  <2> DEFINE new == [old EXCEPT !.at = "announcing", !.discovery = old.try, !.try = NoPort]
  <2>1. Become(p, new)
    BY <1>3 DEF BindDiscovery
  <2>2. /\ old.at = "discovery" /\ Sane(old.options) /\ old.options.discover
        /\ old.options \in Option /\ old.try <= old.options.discoveryEnd
        /\ old.options.discoveryStart <= old.try
        /\ old.try \in 0 .. LastPort + 1 /\ old.line = NoLine
        /\ old.control \in old.options.controlStart .. old.options.controlEnd
    BY <1>0, <1>3 DEF BindDiscovery, TrialLeft, ProcessOK, Process, Announced
  <2>3. old.try \in Ports
    BY <2>2, StartAssumption DEF Sane, Option, Ports
  <2>7. NoPort \in 0 .. LastPort + 1
    BY StartAssumption DEF NoPort
  <2>4. new \in Process
    BY <1>0, <2>3, <2>7 DEF Process, Places
  <2>5. /\ new.at = "announcing" /\ new.options = old.options /\ new.control = old.control
        /\ new.discovery = old.try /\ new.line = NoLine
    BY <1>0, <2>2 DEF Process
  <2> HIDE DEF new
  <2>6. ProcessOK(new)
    BY <2>2, <2>3, <2>4, <2>5, StartAssumption DEF ProcessOK, Option, Announced
  <2> QED
    BY <2>1, <2>2, <2>5, <2>6, StartStep
<1>4. CASE TryNext(p)
  <2> DEFINE new == [old EXCEPT !.try = @ + 1]
  <2>1. Become(p, new)
    BY <1>4 DEF TryNext
  <2>2. /\ old.at \in {"control", "discovery"} /\ old.options \in Option
        /\ old.try \in 0 .. LastPort + 1
        /\ old.at = "control" => old.try <= old.options.controlEnd
        /\ old.at = "discovery" => old.try <= old.options.discoveryEnd
    BY <1>0, <1>4 DEF TryNext, TrialLeft, Process
  <2>3. old.try + 1 \in 0 .. LastPort + 1
    BY <2>2, StartAssumption DEF Option
  <2>4. new \in Process
    BY <1>0, <2>3 DEF Process
  <2>5. /\ new.at = old.at /\ new.options = old.options /\ new.control = old.control
        /\ new.try = old.try + 1 /\ new.line = old.line
    BY <1>0 DEF Process
  <2> HIDE DEF new
  <2>7. /\ Sane(old.options) /\ old.options.discover
        /\ old.at = "control" => old.options.controlStart <= old.try
        /\ old.at = "discovery" => old.options.discoveryStart <= old.try
        /\ old.at = "discovery" =>
              old.control \in old.options.controlStart .. old.options.controlEnd
        /\ old.line = NoLine
    BY <1>0, <2>2 DEF ProcessOK, Announced
  <2>8. /\ old.at = "control" => old.options.controlStart <= old.try + 1
        /\ old.at = "discovery" => old.options.discoveryStart <= old.try + 1
    BY <2>2, <2>7, StartAssumption DEF Option
  <2>6. ProcessOK(new)
    BY <2>2, <2>4, <2>5, <2>7, <2>8 DEF ProcessOK, Announced
  <2> QED
    BY <2>1, <2>2, <2>5, <2>6, StartStep
<1>5. CASE Announce(p)
  <2> DEFINE new == [old EXCEPT !.at = "ending line", !.line = ReadyLine(old)]
  <2>1. Become(p, new) /\ old.at = "announcing"
    BY <1>5 DEF Announce
  <2>2. Sane(old.options) /\ old.options.discover /\ old.options \in Option
        /\ old.control \in old.options.controlStart .. old.options.controlEnd
        /\ old.discovery \in old.options.discoveryStart .. old.options.discoveryEnd
        /\ old.address \in Addresses \cup {Loopback}
    BY <1>0, <2>1 DEF ProcessOK, Process
  <2>3. old.control \in Ports /\ old.discovery \in Ports
    BY <2>2, StartAssumption DEF Sane, Option, Ports
  <2>4. ReadyLine(old) \in Info
    BY <2>2, <2>3 DEF ReadyLine, Info
  <2>5. new \in Process
    BY <1>0, <2>4 DEF Process, Places
  <2>6. /\ new.at = "ending line" /\ new.options = old.options /\ new.control = old.control
        /\ new.discovery = old.discovery /\ new.line = ReadyLine(old)
        /\ new.address = old.address
    BY <1>0 DEF Process
  <2>7. ReadyLine(new) = ReadyLine(old)
    BY <2>6 DEF ReadyLine
  <2> HIDE DEF new
  <2>8. ProcessOK(new)
    BY <2>2, <2>5, <2>6, <2>7 DEF ProcessOK, Announced
  <2> QED
    BY <2>1, <2>6, <2>8, StartStep
<1>6. CASE Serve(p)
  <2> DEFINE new == [old EXCEPT !.at = "serving", !.read = FALSE]
  <2>1. Become(p, new) /\ old.at = "ending line"
    BY <1>6 DEF Serve
  <2>2. new \in Process
    BY <1>0 DEF Process, Places
  <2>3. /\ new.at = "serving" /\ new.options = old.options /\ new.control = old.control
        /\ new.discovery = old.discovery /\ new.line = old.line
        /\ new.address = old.address
    BY <1>0 DEF Process
  <2>4. ReadyLine(new) = ReadyLine(old)
    BY <2>3 DEF ReadyLine
  <2> HIDE DEF new
  <2>5. ProcessOK(new)
    BY <1>0, <2>1, <2>2, <2>3, <2>4 DEF ProcessOK, Announced
  <2> QED
    BY <2>1, <2>3, <2>4, <2>5, ProcessStep DEF Announced
<1>7. CASE NoneAvailable(p) \/ PipeBroken(p)
  BY <1>7, ExitKeeps DEF NoneAvailable, PipeBroken, Alive
<1> QED
  BY <1>1, <1>2, <1>3, <1>4, <1>5, <1>6, <1>7 DEF Starts

\* Every step of the processes and of what is around them.
LEMMA SurroundingsKeep ==
  ASSUME DesktopInv, Surroundings, UNCHANGED <<workerVars, uiVars>>
  PROVE  DesktopInv'
<1>1. ASSUME NEW p \in Pids, Starts(p) PROVE DesktopInv'
  BY <1>1, StartsKeep
<1>2. ASSUME NEW p \in Pids, Dies(p) PROVE DesktopInv'
  BY <1>2, ExitKeeps DEF Dies
<1>3. ASSUME NEW p \in Pids, PhoneChanges(p) PROVE DesktopInv'
  <2> DEFINE old == procs[p]
             new == [old EXCEPT !.phone = ~@]
  <2>1. Become(p, new)
    BY <1>3 DEF PhoneChanges
  <2>2. old.at = "serving" /\ ProcessOK(old) /\ old \in Process
    BY <1>3 DEF PhoneChanges, DesktopInv, ProcessesOK, ProcessOK
  <2>3. new \in Process
    BY <2>2 DEF Process
  <2>4. /\ new.at = old.at /\ new.options = old.options /\ new.control = old.control
        /\ new.discovery = old.discovery /\ new.line = old.line /\ new.try = old.try
        /\ new.address = old.address
    BY <2>2 DEF Process
  <2>5. ReadyLine(new) = ReadyLine(old)
    BY <2>4 DEF ReadyLine
  <2> HIDE DEF new
  <2>6. ProcessOK(new)
    BY <2>2, <2>3, <2>4, <2>5 DEF ProcessOK
  <2> QED
    BY <2>1, <2>2, <2>4, <2>5, <2>6, ProcessStep DEF Announced
<1>4. ASSUME UNCHANGED <<procs, lan>> PROVE DesktopInv'
  <2>1. ProcessesOK' /\ (procs \in [Pids -> Process])' /\ (lan \subseteq Addresses)'
    BY <1>4 DEF DesktopInv, ProcessesOK
  <2>2. Children' /\ ReportsAreTrue'
    BY <1>4 DEF DesktopInv, Children, ReportsAreTrue, Alive, workerVars
  <2> QED
    BY <2>1, <2>2, OthersKeep DEF DesktopInv
<1> QED
  BY <1>1, <1>2, <1>3, <1>4 DEF Surroundings, OpensSocket, ClosesSocket

-----------------------------------------------------------------------------
(* The snapshots on their way.                                             *)

\* A set of positions in a queue has a last one.
LEMMA LastExists ==
  ASSUME NEW n \in Nat, NEW P, P \subseteq 1 .. n, P # {}
  PROVE  \E i \in P : \A j \in P : j <= i
<1> DEFINE after(i) == {j \in P : j > i}
           tails == {after(i) : i \in P}
<1>1. IsFiniteSet(P) /\ \A j \in P : j \in Nat
  <2>1. 1 \in Int /\ n \in Int
    OBVIOUS
  <2>2. IsFiniteSet(1 .. n)
    BY <2>1, FS_Interval
  <2>3. IsFiniteSet(P)
    BY <2>2, FS_Subset
  <2>4. \A j \in P : j \in Nat
    OBVIOUS
  <2> QED
    BY <2>3, <2>4
<1>2. IsWellFoundedOn(StrictSubsetOrdering(P), SUBSET P)
  BY <1>1, FS_StrictSubsetOrderingWellFounded, FS_FiniteSubsetsOfFinite
<1>3. tails \subseteq SUBSET P /\ tails # {}
  OBVIOUS
<1>4. \E least \in tails : \A t \in tails : ~(<<t, least>> \in StrictSubsetOrdering(P))
  <2> HIDE DEF tails
  <2> QED
    BY <1>2, <1>3, WFMin
<1>5. PICK i \in P : \A t \in tails : ~(<<t, after(i)>> \in StrictSubsetOrdering(P))
  BY <1>4
<1>6. ASSUME NEW j \in P, j > i PROVE FALSE
  <2>3. i \in Nat /\ j \in Nat /\ ~(j > j) /\ \A k \in Nat : k > j => k > i
    BY <1>1, <1>6
  <2>1. after(j) \subseteq after(i) /\ j \in after(i) /\ j \notin after(j)
    BY <1>1, <1>6, <2>3, Zenon
  <2>2. after(j) \in tails /\ after(i) \in SUBSET P /\ after(j) \in SUBSET P
    OBVIOUS
  <2> HIDE DEF after, tails
  <2>4. <<after(j), after(i)>> \in StrictSubsetOrdering(P)
    BY <2>1, <2>2 DEF StrictSubsetOrdering
  <2> QED
    BY <2>2, <2>4, <1>5
<1> QED
  BY <1>1, <1>6

EventType == [kind : EventKinds, snapshot : Snapshot, ok : BOOLEAN]

\* LastSnapshot is well defined.
LEMMA LastInSnapshots ==
  ASSUME events \in Seq(EventType), Snapshots # {}
  PROVE  LastSnapshot \in Snapshots /\ \A j \in Snapshots : j <= LastSnapshot
<1>1. Snapshots \subseteq 1 .. Len(events) /\ Len(events) \in Nat
  BY DEF Snapshots
<1>2. \E i \in Snapshots : \A j \in Snapshots : j <= i
  BY <1>1, LastExists
<1> QED
  BY <1>2 DEF LastSnapshot

\* What the window will have read is of a known snapshot.
LEMMA PumpedKnown ==
  ASSUME events \in Seq(EventType), shown \in Snapshot
  PROVE  Pumped \in Known /\ Known \subseteq Snapshot
<1>1. \A i \in DOMAIN events : events[i] \in EventType
  OBVIOUS
<1>2. \A i \in Snapshots : events[i].snapshot \in Snapshot
  BY <1>1 DEF Snapshots, EventType
<1> QED
  BY <1>2, LastInSnapshots DEF Pumped, Known

\* A snapshot sent is the last one; ...
LEMMA SnapshotSent ==
  ASSUME events \in Seq(EventType), NEW s \in Snapshot, UNCHANGED shown,
         events' = Append(events, Event("snapshot", s, TRUE))
  PROVE  Pumped' = s /\ Known' = Known \cup {s}
<1> DEFINE e == Event("snapshot", s, TRUE)
<1>0. e \in EventType /\ e.kind = "snapshot" /\ e.snapshot = s
  BY DEF EventType, Event, EventKinds
<1> HIDE DEF e
<1>1. /\ DOMAIN events' = DOMAIN events \cup {Len(events) + 1} /\ Len(events) + 1 \notin DOMAIN events
      /\ events'[Len(events) + 1] = e
      /\ \A i \in DOMAIN events : events'[i] = events[i]
      /\ \A i \in DOMAIN events : i <= Len(events) /\ i \in Nat
      /\ Len(events) \in Nat
  <2>1. events' = Append(events, e)
    BY DEF e
  <2>2. /\ \A i \in DOMAIN events : i <= Len(events) /\ i \in Nat
        /\ Len(events) \in Nat
    OBVIOUS
  <2>3. /\ DOMAIN events' = DOMAIN events \cup {Len(events) + 1}
        /\ events'[Len(events) + 1] = e
        /\ \A i \in DOMAIN events : events'[i] = events[i]
    <3>1. /\ DOMAIN Append(events, e) = DOMAIN events \cup {Len(events) + 1}
          /\ Append(events, e)[Len(events) + 1] = e
          /\ \A i \in DOMAIN events : Append(events, e)[i] = events[i]
      BY <1>0, Appended
    <3> QED
      BY <2>1, <3>1, Zenon
  <2>4. Len(events) + 1 \notin DOMAIN events
    OBVIOUS
  <2> QED
    BY <2>2, <2>3, <2>4
<1>2. Snapshots' = Snapshots \cup {Len(events) + 1}
  BY <1>0, <1>1 DEF Snapshots
<1>3. Known' = Known \cup {s}
  <2>1. \A i \in Snapshots : events'[i] = events[i]
    BY <1>1 DEF Snapshots
  <2>2. {events'[i].snapshot : i \in Snapshots'}
            = {events'[i].snapshot : i \in Snapshots} \cup {s}
    <3>1. events'[Len(events) + 1].snapshot = s
      BY <1>0, <1>1
    <3> DEFINE of(i) == events'[i].snapshot
    <3>2. of(Len(events) + 1) = s
      BY <3>1
    <3> HIDE DEF of
    <3>3. {of(i) : i \in Snapshots'} = {of(i) : i \in Snapshots} \cup {s}
      BY <3>2, <1>2
    <3> QED
      BY <3>3 DEF of
  <2>3. {events'[i].snapshot : i \in Snapshots} = {events[i].snapshot : i \in Snapshots}
    BY <2>1
  <2> QED
    BY <2>2, <2>3 DEF Known
<1>4. LastSnapshot' \in Snapshots' /\ \A j \in Snapshots' : j <= LastSnapshot'
  <2>1. \A j \in Snapshots' : j <= Len(events) + 1
    <3>1. \A i \in Snapshots : i \in Nat /\ i <= Len(events)
      BY <1>1 DEF Snapshots
    <3> QED
      BY <3>1, <1>1, <1>2
  <2> QED
    BY <2>1, <1>2 DEF LastSnapshot
<1>5. LastSnapshot' = Len(events) + 1
  <2> DEFINE last == LastSnapshot'
  <2>1. last \in Snapshots \cup {Len(events) + 1} /\ Len(events) + 1 <= last
    BY <1>2, <1>4
  <2>2. \A i \in Snapshots : i \in Nat /\ i <= Len(events)
    BY <1>1 DEF Snapshots
  <2> HIDE DEF last
  <2>3. last = Len(events) + 1
    BY ONLY <2>1, <2>2, <1>1
  <2> QED
    BY <2>3 DEF last
<1> QED
  BY <1>0, <1>1, <1>2, <1>3, <1>5 DEF Pumped

\* ... any other event changes nothing about them.
LEMMA ReportSent ==
  ASSUME events \in Seq(EventType), NEW e \in EventType, e.kind # "snapshot", UNCHANGED shown,
         events' = Append(events, e)
  PROVE  Pumped' = Pumped /\ Known' = Known
<1>1. /\ DOMAIN events' = DOMAIN events \cup {Len(events) + 1}
      /\ events'[Len(events) + 1] = e
      /\ \A i \in DOMAIN events : events'[i] = events[i]
  OBVIOUS
<1>2. Snapshots' = Snapshots
  BY <1>1 DEF Snapshots
<1>3. \A i \in Snapshots : events'[i] = events[i]
  BY <1>1 DEF Snapshots
<1>4. LastSnapshot' = LastSnapshot
  BY <1>2 DEF LastSnapshot
<1>5. Pumped' = Pumped
  <2>1. CASE Snapshots = {}
    BY <2>1, <1>2 DEF Pumped
  <2>2. CASE Snapshots # {}
    BY <2>2, <1>2, <1>3, <1>4, LastInSnapshots DEF Pumped
  <2> QED
    BY <2>1, <2>2
<1>6. Known' = Known
  BY <1>2, <1>3 DEF Known
<1> QED
  BY <1>5, <1>6

\* Once all is read, the window shows the last one.
LEMMA AllRead ==
  ASSUME events' = <<>>, shown' = Pumped
  PROVE  Pumped' = Pumped /\ Known' = {Pumped} /\ events' \in Seq(EventType)
<1>1. Snapshots' = {} /\ events' \in Seq(EventType)
  BY DEF Snapshots
<1> QED
  BY <1>1 DEF Pumped, Known

-----------------------------------------------------------------------------
(* What the worker does with its child.                                    *)

\* A process that is gone.
LEMMA FreeOK == ProcessOK(Free) /\ Free.at = "free"
<1>1. NoOption \in Option /\ NoPort \in 0 .. LastPort + 1
  BY StartAssumption DEF NoOption, Option, NoPort
<1>2. Free \in Process
  BY <1>1 DEF Process, Free, Places
<1> QED
  BY <1>2 DEF Free, ProcessOK, Announced

\* Killing leaves sound processes ...
LEMMA WithoutOK ==
  ASSUME ProcessesOK, procs \in [Pids -> Process], NEW p \in Pids \cup {NoPid}
  PROVE  /\ Without(p) \in [Pids -> Process]
         /\ \A q \in Pids : Without(p)[q] = IF q = p THEN Free ELSE procs[q]
         /\ \A q \in Pids : ProcessOK(Without(p)[q])
<1>1. Free \in Process /\ ProcessOK(Free)
  BY FreeOK DEF ProcessOK
<1>2. CASE p = NoPid
  <2>1. Without(p) = procs /\ p \notin Pids
    BY <1>2, WorkerAssumption DEF Without
  <2> QED
    BY <2>1 DEF ProcessesOK
<1>3. CASE p \in Pids
  <2>1. Without(p) = [procs EXCEPT ![p] = Free]
    BY <1>3, WorkerAssumption DEF Without
  <2> HIDE DEF Without
  <2>2. Without(p) \in [Pids -> Process]
    BY <2>1, <1>1
  <2>3. \A q \in Pids : Without(p)[q] = IF q = p THEN Free ELSE procs[q]
    BY <2>1
  <2> QED
    BY <2>2, <2>3, <1>1 DEF ProcessesOK
<1> QED
  BY <1>2, <1>3

\* ... and so does waiting for one that may have ended.
LEMMA ReapedOK ==
  ASSUME ProcessesOK, procs \in [Pids -> Process], NEW p \in Pids \cup {NoPid}
  PROVE  /\ Reaped(p) \in [Pids -> Process]
         /\ \A q \in Pids : Reaped(p)[q] =
               IF q = p /\ procs[p].at = "zombie" THEN Free ELSE procs[q]
         /\ \A q \in Pids : ProcessOK(Reaped(p)[q])
<1>1. CASE Exited(p)
  <2>1. procs[p].at = "zombie" /\ Reaped(p) = Without(p)
    BY <1>1 DEF Exited, Reaped
  <2> QED
    BY <2>1, WithoutOK
<1>2. CASE ~Exited(p)
  <2>1. Reaped(p) = procs
    BY <1>2 DEF Reaped
  <2>2. p \in Pids => procs[p].at # "zombie"
    BY <1>2, WorkerAssumption DEF Exited
  <2> QED
    BY <2>1, <2>2 DEF ProcessesOK
<1> QED
  BY <1>1, <1>2

\* A runtime that knows either a child and its ready line or nothing.
Settled(r) ==
    /\ r \in Runtime
    /\ r.child = NoPid => r = NoService
    /\ r.child # NoPid => r.info # NoLine

\* Without a service there is nothing known.
LEMMA NothingSettled == Settled(NoService) /\ NoService.info = NoLine /\ NoService.child = NoPid
BY DEF Settled, NoService, Runtime, Status

\* A poll asks a child that has not ended, and forgets one that has.
LEMMA PollOK ==
  ASSUME NEW w, Settled(w.runtime)
  PROVE  /\ Settled(Reap(w.runtime))
         /\ Reap(w.runtime) = IF Exited(w.runtime.child) THEN NoService ELSE w.runtime
         /\ Poll(w) = [w EXCEPT
                !.at = IF Reap(w.runtime).child = NoPid THEN "report" ELSE "fetch",
                !.runtime = Reap(w.runtime)]
<1> DEFINE left == Reap(w.runtime)
<1>1. Settled(left) /\ left = IF Exited(w.runtime.child) THEN NoService ELSE w.runtime
  BY NothingSettled DEF Reap
<1>2. left.child = NoPid <=> left.info = NoLine
  BY <1>1, NothingSettled DEF Settled
<1>3. CASE left.info = NoLine
  <2>1. left = NoService
    BY <1>1, <1>2, <1>3 DEF Settled
  <2>2. [left EXCEPT !.status = "none", !.error = FALSE] = left
    <3>1. [NoService EXCEPT !.status = "none", !.error = FALSE] = NoService
      <4>1. NoService \in Runtime /\ NoService.status = "none" /\ NoService.error = FALSE
        BY NothingSettled DEF NoService, Settled
      <4> QED
        BY <4>1 DEF Runtime
    <3> HIDE DEF left
    <3> QED
      BY <2>1, <3>1
  <2> HIDE DEF left
  <2>3. Poll(w) = [w EXCEPT !.at = "report",
                      !.runtime = [left EXCEPT !.status = "none", !.error = FALSE]]
    BY <1>3 DEF Poll, left
  <2> QED
    BY <2>2, <2>3, <1>1, <1>2, <1>3 DEF left
<1>4. CASE left.info # NoLine
  <2>1. Poll(w) = [w EXCEPT !.at = "fetch", !.runtime = left]
    BY <1>4 DEF Poll
  <2> QED
    BY <2>1, <1>1, <1>2, <1>4
<1> QED
  BY <1>3, <1>4

-----------------------------------------------------------------------------
(* The two kinds of steps of the worker, before it reports.                *)

\* While a start is under way, no other is, and no answer of its kind or of a
\* stop is unread.
LEMMA StartAlone ==
  ASSUME DesktopInv, worker.doing = "start", worker.at # "ended"
  PROVE  /\ Of(commands, "start") = {}
         /\ \A i \in DOMAIN events : events[i].kind \notin {"start", "stop"}
<1>1. /\ commands \in Seq([kind : CommandKinds, args : Option])
      /\ events \in Seq([kind : EventKinds, snapshot : Snapshot, ok : BOOLEAN])
      /\ window \in {"open", "joining"}
  BY DEF DesktopInv, ChannelsOK, WindowOK
<1>2. \A k \in Activities : Owed(k) = IF activity = k THEN 1 ELSE 0
  BY <1>1 DEF DesktopInv, BusyWhileOwed
<1> DEFINE c(k) == Cardinality(Of(commands, k))
           e(k) == Cardinality(Of(events, k))
<1>3. \A k : c(k) \in Nat /\ e(k) \in Nat
  BY <1>1, OfFinite
<1> HIDE DEF c, e
<1>4. Owed("start") = c("start") + e("start") + 1 /\ Owed("stop") = c("stop") + e("stop") + 0
  BY DEF Owed, c, e
<1>5. c("start") = 0 /\ e("start") = 0 /\ e("stop") = 0
  BY <1>2, <1>3, <1>4 DEF Activities
<1>6. \A i \in DOMAIN commands : commands[i].kind # "start"
  BY <1>1, <1>5, OfFinite DEF c
<1>7. \A i \in DOMAIN events : events[i].kind \notin {"start", "stop"}
  BY <1>1, <1>5, OfFinite DEF e
<1> QED
  BY <1>6, <1>7 DEF Of

\* A step that takes no command and sends no event.
LEMMA WorksOn ==
  ASSUME DesktopInv, UNCHANGED <<commands, events, lan, uiVars>>,
         worker.at # "ended", worker'.at \in {"await", "fetch", "poll", "report"},
         worker'.at = "await" => worker.at \in {"spawn", "await"},
         \/ worker'.doing = worker.doing
         \/ worker.doing = "none" /\ worker'.doing = "auto",
         worker'.runtime.child # NoPid =>
             \/ worker.at = "await" /\ worker'.at \in {"fetch", "report"}
             \/ /\ worker.runtime.child # NoPid /\ worker'.runtime.info = worker.runtime.info
                /\ worker.doing = "start" => worker'.at = "report",
         \/ worker.at = "spawn"
         \/ \A q \in Pids : procs[q].at = "free" => procs'[q].at = "free",
         ProcessesOK', procs' \in [Pids -> Process], WorkerOK', Children'
  PROVE  DesktopInv'
<1>1. /\ WorkerOK /\ ChannelsOK /\ WindowOK /\ Whole /\ UpToDate /\ NoneOlder
      /\ BusyWhileOwed /\ ReportsAreTrue /\ lan \subseteq Addresses
  BY DEF DesktopInv
<1>2. ChannelsOK' /\ WindowOK'
  BY <1>1 DEF ChannelsOK, WindowOK, uiVars
<1>3. Known' = Known /\ Pumped' = Pumped /\ Whole'
  BY <1>1 DEF Whole, Known, Pumped, LastSnapshot, Snapshots, uiVars
<1>4. worker.at = "await" =>
          /\ worker.doing = "start" /\ worker'.doing = "start"
          /\ Of(commands, "start") = {} /\ worker.runtime.child = NoPid
  BY <1>1, StartAlone, NothingSettled DEF WorkerOK
<1>5. UpToDate'
  <2> SUFFICES ASSUME window = "open", worker'.runtime.child # NoPid,
                      ~(worker'.doing = "start" /\ worker'.at \in {"fetch", "report"})
               PROVE  Pumped.running
    BY <1>3 DEF UpToDate, uiVars
  <2>1. worker.runtime.child # NoPid /\ worker.doing # "start"
    BY <1>4
  <2> QED
    BY <2>1, <1>1 DEF UpToDate
<1>6. NoneOlder'
  <2>1. ASSUME worker'.runtime.child # NoPid
        PROVE  \A s \in Known : s.info \in {NoLine, worker'.runtime.info}
    BY <2>1, <1>1 DEF NoneOlder
  <2>2. ASSUME Of(commands, "start") # {} \/ worker'.at = "await"
        PROVE  worker'.runtime.child = NoPid /\ \A s \in Known : s.info = NoLine
    <3>1. worker.runtime.child = NoPid /\ \A s \in Known : s.info = NoLine
      BY <2>2, <1>1 DEF NoneOlder
    <3>2. worker'.at = "await" => worker'.runtime.child = NoPid
      BY NothingSettled DEF WorkerOK
    <3> QED
      BY <2>2, <3>1, <3>2, <1>4
  <2>3. Of(commands, "start")' = Of(commands, "start")
    BY DEF Of
  <2> QED
    BY <2>1, <2>2, <2>3, <1>3 DEF NoneOlder
<1>7. BusyWhileOwed'
  <2>1. \A k \in Activities \cup {"poll"} : Owed(k)' = Owed(k)
    BY DEF Owed, Of, Activities
  <2> QED
    BY <2>1, <1>1 DEF BusyWhileOwed, uiVars
<1>8. ReportsAreTrue'
  <2>1. CASE worker.at = "spawn"
    <3>1. worker.doing = "start"
      BY <2>1, <1>1 DEF WorkerOK
    <3>2. \A i \in DOMAIN events : events[i].kind \notin {"start", "stop"}
      BY <2>1, <3>1, StartAlone
    <3> QED
      BY <3>2 DEF ReportsAreTrue
  <2>2. CASE \A q \in Pids : procs[q].at = "free" => procs'[q].at = "free"
    BY <2>2, <1>1 DEF ReportsAreTrue
  <2> QED
    BY <2>1, <2>2
<1> QED
  BY <1>1, <1>2, <1>3, <1>5, <1>6, <1>7, <1>8 DEF DesktopInv

\* A step that takes a command.
LEMMA TakesUp ==
  ASSUME DesktopInv, NEW kind \in CommandKinds, Takes(kind), UNCHANGED uiVars,
         worker'.at \in {"spawn", "fetch", "post", "report", "ended"},
         worker'.at = "spawn" => kind = "start",
         worker'.at = "ended" => worker'.runtime.child = NoPid,
         worker'.doing = IF kind = "shutdown" THEN "none" ELSE kind,
         worker'.runtime.child # NoPid =>
             /\ worker.runtime.child # NoPid /\ worker'.runtime.info = worker.runtime.info
             /\ kind # "start",
         \A q \in Pids : procs[q].at = "free" => procs'[q].at = "free",
         ProcessesOK', procs' \in [Pids -> Process], WorkerOK', Children'
  PROVE  DesktopInv'
<1>1. /\ WorkerOK /\ ChannelsOK /\ WindowOK /\ Whole /\ UpToDate /\ NoneOlder
      /\ BusyWhileOwed /\ ReportsAreTrue /\ lan \subseteq Addresses
  BY DEF DesktopInv
<1>2. /\ worker.at = "idle" /\ worker.doing = "none" /\ commands # <<>>
      /\ Head(commands).kind = kind /\ commands' = Tail(commands) /\ UNCHANGED <<events, lan>>
  BY <1>1 DEF Takes, At, WorkerOK
<1> DEFINE Command == [kind : CommandKinds, args : Option]
<1>3. /\ commands \in Seq(Command) /\ Tail(commands) \in Seq(Command)
      /\ DOMAIN commands = 1 .. Len(commands) /\ Len(commands) \in Nat \ {0}
      /\ DOMAIN Tail(commands) = 1 .. Len(commands) - 1
      /\ \A i \in DOMAIN Tail(commands) : Tail(commands)[i] = commands[i + 1]
      /\ Head(commands) = commands[1]
  <2>1. commands \in Seq(Command) /\ commands # <<>>
    BY <1>1, <1>2 DEF ChannelsOK
  <2> HIDE DEF Command
  <2> QED
    BY <2>1
<1>4. \A i \in DOMAIN Tail(commands) : i + 1 \in DOMAIN commands
  BY <1>3
<1>5. ChannelsOK'
  <2>1. \A i \in DOMAIN Tail(commands) : Tail(commands)[i].kind = "start" =>
            Sane(Tail(commands)[i].args) /\ Tail(commands)[i].args.discover
    BY <1>1, <1>3, <1>4 DEF ChannelsOK
  <2> QED
    BY <2>1, <1>1, <1>2, <1>3 DEF ChannelsOK, Sane
<1>6. WindowOK'
  BY <1>1, <1>2 DEF WindowOK, uiVars
<1>7. Known' = Known /\ Pumped' = Pumped /\ Whole'
  BY <1>1, <1>2 DEF Whole, Known, Pumped, LastSnapshot, Snapshots, uiVars
<1>8. UpToDate'
  <2> SUFFICES ASSUME window = "open", worker'.runtime.child # NoPid PROVE Pumped.running
    BY <1>7 DEF UpToDate, uiVars
  <2> QED
    BY <1>1, <1>2 DEF UpToDate
<1>9. NoneOlder'
  <2>1. ASSUME worker'.runtime.child # NoPid
        PROVE  \A s \in Known : s.info \in {NoLine, worker'.runtime.info}
    BY <2>1, <1>1 DEF NoneOlder
  <2>2. ASSUME Of(Tail(commands), "start") # {} \/ kind = "start"
        PROVE  worker'.runtime.child = NoPid /\ \A s \in Known : s.info = NoLine
    <3>1. Of(commands, "start") # {}
      BY <2>2, <1>2, <1>3, <1>4 DEF Of
    <3>2. worker.runtime.child = NoPid /\ \A s \in Known : s.info = NoLine
      BY <3>1, <1>1, <1>2 DEF NoneOlder
    <3> QED
      BY <3>2
  <2>3. Of(commands, "start")' = Of(Tail(commands), "start")
    BY <1>2 DEF Of
  <2>4. worker'.at # "await"
    OBVIOUS
  <2> QED
    BY <2>1, <2>2, <2>3, <2>4, <1>7 DEF NoneOlder
<1>10. BusyWhileOwed'
  <2>1. ASSUME NEW k \in Activities \cup {"poll"} PROVE Owed(k)' = Owed(k)
    <3> DEFINE c == Cardinality(Of(commands, k))
               t == Cardinality(Of(Tail(commands), k))
               e == Cardinality(Of(events, k))
    <3>1. t \in Nat /\ e \in Nat
      BY <1>1, <1>3, OfFinite DEF ChannelsOK
    <3>2. c = t + (IF Head(commands).kind = k THEN 1 ELSE 0)
      BY <1>2, <1>3, OfTail
    <3> HIDE DEF c, t, e
    <3>3. Owed(k) = c + e + (IF worker.doing = k THEN 1 ELSE 0)
      BY DEF Owed, c, e
    <3>4. Owed(k)' = t + e + (IF worker'.doing = k THEN 1 ELSE 0)
      BY <1>2 DEF Owed, t, e, Of
    <3>5. worker.doing # k
      BY <1>2 DEF Activities
    <3>6. worker'.doing = k <=> Head(commands).kind = k
      BY <1>2 DEF Activities, CommandKinds
    <3> QED
      BY <3>1, <3>2, <3>3, <3>4, <3>5, <3>6
  <2> QED
    BY <2>1, <1>1 DEF BusyWhileOwed, uiVars
<1>11. ReportsAreTrue'
  BY <1>1, <1>2 DEF ReportsAreTrue
<1> QED
  BY <1>1, <1>2, <1>5, <1>6, <1>7, <1>8, <1>9, <1>10, <1>11 DEF DesktopInv

-----------------------------------------------------------------------------
(* The steps one by one.                                                   *)

\* What DesktopInv says of the worker, for its steps.
LEMMA Held ==
  ASSUME DesktopInv
  PROVE  /\ WorkerOK /\ Children /\ ProcessesOK /\ procs \in [Pids -> Process]
         /\ worker \in WorkerType /\ Settled(worker.runtime)
         /\ worker.runtime.child \in Pids \cup {NoPid}
         /\ worker.spawned \in Pids \cup {NoPid}
         /\ worker.at # "await" => worker.spawned = NoPid /\ worker.heard = NoLine
         /\ worker.at = "await" => worker.spawned \in Pids /\ worker.runtime = NoService
<1>1. WorkerOK /\ worker \in WorkerType
  BY DEF DesktopInv, WorkerOK
<1>2. worker.runtime \in Runtime
  BY <1>1 DEF WorkerType
<1> QED
  BY <1>1, <1>2 DEF DesktopInv, WorkerOK, WorkerType, Settled, Runtime

\* A process that is not gone stays the child, or becomes it once it is ready.
LEMMA ChildrenStay ==
  ASSUME Children,
         \A q \in Pids :
             \/ procs'[q].at = "free"
             \/ /\ procs'[q].at = procs[q].at /\ ReadyLine(procs'[q]) = ReadyLine(procs[q])
                /\ q \in {worker'.runtime.child, worker'.spawned},
         worker'.spawned # NoPid =>
             worker'.spawned = worker.spawned /\ worker'.heard = worker.heard,
         worker'.runtime.child # NoPid =>
             \/ /\ worker'.runtime.child = worker.runtime.child
                /\ worker'.runtime.info = worker.runtime.info
             \/ /\ worker'.runtime.child = worker.spawned /\ worker.heard # NoLine
                /\ worker'.runtime.info = worker.heard
  PROVE  Children'
BY WorkerAssumption DEF Children, Alive

\* The first command of the queue.
LEMMA FirstCommand ==
  ASSUME ChannelsOK, commands # <<>>
  PROVE  /\ Head(commands) \in [kind : CommandKinds, args : Option]
         /\ Head(commands).kind = "start" =>
               /\ Sane(Head(commands).args) /\ Head(commands).args.discover
               /\ Of(commands, "start") # {}
<1> DEFINE Command == [kind : CommandKinds, args : Option]
<1>1. commands \in Seq(Command)
  BY DEF ChannelsOK
<1> HIDE DEF Command
<1>2. Head(commands) = commands[1] /\ 1 \in DOMAIN commands /\ Head(commands) \in Command
  BY <1>1
<1> QED
  BY <1>2 DEF Command, ChannelsOK, Of

\* WorkerCommand::Start: no child can be running.
LEMMA TakeStartKeeps ==
  ASSUME DesktopInv, TakeStart, UNCHANGED uiVars
  PROVE  DesktopInv'
<1>1. Takes("start") /\ worker.at = "idle" /\ "start" \in CommandKinds
  BY DEF TakeStart, Takes, At, CommandKinds, Activities
<1>2. /\ Head(commands) \in [kind : CommandKinds, args : Option]
      /\ Sane(Head(commands).args) /\ Head(commands).args.discover
      /\ Of(commands, "start") # {}
  BY <1>1, FirstCommand DEF Takes, DesktopInv
<1>3. worker.runtime.child = NoPid /\ worker.runtime = NoService
  BY <1>1, <1>2, Held DEF DesktopInv, NoneOlder, Settled
<1>4. ~Exited(worker.runtime.child)
  BY <1>3 DEF Exited
<1>5. procs' = procs
  BY <1>4 DEF TakeStart, Reaped
<1>6. worker' = [Working("start") EXCEPT !.at = "spawn", !.runtime = NoService,
                                         !.args = Head(commands).args]
  BY <1>3, <1>4 DEF TakeStart, Reap
<1>7. /\ worker'.at = "spawn" /\ worker'.doing = "start" /\ worker'.runtime = NoService
      /\ worker'.args = Head(commands).args /\ worker'.ok = TRUE
      /\ worker'.spawned = NoPid /\ worker'.heard = NoLine
      /\ worker' \in WorkerType
  BY <1>1, <1>2, <1>3, <1>6, Held DEF Working, WorkerType, Stages, CommandKinds, Activities
<1>8. WorkerOK'
  BY <1>2, <1>7, NothingSettled DEF WorkerOK, Activities
<1>9. Children'
  BY <1>1, <1>3, <1>5, <1>7, Held, NothingSettled DEF Children, Alive
<1> QED
  BY <1>1, <1>5, <1>7, <1>8, <1>9, NothingSettled, Held, TakesUp DEF ProcessesOK

\* WorkerCommand::Stop.
LEMMA TakeStopKeeps ==
  ASSUME DesktopInv, TakeStop, UNCHANGED uiVars
  PROVE  DesktopInv'
<1>1. Takes("stop") /\ worker.at = "idle" /\ "stop" \in CommandKinds
  BY DEF TakeStop, Takes, At, CommandKinds, Activities
<1>2. procs' = Without(worker.runtime.child)
  BY DEF TakeStop
<1>3. /\ worker'.at = "report" /\ worker'.doing = "stop" /\ worker'.runtime = NoService
      /\ worker'.ok = TRUE /\ worker'.spawned = NoPid /\ worker'.heard = NoLine
      /\ worker' \in WorkerType
  BY <1>1, Held, NothingSettled
     DEF TakeStop, Working, WorkerType, Stages, CommandKinds, Activities, Settled
<1>4. WorkerOK'
  BY <1>3, NothingSettled DEF WorkerOK, Activities
<1>5. /\ procs' \in [Pids -> Process] /\ ProcessesOK'
      /\ \A q \in Pids : procs'[q] = IF q = worker.runtime.child THEN Free ELSE procs[q]
  BY <1>2, Held, WithoutOK DEF ProcessesOK
<1>6. \A q \in Pids : procs'[q].at = "free"
  BY <1>1, <1>5, Held, FreeOK, WorkerAssumption DEF Children
<1>7. Children'
  BY <1>3, <1>6, NothingSettled DEF Children, Alive
<1> QED
  BY <1>1, <1>3, <1>4, <1>5, <1>6, <1>7, NothingSettled, TakesUp

\* WorkerCommand::Shutdown.
LEMMA TakeShutdownKeeps ==
  ASSUME DesktopInv, TakeShutdown, UNCHANGED uiVars
  PROVE  DesktopInv'
<1>1. Takes("shutdown") /\ worker.at = "idle" /\ "shutdown" \in CommandKinds
  BY DEF TakeShutdown, Takes, At, CommandKinds
<1>2. procs' = Without(worker.runtime.child)
  BY DEF TakeShutdown
<1>3. /\ worker'.at = "ended" /\ worker'.doing = "none" /\ worker'.runtime = NoService
      /\ worker'.ok = TRUE /\ worker'.spawned = NoPid /\ worker'.heard = NoLine
      /\ worker' \in WorkerType
  BY <1>1, Held, NothingSettled DEF TakeShutdown, Working, WorkerType, Stages, Settled
<1>4. WorkerOK'
  BY <1>3, NothingSettled DEF WorkerOK, Activities
<1>5. /\ procs' \in [Pids -> Process] /\ ProcessesOK'
      /\ \A q \in Pids : procs'[q] = IF q = worker.runtime.child THEN Free ELSE procs[q]
  BY <1>2, Held, WithoutOK DEF ProcessesOK
<1>6. \A q \in Pids : procs'[q].at = "free"
  BY <1>1, <1>5, Held, FreeOK, WorkerAssumption DEF Children
<1>7. Children'
  BY <1>3, <1>6, NothingSettled DEF Children, Alive
<1> QED
  BY <1>1, <1>3, <1>4, <1>5, <1>6, <1>7, NothingSettled, TakesUp

\* WorkerCommand::Disconnect.
LEMMA TakeDisconnectKeeps ==
  ASSUME DesktopInv, TakeDisconnect, UNCHANGED uiVars
  PROVE  DesktopInv'
<1>1. Takes("disconnect") /\ worker.at = "idle" /\ "disconnect" \in CommandKinds
  BY DEF TakeDisconnect, Takes, At, CommandKinds, Activities
<1>2. procs' = procs
  BY DEF TakeDisconnect
<1>3. /\ worker'.doing = "disconnect" /\ worker'.runtime = worker.runtime
      /\ worker'.spawned = NoPid /\ worker'.heard = NoLine /\ worker'.args = worker.args
      /\ IF worker.runtime.info = NoLine THEN worker'.at = "report" /\ worker'.ok = FALSE
         ELSE worker'.at = "post" /\ worker'.ok = TRUE
      /\ worker' \in WorkerType
  BY <1>1, Held DEF TakeDisconnect, Working, WorkerType, Stages, CommandKinds, Activities
<1>4. worker.runtime.info # NoLine => worker.runtime.child # NoPid
  BY Held, NothingSettled DEF Settled
<1>5. WorkerOK'
  BY <1>3, <1>4, Held DEF WorkerOK, Activities, Settled
<1>6. Children'
  BY <1>1, <1>2, <1>3, Held, ChildrenStay DEF Children
<1> QED
  BY <1>1, <1>2, <1>3, <1>5, <1>6, Held, TakesUp DEF ProcessesOK

\* A poll, of the child there is or of the process that has become ready.
LEMMA PollStep ==
  ASSUME DesktopInv, NEW w \in WorkerType, Settled(w.runtime),
         w.runtime.child \in Pids \cup {NoPid},
         w.spawned = NoPid, w.heard = NoLine, w.ok = TRUE,
         w.doing \in {"start", "disconnect", "poll", "auto"},
         \/ w.runtime = worker.runtime /\ worker.spawned = NoPid
         \/ /\ w.runtime.child = worker.spawned /\ w.runtime.info = worker.heard
            /\ worker.heard # NoLine /\ worker.runtime.child = NoPid,
         worker' = Poll(w), procs' = Reaped(w.runtime.child)
  PROVE  /\ WorkerOK' /\ Children' /\ ProcessesOK' /\ procs' \in [Pids -> Process]
         /\ worker'.at \in {"fetch", "report"} /\ worker'.doing = w.doing
         /\ worker'.runtime.child # NoPid => worker'.runtime = w.runtime
         /\ \A q \in Pids : procs[q].at = "free" => procs'[q].at = "free"
<1> DEFINE left == Reap(w.runtime)
<1>1. /\ Settled(left) /\ left = IF Exited(w.runtime.child) THEN NoService ELSE w.runtime
      /\ worker' = [w EXCEPT !.at = IF left.child = NoPid THEN "report" ELSE "fetch",
                             !.runtime = left]
  BY PollOK
<1> HIDE DEF left
<1>2. /\ worker' \in WorkerType /\ worker'.runtime = left /\ worker'.doing = w.doing
      /\ worker'.at = IF left.child = NoPid THEN "report" ELSE "fetch"
      /\ worker'.spawned = NoPid /\ worker'.heard = NoLine /\ worker'.ok = TRUE
  BY <1>1 DEF WorkerType, Settled, Stages
<1>3. WorkerOK'
  BY <1>1, <1>2, NothingSettled DEF WorkerOK, Settled
<1>4. /\ procs' \in [Pids -> Process] /\ ProcessesOK'
      /\ \A q \in Pids : procs'[q] =
            IF q = w.runtime.child /\ procs[w.runtime.child].at = "zombie" THEN Free ELSE procs[q]
  BY Held, ReapedOK DEF ProcessesOK
<1>5. left.child # NoPid => left = w.runtime
  BY <1>1, NothingSettled
<1>6. \A q \in Pids : procs[q].at # "free" => q = w.runtime.child
  BY Held, NothingSettled, WorkerAssumption DEF Children
<1>7. ASSUME NEW q \in Pids, procs'[q].at # "free"
      PROVE  procs'[q] = procs[q] /\ q = left.child
  <2>1. procs'[q] = procs[q] /\ q = w.runtime.child /\ procs[q].at # "zombie"
    BY <1>4, <1>6, <1>7, FreeOK
  <2> QED
    BY <2>1, <1>1 DEF Exited
<1>8. Children'
  BY <1>2, <1>5, <1>7, Held, ChildrenStay
<1> QED
  BY <1>2, <1>3, <1>4, <1>5, <1>8, FreeOK

\* WorkerCommand::Poll.
LEMMA TakePollKeeps ==
  ASSUME DesktopInv, TakePoll, UNCHANGED uiVars
  PROVE  DesktopInv'
<1> DEFINE w == Working("poll")
<1>1. Takes("poll") /\ worker.at = "idle" /\ "poll" \in CommandKinds
  BY DEF TakePoll, Takes, At, CommandKinds
<1>2. /\ w \in WorkerType /\ w.runtime = worker.runtime /\ w.doing = "poll"
      /\ w.spawned = NoPid /\ w.heard = NoLine /\ w.ok = TRUE
  BY <1>1, Held DEF Working, WorkerType, CommandKinds
<1>3. worker' = Poll(w) /\ procs' = Reaped(w.runtime.child)
  BY <1>2 DEF TakePoll
<1> HIDE DEF w
<1>4. /\ WorkerOK' /\ Children' /\ ProcessesOK' /\ procs' \in [Pids -> Process]
      /\ worker'.at \in {"fetch", "report"} /\ worker'.doing = w.doing
      /\ worker'.runtime.child # NoPid => worker'.runtime = w.runtime
      /\ \A q \in Pids : procs[q].at = "free" => procs'[q].at = "free"
  BY <1>1, <1>2, <1>3, Held, PollStep
<1> QED
  BY <1>1, <1>2, <1>4, TakesUp

\* The poll of the worker's own.
LEMMA AutoPollKeeps ==
  ASSUME DesktopInv, AutoPoll, UNCHANGED uiVars
  PROVE  DesktopInv'
<1> DEFINE w == Working("auto")
<1>1. worker.at = "idle" /\ worker.doing = "none" /\ UNCHANGED <<commands, events, lan>>
  BY Held DEF AutoPoll, At, Quietly, WorkerOK
<1>2. /\ w \in WorkerType /\ w.runtime = worker.runtime /\ w.doing = "auto"
      /\ w.spawned = NoPid /\ w.heard = NoLine /\ w.ok = TRUE
  BY <1>1, Held DEF Working, WorkerType
<1>3. worker' = Poll(w) /\ procs' = Reaped(w.runtime.child)
  BY <1>2 DEF AutoPoll
<1> HIDE DEF w
<1>4. /\ WorkerOK' /\ Children' /\ ProcessesOK' /\ procs' \in [Pids -> Process]
      /\ worker'.at \in {"fetch", "report"} /\ worker'.doing = w.doing
      /\ worker'.runtime.child # NoPid => worker'.runtime = w.runtime
      /\ \A q \in Pids : procs[q].at = "free" => procs'[q].at = "free"
  BY <1>1, <1>2, <1>3, Held, PollStep
<1> QED
  BY <1>1, <1>2, <1>4, WorksOn

\* The poll after a disconnect.
LEMMA PollAfterDisconnectKeeps ==
  ASSUME DesktopInv, PollAfterDisconnect, UNCHANGED uiVars
  PROVE  DesktopInv'
<1>1. /\ worker.at = "poll" /\ worker.doing = "disconnect" /\ worker.ok = TRUE
      /\ UNCHANGED <<commands, events, lan>>
  BY Held DEF PollAfterDisconnect, At, Quietly, WorkerOK, WorkerType
<1>2. worker' = Poll(worker) /\ procs' = Reaped(worker.runtime.child)
  BY DEF PollAfterDisconnect
<1>3. /\ WorkerOK' /\ Children' /\ ProcessesOK' /\ procs' \in [Pids -> Process]
      /\ worker'.at \in {"fetch", "report"} /\ worker'.doing = worker.doing
      /\ worker'.runtime.child # NoPid => worker'.runtime = worker.runtime
      /\ \A q \in Pids : procs[q].at = "free" => procs'[q].at = "free"
  BY <1>1, <1>2, Held, PollStep
<1> QED
  BY <1>1, <1>3, WorksOn

\* The ready line has come in time.
LEMMA ReadyKeeps ==
  ASSUME DesktopInv, Ready, UNCHANGED uiVars
  PROVE  DesktopInv'
<1> DEFINE r == [NoService EXCEPT !.child = worker.spawned, !.info = worker.heard]
           w == [worker EXCEPT !.spawned = NoPid, !.heard = NoLine, !.runtime = r]
<1>1. /\ worker.at = "await" /\ worker.doing = "start" /\ worker.heard # NoLine
      /\ worker.ok = TRUE /\ worker.runtime = NoService
      /\ worker.spawned \in Pids /\ worker.heard \in Info
      /\ UNCHANGED <<commands, events, lan>>
  BY Held DEF Ready, At, Quietly, WorkerOK, WorkerType
<1>2. NoService \in Runtime
  BY NothingSettled DEF Settled
<1>3. Settled(r) /\ r.child = worker.spawned /\ r.info = worker.heard
  BY <1>1, <1>2, WorkerAssumption DEF Settled, Runtime, Status
<1>4. worker' = Poll(w) /\ procs' = Reaped(worker.spawned)
  BY DEF Ready
<1> HIDE DEF r
<1>5. /\ w \in WorkerType /\ w.runtime = r /\ w.doing = "start"
      /\ w.spawned = NoPid /\ w.heard = NoLine /\ w.ok = TRUE
  BY <1>1, <1>3, Held DEF WorkerType, Settled
<1> HIDE DEF w
<1>6. /\ WorkerOK' /\ Children' /\ ProcessesOK' /\ procs' \in [Pids -> Process]
      /\ worker'.at \in {"fetch", "report"} /\ worker'.doing = w.doing
      /\ worker'.runtime.child # NoPid => worker'.runtime = w.runtime
      /\ \A q \in Pids : procs[q].at = "free" => procs'[q].at = "free"
  BY <1>1, <1>3, <1>4, <1>5, NothingSettled, PollStep
<1> QED
  BY <1>1, <1>5, <1>6, WorksOn

\* The status has come, or not.
LEMMA StatusKeeps ==
  ASSUME DesktopInv, StatusFetched \/ StatusFails, UNCHANGED uiVars
  PROVE  DesktopInv'
<1>1. worker.at = "fetch" /\ UNCHANGED <<procs, commands, events, lan>>
  BY DEF StatusFetched, StatusFails, At, Quietly
<1>2. PICK status \in Status, error \in BOOLEAN :
          worker' = [worker EXCEPT !.at = "report",
              !.runtime = [worker.runtime EXCEPT !.status = status, !.error = error]]
  <2>1. worker.runtime \in Runtime /\ worker \in WorkerType
    BY Held DEF Settled
  <2>2. CASE StatusFetched
    <3> DEFINE status == IF procs[worker.runtime.child].phone THEN "phone" ELSE "idle"
    <3>1. worker' = [worker EXCEPT !.at = "report", !.runtime =
              [worker.runtime EXCEPT !.status = status, !.error = FALSE]]
      BY <2>1, <2>2 DEF StatusFetched, Runtime, WorkerType
    <3>2. status \in Status
      BY DEF Status
    <3> HIDE DEF status
    <3> QED
      BY <3>1, <3>2
  <2>3. CASE StatusFails
    <3>1. worker' = [worker EXCEPT !.at = "report", !.runtime =
              [worker.runtime EXCEPT !.status = worker.runtime.status, !.error = TRUE]]
      BY <2>1, <2>3 DEF StatusFails, Runtime, WorkerType
    <3> QED
      BY <2>1, <3>1 DEF Runtime
  <2> QED
    BY <2>2, <2>3
<1> DEFINE r == [worker.runtime EXCEPT !.status = status, !.error = error]
<1>3. worker.runtime.child # NoPid /\ worker.runtime.info # NoLine
  BY <1>1, Held DEF WorkerOK
<1>4. r \in Runtime /\ r.child = worker.runtime.child /\ r.info = worker.runtime.info
  BY Held DEF Settled, Runtime
<1> HIDE DEF r
<1>5. /\ worker' \in WorkerType /\ worker'.at = "report" /\ worker'.runtime = r
      /\ worker'.doing = worker.doing /\ worker'.ok = worker.ok /\ worker'.args = worker.args
      /\ worker'.spawned = NoPid /\ worker'.heard = NoLine
  BY <1>1, <1>2, <1>4, Held DEF r, WorkerType, Stages
<1>6. WorkerOK'
  BY <1>1, <1>3, <1>4, <1>5, Held DEF WorkerOK
<1>7. Children'
  BY <1>1, <1>4, <1>5, Held, ChildrenStay DEF Children
<1> QED
  BY <1>1, <1>3, <1>4, <1>5, <1>6, <1>7, Held, WorksOn DEF ProcessesOK

\* A process that loses nothing but its line, its reader or its phone.
LEMMA Touched ==
  ASSUME ProcessesOK, procs \in [Pids -> Process], NEW p \in Pids, NEW proc \in Process,
         procs' = [procs EXCEPT ![p] = proc],
         proc.at = procs[p].at, proc.options = procs[p].options, proc.try = procs[p].try,
         proc.control = procs[p].control, proc.discovery = procs[p].discovery,
         proc.address = procs[p].address, proc.line \in {procs[p].line, NoLine}
  PROVE  /\ ProcessesOK' /\ procs' \in [Pids -> Process]
         /\ \A q \in Pids : /\ procs'[q].at = procs[q].at
                            /\ ReadyLine(procs'[q]) = ReadyLine(procs[q])
<1>1. ReadyLine(proc) = ReadyLine(procs[p])
  BY DEF ReadyLine
<1>2. ProcessOK(proc)
  BY <1>1 DEF ProcessesOK, ProcessOK
<1> QED
  BY <1>1, <1>2 DEF ProcessesOK

\* The process is there; no answer unread speaks of none.
LEMMA SpawnKeeps ==
  ASSUME DesktopInv, NEW p \in Pids, Spawn(p), UNCHANGED uiVars
  PROVE  DesktopInv'
<1>1. /\ worker.at = "spawn" /\ procs[p] = Free /\ procs' = [procs EXCEPT ![p] = Spawned(worker.args)]
      /\ worker' = [worker EXCEPT !.at = "await", !.spawned = p, !.args = NoOption]
      /\ UNCHANGED <<commands, events, lan>>
  BY DEF Spawn, At, Quietly
<1>2. /\ worker.doing = "start" /\ worker.runtime = NoService /\ worker.ok = TRUE
      /\ worker.spawned = NoPid /\ worker.heard = NoLine
      /\ Sane(worker.args) /\ worker.args.discover /\ worker.args \in Option
  BY <1>1, Held DEF WorkerOK, WorkerType
<1> DEFINE new == Spawned(worker.args)
<1>3. NoOption \in Option /\ NoPort \in 0 .. LastPort + 1
  BY StartAssumption DEF NoOption, Option, NoPort
<1>4. new \in Process
  BY <1>2, <1>3 DEF Process, Spawned, Free, Places
<1>5. new.at = "options" /\ new.options = worker.args /\ new.line = NoLine
  BY DEF Spawned, Free
<1> HIDE DEF new
<1>6. ProcessOK(new)
  BY <1>2, <1>4, <1>5 DEF ProcessOK, Announced
<1>7. /\ procs' = [procs EXCEPT ![p] = new] /\ procs' \in [Pids -> Process]
      /\ procs'[p] = new /\ \A q \in Pids \ {p} : procs'[q] = procs[q]
  BY <1>1, <1>4, Held DEF new
<1>8. ProcessesOK'
  BY <1>6, <1>7, Held DEF ProcessesOK
<1>9. /\ worker' \in WorkerType /\ worker'.at = "await" /\ worker'.doing = "start"
      /\ worker'.runtime = NoService /\ worker'.ok = TRUE /\ worker'.spawned = p
      /\ worker'.heard = NoLine
  BY <1>1, <1>2, <1>3, Held DEF WorkerType, Stages
<1>10. WorkerOK'
  BY <1>9, NothingSettled, WorkerAssumption DEF WorkerOK, Activities
<1>11. Children'
  <2>1. \A q \in Pids : procs[q].at = "free"
    BY <1>2, Held, NothingSettled, WorkerAssumption DEF Children
  <2> QED
    BY <2>1, <1>5, <1>7, <1>9, NothingSettled, WorkerAssumption DEF Children, Alive
<1> QED
  BY <1>1, <1>7, <1>8, <1>9, <1>10, <1>11, NothingSettled, WorksOn

\* The process could not be had.
LEMMA SpawnFailsKeeps ==
  ASSUME DesktopInv, SpawnFails, UNCHANGED uiVars
  PROVE  DesktopInv'
<1>1. /\ worker.at = "spawn" /\ UNCHANGED <<procs, commands, events, lan>>
      /\ worker' = [worker EXCEPT !.at = "report", !.ok = FALSE, !.args = NoOption]
  BY DEF SpawnFails, At, Quietly
<1>2. worker.doing = "start" /\ worker.runtime = NoService
  BY <1>1, Held DEF WorkerOK
<1>3. NoOption \in Option
  BY StartAssumption DEF NoOption, Option, NoPort
<1>4. /\ worker' \in WorkerType /\ worker'.at = "report" /\ worker'.doing = "start"
      /\ worker'.runtime = NoService /\ worker'.ok = FALSE /\ worker'.spawned = NoPid
      /\ worker'.heard = NoLine
  BY <1>1, <1>2, <1>3, Held DEF WorkerType, Stages
<1>5. WorkerOK'
  BY <1>4, NothingSettled DEF WorkerOK, Activities
<1>6. Children'
  BY <1>1, <1>2, <1>4, Held, NothingSettled, ChildrenStay DEF Children
<1> QED
  BY <1>1, <1>2, <1>4, <1>5, <1>6, Held, NothingSettled, WorksOn DEF ProcessesOK

\* The ready line has not come.
LEMMA ReadyFailsKeeps ==
  ASSUME DesktopInv, ReadyFails, UNCHANGED uiVars
  PROVE  DesktopInv'
<1>1. /\ worker.at = "await" /\ UNCHANGED <<commands, events, lan>>
      /\ procs' = Without(worker.spawned) /\ worker.heard = NoLine
      /\ worker' = [worker EXCEPT !.at = "report", !.spawned = NoPid, !.ok = FALSE]
  BY DEF ReadyFails, At, Quietly, AwaitFailed
<1>2. worker.doing = "start" /\ worker.runtime = NoService /\ worker.spawned \in Pids
  BY <1>1, Held DEF WorkerOK
<1>3. /\ worker' \in WorkerType /\ worker'.at = "report" /\ worker'.doing = "start"
      /\ worker'.runtime = NoService /\ worker'.ok = FALSE /\ worker'.spawned = NoPid
      /\ worker'.heard = NoLine
  BY <1>1, <1>2, Held DEF WorkerType, Stages
<1>4. WorkerOK'
  BY <1>3, NothingSettled DEF WorkerOK, Activities
<1>5. /\ procs' \in [Pids -> Process] /\ ProcessesOK'
      /\ \A q \in Pids : procs'[q] = IF q = worker.spawned THEN Free ELSE procs[q]
  BY <1>1, Held, WithoutOK DEF ProcessesOK
<1>6. \A q \in Pids : procs'[q].at = "free"
  BY <1>2, <1>5, Held, FreeOK, NothingSettled, WorkerAssumption DEF Children
<1>7. Children'
  BY <1>3, <1>6, NothingSettled DEF Children, Alive
<1> QED
  BY <1>1, <1>2, <1>3, <1>4, <1>5, <1>6, <1>7, NothingSettled, WorksOn

\* The line is read.
LEMMA ReadLineKeeps ==
  ASSUME DesktopInv, ReadLine, UNCHANGED uiVars
  PROVE  DesktopInv'
<1> DEFINE p == worker.spawned
           new == [procs[p] EXCEPT !.line = NoLine]
<1>1. /\ worker.at = "await" /\ procs[p].line # NoLine /\ p \in Pids
      /\ worker.doing = "start" /\ worker.runtime = NoService
      /\ worker' = [worker EXCEPT !.heard = procs[p].line]
      /\ UNCHANGED <<commands, events, lan>>
  BY Held DEF ReadLine, At, Quietly, WorkerOK
<1>2. procs' = [procs EXCEPT ![p] = new]
  BY <1>1, Held DEF ReadLine
<1>3. procs[p] \in Process /\ ProcessOK(procs[p])
  BY <1>1, Held DEF ProcessesOK
<1>4. new \in Process /\ new.at = procs[p].at /\ new.options = procs[p].options
      /\ new.try = procs[p].try /\ new.control = procs[p].control
      /\ new.discovery = procs[p].discovery /\ new.address = procs[p].address
      /\ new.line = NoLine
  BY <1>3 DEF Process
<1> HIDE DEF new
<1>5. /\ ProcessesOK' /\ procs' \in [Pids -> Process]
      /\ \A q \in Pids : procs'[q].at = procs[q].at /\ ReadyLine(procs'[q]) = ReadyLine(procs[q])
  BY <1>1, <1>2, <1>4, Held, Touched
<1>6. /\ worker' \in WorkerType /\ worker'.at = "await" /\ worker'.doing = "start"
      /\ worker'.runtime = NoService /\ worker'.ok = worker.ok /\ worker'.spawned = p
      /\ worker'.heard = procs[p].line
  BY <1>1, <1>3, Held DEF WorkerType, Process
<1>7. WorkerOK'
  BY <1>1, <1>6, Held, NothingSettled, WorkerAssumption DEF WorkerOK, Activities
<1>8. Alive(p) => procs[p].at \in Announced /\ procs[p].line = ReadyLine(procs[p])
  BY <1>1, <1>3 DEF Alive, ProcessOK
<1>9. Children'
  BY <1>1, <1>5, <1>6, <1>8, Held, NothingSettled, WorkerAssumption DEF Children, Alive
<1> QED
  BY <1>1, <1>5, <1>6, <1>7, <1>9, NothingSettled, WorksOn

\* The pipe is let go.
LEMMA CloseOutputKeeps ==
  ASSUME DesktopInv, NEW p \in Pids, CloseOutput(p), UNCHANGED uiVars
  PROVE  DesktopInv'
<1> DEFINE new == [procs[p] EXCEPT !.read = FALSE]
<1>1. UNCHANGED <<workerVars, lan>>
  BY DEF CloseOutput, Quietly, workerVars
<1>2. procs' = [procs EXCEPT ![p] = new] /\ procs[p] \in Process
  BY Held DEF CloseOutput
<1>3. new \in Process /\ new.at = procs[p].at /\ new.options = procs[p].options
      /\ new.try = procs[p].try /\ new.control = procs[p].control
      /\ new.discovery = procs[p].discovery /\ new.address = procs[p].address
      /\ new.line = procs[p].line
  BY <1>2 DEF Process
<1> HIDE DEF new
<1>4. /\ ProcessesOK' /\ procs' \in [Pids -> Process]
      /\ \A q \in Pids : procs'[q].at = procs[q].at /\ ReadyLine(procs'[q]) = ReadyLine(procs[q])
  BY <1>2, <1>3, Held, Touched
<1>5. Children'
  BY <1>1, <1>4, Held DEF workerVars, Children, Alive
<1>6. ReportsAreTrue'
  BY <1>1, <1>4 DEF DesktopInv, ReportsAreTrue, workerVars
<1>7. (lan \subseteq Addresses)'
  BY <1>1 DEF DesktopInv
<1> QED
  BY <1>1, <1>4, <1>5, <1>6, <1>7, OthersKeep DEF DesktopInv, workerVars

\* The phone of the child loses its lease; the worker does nothing else.
LEMMA DisconnectStep ==
  ASSUME DesktopInv, worker.at = "post", UNCHANGED <<commands, events, lan, uiVars>>,
         NEW at \in {"poll", "report"}, NEW ok \in BOOLEAN, at = "report" \/ ok,
         worker' = [worker EXCEPT !.at = at, !.ok = ok],
         \/ UNCHANGED procs
         \/ procs' = [procs EXCEPT ![worker.runtime.child].phone = FALSE]
  PROVE  DesktopInv'
<1> DEFINE p == worker.runtime.child
           new == [procs[p] EXCEPT !.phone = FALSE]
<1>1. p \in Pids /\ p # NoPid /\ worker.doing = "disconnect" /\ procs[p] \in Process
  BY Held DEF WorkerOK
<1>2. /\ ProcessesOK' /\ procs' \in [Pids -> Process]
      /\ \A q \in Pids : procs'[q].at = procs[q].at /\ ReadyLine(procs'[q]) = ReadyLine(procs[q])
  <2>1. CASE UNCHANGED procs
    BY <2>1, Held DEF ProcessesOK
  <2>2. CASE procs' = [procs EXCEPT ![p].phone = FALSE]
    <3>1. procs' = [procs EXCEPT ![p] = new]
      BY <2>2, Held
    <3>2. new \in Process /\ new.at = procs[p].at /\ new.options = procs[p].options
          /\ new.try = procs[p].try /\ new.control = procs[p].control
          /\ new.discovery = procs[p].discovery /\ new.address = procs[p].address
          /\ new.line = procs[p].line
      BY <1>1 DEF Process
    <3> HIDE DEF new
    <3> QED
      BY <3>1, <3>2, <1>1, Held, Touched
  <2> QED
    BY <2>1, <2>2
<1>3. /\ worker' \in WorkerType /\ worker'.at = at /\ worker'.doing = "disconnect"
      /\ worker'.runtime = worker.runtime /\ worker'.ok = ok /\ worker'.spawned = NoPid
      /\ worker'.heard = NoLine
  BY <1>1, Held DEF WorkerType, Stages
<1>4. WorkerOK'
  BY <1>1, <1>3, Held DEF WorkerOK, Settled, Activities
<1>5. Children'
  BY <1>2, <1>3, Held DEF Children, Alive
<1> QED
  BY <1>1, <1>2, <1>3, <1>4, <1>5, WorksOn

\* Every end of the request to disconnect.
LEMMA DisconnectKeeps ==
  ASSUME DesktopInv, Disconnected \/ \E served \in BOOLEAN : DisconnectFails(served),
         UNCHANGED uiVars
  PROVE  DesktopInv'
<1>1. /\ worker.at = "post" /\ worker \in WorkerType /\ worker.ok = TRUE
      /\ UNCHANGED <<commands, events, lan>>
  BY Held DEF Disconnected, DisconnectFails, At, Quietly, WorkerOK, WorkerType
<1>2. CASE Disconnected
  <2>1. worker' = [worker EXCEPT !.at = "poll", !.ok = TRUE]
    BY <1>1, <1>2 DEF Disconnected, WorkerType
  <2> QED
    BY <2>1, <1>1, <1>2, DisconnectStep DEF Disconnected
<1>3. CASE \E served \in BOOLEAN : DisconnectFails(served)
  <2>1. worker' = [worker EXCEPT !.at = "report", !.ok = FALSE]
    BY <1>3 DEF DisconnectFails
  <2>2. UNCHANGED procs \/ procs' = [procs EXCEPT ![worker.runtime.child].phone = FALSE]
    BY <1>3 DEF DisconnectFails
  <2> QED
    BY <2>1, <2>2, <1>1, DisconnectStep
<1> QED
  BY <1>2, <1>3

\* A snapshot is of a service or of none.
LEMMA SnapshotType ==
  ASSUME NEW r, Settled(r)
  PROVE  SnapshotOf(r) \in Snapshot /\ (SnapshotOf(r).running <=> SnapshotOf(r).info # NoLine)
BY NothingSettled DEF Settled, SnapshotOf, Snapshot, Runtime

\* Sending changes no process.
LEMMA SendKeepsChildren ==
  ASSUME DesktopInv, worker.at # "await", UNCHANGED procs,
         worker'.runtime = worker.runtime, worker'.spawned = worker.spawned
  PROVE  /\ ProcessesOK' /\ procs' \in [Pids -> Process] /\ Children'
<1>1. worker.spawned = NoPid
  BY Held
<1> QED
  BY <1>1, Held, WorkerAssumption DEF ProcessesOK, Children, Alive

\* The snapshot brings the window up to date.
LEMMA SendSnapshotKeeps ==
  ASSUME DesktopInv, SendSnapshot, UNCHANGED uiVars
  PROVE  DesktopInv'
<1> DEFINE r == worker.runtime
           snap == SnapshotOf(r)
           e == Event("snapshot", snap, TRUE)
<1>1. /\ worker.at \in {"boot", "report"} /\ UNCHANGED <<procs, commands, lan>>
      /\ events' = Append(events, e)
      /\ worker' = IF worker.doing \in {"none", "auto"}
                   THEN [worker EXCEPT !.at = "idle", !.doing = "none"]
                   ELSE [worker EXCEPT !.at = "finish"]
  BY DEF SendSnapshot, At
<1>2. /\ WorkerOK /\ ChannelsOK /\ WindowOK /\ Whole /\ UpToDate /\ NoneOlder
      /\ BusyWhileOwed /\ ReportsAreTrue /\ lan \subseteq Addresses
  BY DEF DesktopInv
<1>3. Settled(r) /\ snap \in Snapshot /\ (snap.running <=> snap.info # NoLine)
      /\ snap.info = r.info /\ snap.running = (r.child # NoPid)
  BY Held, SnapshotType DEF SnapshotOf
<1>4. events \in Seq(EventType) /\ e \in EventType /\ e.kind = "snapshot"
  BY <1>2, <1>3 DEF ChannelsOK, EventType, Event, EventKinds
<1>5. Pumped' = snap /\ Known' = Known \cup {snap}
  BY <1>1, <1>3, <1>4, SnapshotSent DEF uiVars
<1> HIDE DEF e, snap
<1>6. /\ worker' \in WorkerType /\ worker'.runtime = r /\ worker'.ok = worker.ok
      /\ worker'.spawned = NoPid /\ worker'.heard = NoLine /\ worker'.args = worker.args
      /\ \/ worker'.at = "idle" /\ worker'.doing = "none" /\ worker.doing \in {"none", "auto"}
         \/ /\ worker'.at = "finish" /\ worker'.doing = worker.doing
            /\ worker.doing \notin {"none", "auto"}
  BY <1>1, Held DEF WorkerType, Stages
<1>7. worker.doing # "shutdown"
  BY <1>1, <1>2 DEF WorkerOK
<1>8. WorkerOK'
  BY <1>1, <1>2, <1>6, <1>7, Held DEF WorkerOK, WorkerType, CommandKinds
<1>9. ProcessesOK' /\ procs' \in [Pids -> Process] /\ Children'
  BY <1>1, <1>6, Held, SendKeepsChildren
<1>10. events' \in Seq(EventType)
  BY <1>1, <1>4, Appended
<1>11. ChannelsOK' /\ WindowOK'
  <2>1. WindowOK'
    BY <1>1, <1>2 DEF WindowOK, uiVars
  <2>2. ChannelsOK'
    BY <1>1, <1>2, <1>10 DEF ChannelsOK, EventType, Sane
  <2> QED
    BY <2>1, <2>2
<1>12. Whole'
  BY <1>2, <1>3, <1>5 DEF Whole
<1>13. UpToDate'
  BY <1>3, <1>5, <1>6 DEF UpToDate, snap, SnapshotOf
<1>14. NoneOlder'
  <2>1. ASSUME r.child # NoPid, NEW s \in Known' PROVE s.info \in {NoLine, r.info}
    BY <2>1, <1>2, <1>3, <1>5 DEF NoneOlder
  <2>2. ASSUME Of(commands, "start") # {}, NEW s \in Known'
        PROVE  r.child = NoPid /\ s.info = NoLine
    <3>1. r.child = NoPid /\ \A t \in Known : t.info = NoLine
      BY <2>2, <1>1, <1>2 DEF NoneOlder
    <3>2. snap.info = NoLine
      BY <3>1, <1>3, NothingSettled DEF Settled
    <3> QED
      BY <2>2, <3>1, <3>2, <1>5
  <2>3. Of(commands, "start")' = Of(commands, "start") /\ Known' # {}
    BY <1>1, <1>5 DEF Of
  <2> QED
    BY <2>1, <2>2, <2>3, <1>6 DEF NoneOlder
<1>15. BusyWhileOwed'
  <2>1. ASSUME NEW k \in Activities \cup {"poll"} PROVE Owed(k)' = Owed(k)
    <3>1. Cardinality(Of(events, k))' = Cardinality(Of(events, k))
      <4>1. Cardinality(Of(events', k)) = Cardinality(Of(events, k)) + 0
        BY <1>1, <1>4, OfAppend DEF Activities
      <4>2. Cardinality(Of(events, k)) \in Nat
        BY <1>4, OfFinite
      <4> QED
        BY <4>1, <4>2 DEF Of
    <3>2. worker'.doing = k <=> worker.doing = k
      BY <1>6 DEF Activities
    <3> QED
      BY <3>1, <3>2, <1>1 DEF Owed, Of
  <2> QED
    BY <2>1, <1>2 DEF BusyWhileOwed, uiVars
<1>16. ReportsAreTrue'
  <2>1. /\ DOMAIN events' = DOMAIN events \cup {Len(events) + 1}
        /\ events'[Len(events) + 1] = e
        /\ \A i \in DOMAIN events : events'[i] = events[i]
    BY <1>1, <1>4, Appended
  <2> QED
    BY <2>1, <1>1, <1>2, <1>4 DEF ReportsAreTrue
<1> QED
  BY <1>1, <1>2, <1>8, <1>9, <1>11, <1>12, <1>13, <1>14, <1>15, <1>16 DEF DesktopInv

\* The answer that was owed.
LEMMA SendFinishedKeeps ==
  ASSUME DesktopInv, SendFinished, UNCHANGED uiVars
  PROVE  DesktopInv'
<1> DEFINE e == Finished(worker.doing, worker.ok)
<1>1. /\ worker.at = "finish" /\ UNCHANGED <<procs, commands, lan>>
      /\ events' = Append(events, e)
      /\ worker' = [worker EXCEPT !.at = "idle", !.doing = "none", !.ok = TRUE]
  BY DEF SendFinished, At
<1>2. /\ WorkerOK /\ ChannelsOK /\ WindowOK /\ Whole /\ UpToDate /\ NoneOlder
      /\ BusyWhileOwed /\ ReportsAreTrue /\ lan \subseteq Addresses
  BY DEF DesktopInv
<1>3. worker.doing \in Activities \cup {"poll"} /\ worker.ok \in BOOLEAN
  BY <1>1, Held DEF WorkerOK, WorkerType
<1>4. /\ events \in Seq(EventType) /\ e \in EventType /\ e.kind = worker.doing
      /\ e.ok = worker.ok /\ e.kind # "snapshot"
  <2>1. SnapshotOf(NoService) \in Snapshot
    BY NothingSettled, SnapshotType
  <2> QED
    BY <2>1, <1>2, <1>3 DEF ChannelsOK, EventType, Finished, Event, EventKinds, Activities
<1> HIDE DEF e
<1>5. Pumped' = Pumped /\ Known' = Known
  BY <1>1, <1>4, ReportSent DEF uiVars
<1>6. /\ worker' \in WorkerType /\ worker'.at = "idle" /\ worker'.doing = "none"
      /\ worker'.ok = TRUE /\ worker'.runtime = worker.runtime
      /\ worker'.spawned = NoPid /\ worker'.heard = NoLine
  BY <1>1, Held DEF WorkerType, Stages
<1>7. WorkerOK'
  BY <1>6, Held DEF WorkerOK, Settled, Activities
<1>8. ProcessesOK' /\ procs' \in [Pids -> Process] /\ Children'
  BY <1>1, <1>6, Held, SendKeepsChildren
<1>9. events' \in Seq(EventType)
  BY <1>1, <1>4, Appended
<1>10. ChannelsOK' /\ WindowOK'
  <2>1. WindowOK'
    BY <1>1, <1>2 DEF WindowOK, uiVars
  <2>2. ChannelsOK'
    BY <1>1, <1>2, <1>9 DEF ChannelsOK, EventType, Sane
  <2> QED
    BY <2>1, <2>2
<1>11. Whole'
  BY <1>2, <1>5 DEF Whole
<1>12. UpToDate'
  <2> SUFFICES ASSUME window = "open"
               PROVE  /\ Pumped = SnapshotOf(worker.runtime)
                      /\ worker.runtime.child # NoPid => Pumped.running
    <3>1. SnapshotOf(worker'.runtime) = SnapshotOf(worker.runtime)
      BY <1>6
    <3> HIDE DEF SnapshotOf
    <3> QED
      BY <3>1, <1>5, <1>6 DEF UpToDate, uiVars
  <2>1. Pumped = SnapshotOf(worker.runtime)
    BY <1>1, <1>2 DEF UpToDate
  <2> QED
    BY <2>1 DEF SnapshotOf
<1>13. NoneOlder'
  <2>1. Of(commands, "start")' = Of(commands, "start")
    BY <1>1 DEF Of
  <2> QED
    BY <2>1, <1>1, <1>2, <1>5, <1>6 DEF NoneOlder
<1>14. BusyWhileOwed'
  <2>1. ASSUME NEW k \in Activities \cup {"poll"} PROVE Owed(k)' = Owed(k)
    <3> DEFINE c == Cardinality(Of(commands, k))
               n == Cardinality(Of(events, k))
    <3>1. Cardinality(Of(events', k)) = n + (IF worker.doing = k THEN 1 ELSE 0)
      BY <1>1, <1>4, OfAppend
    <3>2. c \in Nat /\ n \in Nat
      BY <1>2, <1>4, OfFinite DEF ChannelsOK
    <3>3. worker'.doing # k
      BY <1>6 DEF Activities
    <3> HIDE DEF c, n
    <3>4. Owed(k)' = c + (n + (IF worker.doing = k THEN 1 ELSE 0)) + 0
      BY <3>1, <3>3, <1>1 DEF Owed, Of, c
    <3>5. Owed(k) = c + n + (IF worker.doing = k THEN 1 ELSE 0)
      BY DEF Owed, c, n
    <3> QED
      BY <3>2, <3>4, <3>5
  <2> QED
    BY <2>1, <1>2 DEF BusyWhileOwed, uiVars
<1>15. ReportsAreTrue'
  <2>1. /\ DOMAIN events' = DOMAIN events \cup {Len(events) + 1}
        /\ events'[Len(events) + 1] = e
        /\ \A i \in DOMAIN events : events'[i] = events[i]
    BY <1>1, <1>4, Appended
  <2>2. ASSUME e.kind = "stop" \/ (e.kind = "start" /\ ~e.ok)
        PROVE  \A p \in Pids : procs[p].at = "free"
    <3>1. worker.runtime.child = NoPid /\ worker.spawned = NoPid
      BY <2>2, <1>1, <1>4, Held DEF WorkerOK
    <3> QED
      BY <3>1, Held, WorkerAssumption DEF Children
  <2> QED
    BY <2>1, <2>2, <1>1, <1>2 DEF ReportsAreTrue
<1> QED
  BY <1>1, <1>2, <1>7, <1>8, <1>10, <1>11, <1>12, <1>13, <1>14, <1>15 DEF DesktopInv

\* Every step of the worker's threads.
LEMMA WorkerKeeps ==
  ASSUME DesktopInv, WorkerNext, UNCHANGED uiVars
  PROVE  DesktopInv'
BY TakeStartKeeps, TakeStopKeeps, TakePollKeeps, TakeDisconnectKeeps, TakeShutdownKeeps,
   SpawnKeeps, SpawnFailsKeeps, ReadyKeeps, ReadyFailsKeeps, StatusKeeps, DisconnectKeeps,
   PollAfterDisconnectKeeps, SendSnapshotKeeps, SendFinishedKeeps, AutoPollKeeps,
   ReadLineKeeps, CloseOutputKeeps
   DEF WorkerNext, WorkerRuns

-----------------------------------------------------------------------------
(* Steps of the window.                                                    *)

\* After a pump, what is owed is in the queue of commands or in work.
LEMMA PumpedOwed ==
  ASSUME DesktopInv, window \in {"open", "joining"}
  PROVE  /\ \A k \in Activities :
               Cardinality(Of(commands, k)) + (IF worker.doing = k THEN 1 ELSE 0)
                   = IF ActivityPumped = k THEN 1 ELSE 0
         /\ Cardinality(Of(commands, "poll")) + (IF worker.doing = "poll" THEN 1 ELSE 0)
                = IF PendingPumped THEN 1 ELSE 0
<1> DEFINE c(k) == Cardinality(Of(commands, k))
           n(k) == Cardinality(Of(events, k))
           d(k) == IF worker.doing = k THEN 1 ELSE 0
<1>1. /\ \A k \in Activities : Owed(k) = IF activity = k THEN 1 ELSE 0
      /\ Owed("poll") = IF pollPending THEN 1 ELSE 0
      /\ commands \in Seq([kind : CommandKinds, args : Option])
      /\ events \in Seq([kind : EventKinds, snapshot : Snapshot, ok : BOOLEAN])
      /\ activity \in Activities \cup {"idle"} /\ pollPending \in BOOLEAN
  BY DEF DesktopInv, BusyWhileOwed, ChannelsOK, WindowOK
<1>2. \A k : c(k) \in Nat /\ n(k) \in Nat /\ d(k) \in {0, 1} /\ Owed(k) = c(k) + n(k) + d(k)
  BY <1>1, OfFinite DEF Owed
<1>3. \A k : n(k) = 0 <=> k \notin Kinds
  BY <1>1, OfFinite DEF Kinds
<1> HIDE DEF c, n, d
<1>4. ASSUME NEW k \in Activities
      PROVE  c(k) + d(k) = IF ActivityPumped = k THEN 1 ELSE 0
  <2>1. CASE Kinds \cap Activities = {}
    <3>1. n(k) = 0 /\ ActivityPumped = activity
      BY <2>1, <1>3 DEF ActivityPumped
    <3> QED
      BY <3>1, <1>1, <1>2
  <2>2. CASE Kinds \cap Activities # {}
    <3>1. PICK a \in Activities : a \in Kinds
      BY <2>2
    <3>2. n(a) # 0 /\ ActivityPumped = "idle" /\ ActivityPumped # k
      BY <2>2, <3>1, <1>3 DEF ActivityPumped, Activities
    <3>3. Owed(a) = (IF activity = a THEN 1 ELSE 0) /\ Owed(k) = IF activity = k THEN 1 ELSE 0
      BY <1>1
    <3>4. Owed(a) = c(a) + n(a) + d(a) /\ Owed(k) = c(k) + n(k) + d(k)
      BY <1>2
    <3>5. c(a) \in Nat /\ n(a) \in Nat /\ d(a) \in {0, 1} /\ c(k) \in Nat /\ n(k) \in Nat
          /\ d(k) \in {0, 1}
      BY <1>2
    <3>6. activity = a /\ c(a) + d(a) = 0
      BY <3>2, <3>3, <3>4, <3>5
    <3>7. c(k) + d(k) = 0
      <4>1. CASE k = a
        BY <4>1, <3>6
      <4>2. CASE k # a
        BY <4>2, <3>3, <3>4, <3>5, <3>6
      <4> QED
        BY <4>1, <4>2
    <3> QED
      BY <3>2, <3>7
  <2> QED
    BY <2>1, <2>2
<1>5. c("poll") + d("poll") = IF PendingPumped THEN 1 ELSE 0
  <2>1. Owed("poll") = c("poll") + n("poll") + d("poll")
    BY <1>2
  <2>2. c("poll") \in Nat /\ n("poll") \in Nat /\ d("poll") \in {0, 1}
    BY <1>2
  <2>3. n("poll") = 0 <=> "poll" \notin Kinds
    BY <1>3
  <2> QED
    BY <2>1, <2>2, <2>3, <1>1 DEF PendingPumped
<1> QED
  BY <1>4, <1>5 DEF c, d

\* What the window has read, whatever it asks for then.
LEMMA PumpKeeps ==
  ASSUME DesktopInv, Pump, UNCHANGED window,
         activity' \in Activities \cup {"idle"}, pollPending' \in BOOLEAN,
         clicks' \in 0 .. MaxClicks
  PROVE  /\ (ProcessesOK /\ WorkerOK /\ Children /\ WindowOK /\ Whole /\ UpToDate)'
         /\ (procs \in [Pids -> Process])' /\ (lan \subseteq Addresses)' /\ ReportsAreTrue'
         /\ worker' = worker /\ events' = <<>> /\ events' \in Seq(EventType)
         /\ Pumped \in Known /\ Known' = {Pumped}
<1>1. /\ procs' = procs /\ lan' = lan /\ worker' = worker /\ settings' = settings
      /\ events' = <<>> /\ shown' = Pumped
  BY DEF Pump, startVars
<1>2. /\ WorkerOK /\ ChannelsOK /\ WindowOK /\ Whole /\ UpToDate /\ Children
      /\ ProcessesOK /\ procs \in [Pids -> Process] /\ lan \subseteq Addresses
  BY DEF DesktopInv
<1>3. Pumped \in Known /\ Known \subseteq Snapshot
  BY <1>2, PumpedKnown DEF ChannelsOK, WindowOK, EventType
<1>4. Pumped' = Pumped /\ Known' = {Pumped} /\ events' \in Seq(EventType)
  BY <1>1, AllRead
<1>5. WorkerOK' /\ Children' /\ ProcessesOK' /\ (procs \in [Pids -> Process])'
      /\ (lan \subseteq Addresses)'
  BY <1>1, <1>2 DEF WorkerOK, Children, ProcessesOK, Alive
<1>6. WindowOK'
  BY <1>1, <1>2, <1>3 DEF WindowOK, Sane
<1>7. Whole'
  BY <1>2, <1>3, <1>4 DEF Whole
<1>8. UpToDate'
  BY <1>1, <1>2, <1>4 DEF UpToDate, SnapshotOf
<1>9. ReportsAreTrue'
  BY <1>1 DEF ReportsAreTrue
<1> QED
  BY <1>1, <1>3, <1>4, <1>5, <1>6, <1>7, <1>8, <1>9

\* It may ask for nothing; ...
LEMMA PumpQuietly ==
  ASSUME DesktopInv, Pump, UNCHANGED <<window, commands>>,
         activity' = ActivityPumped, pollPending' = PendingPumped, clicks' \in 0 .. MaxClicks
  PROVE  DesktopInv'
<1>1. /\ WindowOK /\ ChannelsOK /\ NoneOlder
  BY DEF DesktopInv
<1>2. activity' \in Activities \cup {"idle"} /\ pollPending' \in BOOLEAN
  BY <1>1 DEF ActivityPumped, PendingPumped, WindowOK
<1>3. /\ (ProcessesOK /\ WorkerOK /\ Children /\ WindowOK /\ Whole /\ UpToDate)'
      /\ (procs \in [Pids -> Process])' /\ (lan \subseteq Addresses)' /\ ReportsAreTrue'
      /\ worker' = worker /\ events' = <<>> /\ events' \in Seq(EventType)
      /\ Pumped \in Known /\ Known' = {Pumped}
  BY <1>2, PumpKeeps
<1>4. ChannelsOK'
  BY <1>1, <1>3 DEF ChannelsOK, EventType, Sane
<1>5. NoneOlder'
  <2>1. Of(commands, "start")' = Of(commands, "start")
    BY DEF Of
  <2> QED
    BY <2>1, <1>1, <1>3 DEF NoneOlder
<1>6. BusyWhileOwed'
  <2>1. ASSUME NEW k PROVE Owed(k)' = Cardinality(Of(commands, k)) + (IF worker.doing = k THEN 1 ELSE 0)
    <3> DEFINE c == Cardinality(Of(commands, k))
    <3>1. c \in Nat
      BY <1>1, OfFinite DEF ChannelsOK
    <3> HIDE DEF c
    <3>2. Owed(k)' = c + 0 + (IF worker.doing = k THEN 1 ELSE 0)
      BY <1>3, OfEmpty DEF Owed, Of, c
    <3> QED
      BY <3>1, <3>2 DEF c
  <2> SUFFICES ASSUME window \in {"open", "joining"} PROVE BusyWhileOwed'
    BY DEF BusyWhileOwed
  <2> QED
    BY <2>1, PumpedOwed DEF BusyWhileOwed
<1> QED
  BY <1>3, <1>4, <1>5, <1>6 DEF DesktopInv

\* ... or, while the thread runs, for one thing that it does not wait for.
LEMMA PumpAndAsk ==
  ASSUME DesktopInv, Pump, Frames, UNCHANGED window, clicks' \in 0 .. MaxClicks,
         worker.at # "ended",
         NEW kind \in Activities \cup {"poll"}, NEW args \in Option,
         commands' = Append(commands, [kind |-> kind, args |-> args]),
         IF kind = "poll"
         THEN ~PendingPumped /\ pollPending' = TRUE /\ activity' = ActivityPumped
         ELSE ~BusyPumped /\ pollPending' = PendingPumped /\ activity' = kind,
         kind = "start" => Sane(args) /\ args.discover /\ ~Pumped.running
  PROVE  DesktopInv'
<1> DEFINE cmd == [kind |-> kind, args |-> args]
           Command == [kind : CommandKinds, args : Option]
<1>1. /\ WindowOK /\ ChannelsOK /\ NoneOlder /\ UpToDate /\ Whole /\ WorkerOK /\ BusyWhileOwed
  BY DEF DesktopInv
<1>2. activity' \in Activities \cup {"idle"} /\ pollPending' \in BOOLEAN
  BY <1>1 DEF ActivityPumped, PendingPumped, WindowOK
<1>3. /\ (ProcessesOK /\ WorkerOK /\ Children /\ WindowOK /\ Whole /\ UpToDate)'
      /\ (procs \in [Pids -> Process])' /\ (lan \subseteq Addresses)' /\ ReportsAreTrue'
      /\ worker' = worker /\ events' = <<>> /\ events' \in Seq(EventType)
      /\ Pumped \in Known /\ Known' = {Pumped}
  BY <1>2, PumpKeeps
<1>4. cmd \in Command /\ commands \in Seq(Command) /\ cmd.kind = kind /\ cmd.args = args
  BY <1>1 DEF ChannelsOK, CommandKinds
<1>5. window = "open"
  BY <1>1 DEF WindowOK, Frames
<1> HIDE DEF cmd, Command
<1>6. /\ commands' = Append(commands, cmd) /\ commands' \in Seq(Command)
      /\ DOMAIN commands' = DOMAIN commands \cup {Len(commands) + 1}
      /\ commands'[Len(commands) + 1] = cmd
      /\ \A i \in DOMAIN commands : commands'[i] = commands[i]
  <2>1. commands' = Append(commands, cmd)
    BY DEF cmd
  <2>2. /\ DOMAIN Append(commands, cmd) = DOMAIN commands \cup {Len(commands) + 1}
        /\ Append(commands, cmd)[Len(commands) + 1] = cmd /\ Append(commands, cmd) \in Seq(Command)
        /\ \A i \in DOMAIN commands : Append(commands, cmd)[i] = commands[i]
    BY <1>4, Appended
  <2> QED
    BY <2>1, <2>2, Zenon
<1>7. ChannelsOK'
  BY <1>1, <1>3, <1>4, <1>6 DEF ChannelsOK, EventType, Sane, Command
<1>8. BusyWhileOwed'
  <2>1. /\ \A k \in Activities :
               Cardinality(Of(commands, k)) + (IF worker.doing = k THEN 1 ELSE 0)
                   = IF ActivityPumped = k THEN 1 ELSE 0
        /\ Cardinality(Of(commands, "poll")) + (IF worker.doing = "poll" THEN 1 ELSE 0)
               = IF PendingPumped THEN 1 ELSE 0
    BY <1>5, PumpedOwed
  <2>2. ASSUME NEW k
        PROVE  Owed(k)' = (Cardinality(Of(commands, k)) + (IF worker.doing = k THEN 1 ELSE 0))
                              + (IF kind = k THEN 1 ELSE 0)
    <3> DEFINE c == Cardinality(Of(commands, k))
    <3>1. c \in Nat
      BY <1>4, OfFinite
    <3>2. Cardinality(Of(commands', k)) = c + (IF kind = k THEN 1 ELSE 0)
      BY <1>4, <1>6, OfAppend
    <3> HIDE DEF c
    <3>3. Owed(k)' = (c + (IF kind = k THEN 1 ELSE 0)) + 0 + (IF worker.doing = k THEN 1 ELSE 0)
      BY <3>2, <1>3, OfEmpty DEF Owed, Of
    <3> QED
      BY <3>1, <3>3 DEF c
  <2>3. CASE kind = "poll"
    BY <2>1, <2>2, <2>3 DEF BusyWhileOwed, Activities
  <2>4. CASE kind \in Activities
    <3>1. ActivityPumped = "idle" /\ kind # "poll"
      BY <2>4 DEF BusyPumped, Activities
    <3> QED
      BY <2>1, <2>2, <2>4, <3>1 DEF BusyWhileOwed, Activities
  <2> QED
    BY <2>3, <2>4
<1>9. NoneOlder'
  <2>1. CASE kind = "start"
    <3>1. worker.doing # "start"
      <4>1. /\ ActivityPumped = "idle" /\ "start" \in Activities
            /\ Cardinality(Of(commands, "start")) \in Nat
        BY <2>1, <1>4, OfFinite DEF BusyPumped, Activities
      <4>2. Cardinality(Of(commands, "start")) + (IF worker.doing = "start" THEN 1 ELSE 0)
                = IF ActivityPumped = "start" THEN 1 ELSE 0
        BY <4>1, <1>5, PumpedOwed
      <4> QED
        BY <4>1, <4>2
    <3>2. worker.runtime.child = NoPid
      BY <2>1, <3>1, <1>1, <1>5 DEF UpToDate
    <3>3. Pumped.info = NoLine
      BY <2>1, <1>1, <1>3 DEF Whole
    <3> QED
      BY <3>2, <3>3, <1>3 DEF NoneOlder
  <2>2. CASE kind # "start"
    <3>1. Of(commands, "start")' = Of(commands, "start")
      BY <2>2, <1>4, <1>6 DEF Of
    <3> QED
      BY <3>1, <1>1, <1>3 DEF NoneOlder
  <2> QED
    BY <2>1, <2>2
<1> QED
  BY <1>3, <1>7, <1>8, <1>9 DEF DesktopInv

\* An operation that finds the thread gone is over at once.
LEMMA StartServiceKeeps ==
  ASSUME DesktopInv, StartService, Frames, UNCHANGED window, clicks' \in 0 .. MaxClicks
  PROVE  DesktopInv'
<1>1. Pump /\ pollPending' = PendingPumped
  BY DEF StartService
<1>2. CASE Refused \/ (~BusyPumped /\ worker.at = "ended" /\ Request("start", Start(settings)))
  BY <1>1, <1>2, PumpQuietly DEF Refused, Request, BusyPumped
<1>3. CASE ~Pumped.running /\ ~BusyPumped /\ worker.at # "ended" /\ Request("start", Start(settings))
  <2>1. ServiceArgs(settings) \in Option /\ Sane(ServiceArgs(settings))
        /\ ServiceArgs(settings).discover
    BY DEF DesktopInv, WindowOK, Setting, ServiceArgs, Option, Sane
  <2>2. /\ activity' = "start"
        /\ commands' = Append(commands, [kind |-> "start", args |-> ServiceArgs(settings)])
    BY <1>3 DEF Request, Start
  <2>3. "start" \in Activities \cup {"poll"}
    BY DEF Activities
  <2> QED
    BY <1>1, <1>3, <2>1, <2>2, <2>3, PumpAndAsk
<1> QED
  BY <1>2, <1>3 DEF StartService

\* The place holder is an option.
LEMMA NoOptionType == NoOption \in Option
BY StartAssumption DEF NoOption, Option, NoPort

\* ServiceController::stop and ::disconnect_device.
LEMMA AskKeeps ==
  ASSUME DesktopInv, NEW kind \in {"stop", "disconnect"}, Ask(kind), Frames, UNCHANGED window,
         clicks' \in 0 .. MaxClicks
  PROVE  DesktopInv'
<1>1. Pump /\ pollPending' = PendingPumped
  BY DEF Ask
<1>2. CASE Refused \/ (~BusyPumped /\ worker.at = "ended" /\ Request(kind, Do(kind)))
  BY <1>1, <1>2, PumpQuietly DEF Refused, Request, BusyPumped
<1>3. CASE ~BusyPumped /\ worker.at # "ended" /\ Request(kind, Do(kind))
  <2>1. activity' = kind /\ commands' = Append(commands, [kind |-> kind, args |-> NoOption])
    BY <1>3 DEF Request, Do
  <2>2. kind \in Activities \cup {"poll"} /\ kind # "poll" /\ kind # "start"
    BY DEF Activities
  <2> QED
    BY <1>1, <1>3, <2>1, <2>2, NoOptionType, PumpAndAsk
<1> QED
  BY <1>2, <1>3 DEF Ask

\* ServiceController::refresh.
LEMMA RefreshKeeps ==
  ASSUME DesktopInv, Refresh, Frames, UNCHANGED window, clicks' \in 0 .. MaxClicks
  PROVE  DesktopInv'
<1>1. Pump /\ activity' = ActivityPumped
  BY DEF Refresh
<1>2. CASE pollPending' = PendingPumped /\ UNCHANGED commands
  BY <1>1, <1>2, PumpQuietly
<1>3. CASE ~PendingPumped /\ worker.at # "ended" /\ pollPending' = TRUE
           /\ commands' = Append(commands, Do("poll"))
  <2>1. commands' = Append(commands, [kind |-> "poll", args |-> NoOption])
    BY <1>3 DEF Do
  <2> QED
    BY <1>1, <1>3, <2>1, NoOptionType, PumpAndAsk
<1> QED
  BY <1>2, <1>3 DEF Refresh

\* LanPulseApp::toggle_service.
LEMMA ToggleKeeps ==
  ASSUME DesktopInv, Toggle, Frames, UNCHANGED window, clicks' \in 0 .. MaxClicks
  PROVE  DesktopInv'
BY StartServiceKeeps, AskKeeps DEF Toggle

\* What depends on the window only.
LEMMA UserOnly ==
  ASSUME DesktopInv, UNCHANGED <<startVars, workerVars>>
  PROVE  (ProcessesOK /\ procs \in [Pids -> Process] /\ lan \subseteq Addresses
             /\ WorkerOK /\ Children /\ ChannelsOK /\ ReportsAreTrue)'
<1> USE DEF startVars, workerVars, DesktopInv
<1>1. (ProcessesOK /\ procs \in [Pids -> Process] /\ lan \subseteq Addresses)'
  BY DEF ProcessesOK
<1>2. WorkerOK'
  BY DEF WorkerOK
<1>3. Children'
  BY DEF Children, Alive
<1>4. ChannelsOK' /\ ReportsAreTrue'
  BY DEF ChannelsOK, ReportsAreTrue
<1> QED
  BY <1>1, <1>2, <1>3, <1>4

\* Clicks that wait, settings, and the window that goes away.
LEMMA AsideKeeps ==
  ASSUME DesktopInv, UNCHANGED <<startVars, workerVars, shown, activity, pollPending>>,
         WindowOK', window' = window \/ window' \in {"closing", "closed"}
  PROVE  DesktopInv'
<1>1. Whole /\ UpToDate /\ NoneOlder /\ BusyWhileOwed
  BY DEF DesktopInv
<1>2. Known' = Known /\ Pumped' = Pumped
  BY DEF Known, Pumped, LastSnapshot, Snapshots, workerVars
<1>3. Whole'
  BY <1>1, <1>2 DEF Whole
<1>4. UpToDate'
  BY <1>1, <1>2 DEF UpToDate, SnapshotOf, workerVars
<1>5. NoneOlder'
  BY <1>1, <1>2 DEF NoneOlder, Of, workerVars
<1>6. BusyWhileOwed'
  BY <1>1 DEF BusyWhileOwed, Owed, Of, workerVars
<1> QED
  BY <1>3, <1>4, <1>5, <1>6, UserOnly DEF DesktopInv

\* A click in the tray menu.
LEMMA TrayClickKeeps ==
  ASSUME DesktopInv, TrayClick
  PROVE  DesktopInv'
<1>1. WindowOK'
  BY DesktopAssumption DEF TrayClick, DesktopInv, WindowOK, workerVars, Sane
<1> QED
  BY <1>1, AsideKeeps DEF TrayClick

\* Saved settings are such as a service takes.
LEMMA Sanitized ==
  ASSUME NEW s \in Setting
  PROVE  Sanitize(s) \in Setting /\ Sane(Sanitize(s))
<1> DEFINE cs == Greater(s.controlStart, 1)
           ce == Greater(s.controlEnd, cs)
           ds == Greater(s.discoveryStart, 1)
           de == Greater(s.discoveryEnd, ds)
           ms == IF s.packetMs \in PacketMillis THEN s.packetMs ELSE 5
<1>1. /\ s.controlStart \in 0 .. LastPort /\ s.controlEnd \in 0 .. LastPort
      /\ s.discoveryStart \in 0 .. LastPort /\ s.discoveryEnd \in 0 .. LastPort
      /\ LastPort \in Nat /\ 1 <= LastPort
  BY StartAssumption DEF Setting
<1>2. cs \in 0 .. LastPort /\ ce \in 0 .. LastPort /\ 1 <= cs /\ cs <= ce /\ ce <= LastPort
  BY <1>1 DEF Greater
<1>3. ds \in 0 .. LastPort /\ de \in 0 .. LastPort /\ 1 <= ds /\ ds <= de /\ de <= LastPort
  BY <1>1 DEF Greater
<1>4. ms \in PacketMillis /\ ms \in Nat
  BY DEF PacketMillis
<1>5. Sanitize(s) = [s EXCEPT !.packetMs = ms, !.controlStart = cs, !.controlEnd = ce,
                              !.discoveryStart = ds, !.discoveryEnd = de]
  BY DEF Sanitize, Setting
<1> HIDE DEF cs, ce, ds, de, ms
<1> DEFINE t == Sanitize(s)
<1>6. /\ t \in Setting /\ t.packetMs = ms /\ t.controlStart = cs /\ t.controlEnd = ce
      /\ t.discoveryStart = ds /\ t.discoveryEnd = de
  BY <1>2, <1>3, <1>4, <1>5 DEF Setting
<1> HIDE DEF t
<1>7. t \in Setting /\ Sane(t)
  BY <1>2, <1>3, <1>4, <1>6 DEF Sane
<1> QED
  BY <1>7 DEF t

\* Settings saved.
LEMMA ApplySettingsKeeps ==
  ASSUME DesktopInv, NEW draft \in Settings, ApplySettings(draft)
  PROVE  DesktopInv'
<1>1. settings' \in Setting /\ Sane(settings)'
  <2>1. draft \in Setting /\ settings' = Sanitize(draft)
    BY DesktopAssumption DEF ApplySettings
  <2> QED
    BY <2>1, Sanitized DEF Sane
<1>2. WindowOK'
  BY <1>1 DEF ApplySettings, DesktopInv, WindowOK, workerVars
<1> QED
  BY <1>2, AsideKeeps DEF ApplySettings

\* The window is gone.
LEMMA CloseKeeps ==
  ASSUME DesktopInv, Close
  PROVE  DesktopInv'
<1>1. WindowOK'
  BY DEF Close, DesktopInv, WindowOK, workerVars, Sane
<1> QED
  BY <1>1, AsideKeeps DEF Close

\* The thread has ended while the window waited for it.
LEMMA JoinedKeeps ==
  ASSUME DesktopInv, Joined
  PROVE  DesktopInv'
<1> DEFINE none == SnapshotOf(NoService)
<1>1. /\ worker.at = "ended" /\ worker.runtime.child = NoPid /\ window' = "closing"
      /\ shown' = [none EXCEPT !.error = shown.error] /\ activity' = "idle"
      /\ UNCHANGED <<startVars, workerVars, pollPending, settings, clicks>>
  BY Held DEF Joined, WorkerOK
<1>2. none \in Snapshot /\ none.running = FALSE /\ none.info = NoLine
  BY NothingSettled, SnapshotType DEF SnapshotOf
<1>3. shown.error \in BOOLEAN
  BY DEF DesktopInv, WindowOK, Snapshot
<1> HIDE DEF none
<1>4. shown' \in Snapshot /\ shown'.running = FALSE /\ shown'.info = NoLine
  BY <1>1, <1>2, <1>3 DEF Snapshot
<1>5. WindowOK'
  BY <1>1, <1>4 DEF DesktopInv, WindowOK, workerVars, Sane
<1>6. Known' \subseteq Known \cup {shown'}
  BY <1>1 DEF Known, Snapshots, workerVars
<1>7. Whole'
  BY <1>4, <1>6 DEF DesktopInv, Whole
<1>8. UpToDate' /\ NoneOlder' /\ BusyWhileOwed'
  BY <1>1 DEF UpToDate, NoneOlder, BusyWhileOwed, workerVars
<1> QED
  BY <1>1, <1>5, <1>7, <1>8, UserOnly DEF DesktopInv

\* ServiceController::shutdown sends the last command.
LEMMA QuitKeeps ==
  ASSUME DesktopInv, Quit
  PROVE  DesktopInv'
<1> DEFINE Command == [kind : CommandKinds, args : Option]
           cmd == Do("shutdown")
<1>1. /\ window = "open" /\ window' = "joining" /\ commands' = Append(commands, cmd)
      /\ UNCHANGED <<startVars, events, worker, shown, activity, pollPending, settings, clicks>>
  BY DEF Quit
<1>2. /\ WorkerOK /\ ChannelsOK /\ WindowOK /\ Whole /\ NoneOlder /\ Children /\ ReportsAreTrue
      /\ BusyWhileOwed
      /\ ProcessesOK /\ procs \in [Pids -> Process] /\ lan \subseteq Addresses
  BY DEF DesktopInv
<1>3. cmd \in Command /\ commands \in Seq(Command) /\ cmd.kind = "shutdown"
  BY <1>2, NoOptionType DEF ChannelsOK, Do, CommandKinds
<1> HIDE DEF Command, cmd
<1>4. /\ commands' \in Seq(Command) /\ DOMAIN commands' = DOMAIN commands \cup {Len(commands) + 1}
      /\ commands'[Len(commands) + 1] = cmd
      /\ \A i \in DOMAIN commands : commands'[i] = commands[i]
  <2>1. /\ DOMAIN Append(commands, cmd) = DOMAIN commands \cup {Len(commands) + 1}
        /\ Append(commands, cmd)[Len(commands) + 1] = cmd /\ Append(commands, cmd) \in Seq(Command)
        /\ \A i \in DOMAIN commands : Append(commands, cmd)[i] = commands[i]
    BY <1>3, Appended
  <2> QED
    BY <1>1, <2>1, Zenon
<1>5. (ProcessesOK /\ procs \in [Pids -> Process] /\ lan \subseteq Addresses)'
  BY <1>1, <1>2 DEF startVars, ProcessesOK
<1>6. WorkerOK' /\ Children'
  BY <1>1, <1>2 DEF startVars, WorkerOK, Children, Alive
<1>7. ChannelsOK'
  BY <1>1, <1>2, <1>3, <1>4 DEF ChannelsOK, Sane, Command
<1>8. WindowOK' /\ ReportsAreTrue'
  BY <1>1, <1>2 DEF startVars, WindowOK, Sane, ReportsAreTrue
<1>9. Known' = Known /\ Whole' /\ UpToDate'
  BY <1>1, <1>2 DEF Known, Snapshots, Whole, UpToDate
<1>10. Of(commands, "start")' = Of(commands, "start")
  BY <1>3, <1>4 DEF Of
<1>11. NoneOlder'
  BY <1>1, <1>2, <1>9, <1>10 DEF NoneOlder
<1>12. BusyWhileOwed'
  <2>1. ASSUME NEW k \in Activities \cup {"poll"} PROVE Owed(k)' = Owed(k)
    <3> DEFINE c == Cardinality(Of(commands, k))
    <3>1. Cardinality(Of(commands', k)) = c + 0
      BY <1>1, <1>3, OfAppend DEF Activities
    <3>2. c \in Nat
      BY <1>3, OfFinite
    <3> HIDE DEF c
    <3>3. Cardinality(Of(commands', k)) = c
      BY <3>1, <3>2
    <3> QED
      BY <3>3, <1>1 DEF Owed, Of, c
  <2> QED
    BY <2>1, <1>1, <1>2 DEF BusyWhileOwed
<1> QED
  BY <1>5, <1>6, <1>7, <1>8, <1>9, <1>11, <1>12 DEF DesktopInv

\* Every step of the window.
LEMMA UserKeeps ==
  ASSUME DesktopInv, Sync \/ Joined \/ Close \/ User
  PROVE  DesktopInv'
<1>1. clicks \in 0 .. MaxClicks /\ MaxClicks \in Nat
  BY DesktopAssumption DEF DesktopInv, WindowOK
<1>2. CASE Sync
  BY <1>1, <1>2, PumpQuietly DEF Sync
<1>3. CASE ClickToggle
  BY <1>1, <1>3, ToggleKeeps DEF ClickToggle, Drawn
<1>4. CASE ClickRefresh
  BY <1>1, <1>4, RefreshKeeps DEF ClickRefresh, Drawn
<1>5. CASE ClickDisconnect
  BY <1>1, <1>5, AskKeeps DEF ClickDisconnect, Drawn
<1>6. CASE HandleTray
  <2>1. clicks' \in 0 .. MaxClicks
    BY <1>1, <1>6 DEF HandleTray
  <2> QED
    BY <2>1, <1>6, ToggleKeeps DEF HandleTray
<1> QED
  BY <1>2, <1>3, <1>4, <1>5, <1>6, JoinedKeeps, CloseKeeps, TrayClickKeeps, QuitKeeps,
     ApplySettingsKeeps DEF User

-----------------------------------------------------------------------------
(* The inductive invariant.                                                *)

\* It holds at first ...
LEMMA DesktopStarts == DesktopInit => DesktopInv
<1> SUFFICES ASSUME DesktopInit PROVE DesktopInv
  OBVIOUS
<1> DEFINE Command == [kind : CommandKinds, args : Option]
<1>1. /\ procs = [p \in Pids |-> Free] /\ lan \subseteq Addresses
      /\ events = <<>> /\ worker = NewWorker /\ shown = SnapshotOf(NoService)
      /\ pollPending = FALSE /\ clicks = 0 /\ window = "open"
      /\ activity = (IF settings.startOnLaunch THEN "start" ELSE "idle")
      /\ commands = (IF settings.startOnLaunch THEN <<Start(settings)>> ELSE <<>>)
  BY DEF DesktopInit
<1>2. settings \in Setting /\ Sane(settings)
  BY Sanitized, DesktopAssumption DEF DesktopInit
<1>3. /\ Start(settings) \in Command /\ Start(settings).kind = "start"
      /\ Sane(Start(settings).args) /\ Start(settings).args.discover
  BY <1>2 DEF Start, ServiceArgs, Setting, Sane, Option, CommandKinds, Activities
<1>4. ProcessesOK /\ procs \in [Pids -> Process] /\ \A p \in Pids : procs[p].at = "free"
  <2>1. \A p \in Pids : procs[p] = Free
    BY <1>1
  <2> QED
    BY <2>1, <1>1, FreeOK DEF ProcessesOK, ProcessOK
<1>5. /\ worker \in WorkerType /\ worker.at = "boot" /\ worker.doing = "none"
      /\ worker.spawned = NoPid /\ worker.heard = NoLine /\ worker.runtime = NoService
      /\ worker.ok = TRUE
  <2>1. NoService \in Runtime
    BY NothingSettled DEF Settled
  <2> QED
    BY <2>1, <1>1, NoOptionType DEF NewWorker, WorkerType, Stages
<1>6. WorkerOK
  BY <1>5, NothingSettled DEF WorkerOK, Activities
<1>7. Children
  BY <1>4, <1>5 DEF Children, Alive
<1>8. shown \in Snapshot /\ shown.running = FALSE /\ shown.info = NoLine
  BY <1>1, NothingSettled, SnapshotType DEF SnapshotOf
<1>9. Known = {shown}
  BY <1>1 DEF Known, Snapshots
<1>10. Whole /\ UpToDate /\ NoneOlder /\ ReportsAreTrue
  BY <1>1, <1>4, <1>5, <1>8, <1>9, NothingSettled
     DEF Whole, UpToDate, NoneOlder, ReportsAreTrue
<1>11. ChannelsOK
  <2>1. events \in Seq([kind : EventKinds, snapshot : Snapshot, ok : BOOLEAN])
    BY <1>1
  <2> HIDE DEF Command
  <2>2. commands \in Seq(Command)
    BY <1>1, <1>3
  <2>3. \A i \in DOMAIN commands : commands[i] = Start(settings)
    BY <1>1
  <2> QED
    BY <2>1, <2>2, <2>3, <1>3 DEF ChannelsOK, Command
<1>12. WindowOK
  <2>1. clicks \in 0 .. MaxClicks
    BY <1>1, DesktopAssumption
  <2>2. activity \in Activities \cup {"idle"} /\ pollPending \in BOOLEAN
    BY <1>1 DEF Activities
  <2> QED
    BY <1>1, <1>2, <1>8, <2>1, <2>2 DEF WindowOK
<1>13. BusyWhileOwed
  <2>1. ASSUME NEW k \in Activities \cup {"poll"}
        PROVE  Owed(k) = Cardinality(Of(commands, k)) + 0 + 0
    BY <1>1, <1>5, OfEmpty DEF Owed, Activities
  <2>2. \A k : Cardinality(Of(<<>>, k)) = 0
    BY OfEmpty
  <2>3. CASE settings.startOnLaunch
    <3> HIDE DEF Command
    <3> DEFINE c == Start(settings)
    <3>1. <<>> \in Seq(Command) /\ Append(<<>>, c) = <<c>>
      OBVIOUS
    <3>2. ASSUME NEW k
          PROVE  Cardinality(Of(Append(<<>>, c), k)) =
                     Cardinality(Of(<<>>, k)) + (IF c.kind = k THEN 1 ELSE 0)
      BY <3>1, <1>3, OfAppend
    <3>3. \A k : Cardinality(Of(commands, k)) = 0 + (IF "start" = k THEN 1 ELSE 0)
      BY <3>1, <3>2, <2>2, <2>3, <1>1, <1>3
    <3> QED
      BY <2>1, <2>3, <3>3, <1>1 DEF BusyWhileOwed, Activities
  <2>4. CASE ~settings.startOnLaunch
    BY <2>1, <2>2, <2>4, <1>1 DEF BusyWhileOwed, Activities
  <2> QED
    BY <2>3, <2>4
<1> QED
  BY <1>1, <1>4, <1>6, <1>7, <1>10, <1>11, <1>12, <1>13 DEF DesktopInv

\* ... and every step keeps it.
LEMMA DesktopSteps == DesktopInv /\ [DesktopNext]_desktopVars => DesktopInv'
<1> SUFFICES ASSUME DesktopInv, [DesktopNext]_desktopVars PROVE DesktopInv'
  OBVIOUS
<1>1. CASE WorkerNext /\ UNCHANGED uiVars
  BY <1>1, WorkerKeeps
<1>2. CASE Surroundings /\ UNCHANGED <<workerVars, uiVars>>
  BY <1>2, SurroundingsKeep
<1>3. CASE Sync \/ Joined \/ Close \/ User
  BY <1>3, UserKeeps
<1>4. CASE UNCHANGED desktopVars
  <2>1. UNCHANGED <<startVars, workerVars, shown, activity, pollPending>> /\ WindowOK'
        /\ window' = window
    BY <1>4 DEF desktopVars, uiVars, workerVars, DesktopInv, WindowOK, Sane
  <2> QED
    BY <2>1, AsideKeeps
<1> QED
  BY <1>1, <1>2, <1>3, <1>4 DEF DesktopNext

\* In every state that can be reached, DesktopInv holds.
THEOREM DesktopInvariant == DesktopSpec => []DesktopInv
BY DesktopStarts, DesktopSteps, PTL DEF DesktopSpec

-----------------------------------------------------------------------------
(* What follows from it.                                                   *)

\* The process records, the channels, the worker and the window have the types
\* of ServiceController, ServiceRuntime and LanPulseApp.
THEOREM DesktopTypes == DesktopSpec => []DesktopTypeOK
<1>1. DesktopInv => DesktopTypeOK
  BY DEF DesktopInv, DesktopTypeOK, ChannelsOK, WindowOK, WorkerOK, WorkerType
<1> QED
  BY <1>1, DesktopInvariant, PTL

\* No lanpulse-service process that the window does not know (service/process.rs,
\* terminate_child and reap_child of service/runtime.rs), and none once it is closed.
THEOREM NoStray == DesktopSpec => []NoStrayService
<1>1. DesktopInv => NoStrayService
  <2> SUFFICES ASSUME DesktopInv PROVE NoStrayService
    OBVIOUS
  <2>1. window = "closed" => worker.at = "ended"
    BY DEF DesktopInv, WindowOK
  <2> QED
    BY <2>1, Held, NothingSettled DEF NoStrayService, Children, WorkerOK
<1> QED
  BY <1>1, DesktopInvariant, PTL

\* What AppSettings::sanitize lets through, service_args passes on and parse_args
\* reads is what Options::validate leaves as it is.
THEOREM OptionsPass == DesktopSpec => []OptionsAgree
<1>1. DesktopInv => OptionsAgree
  <2> SUFFICES ASSUME DesktopInv, NEW p \in Pids, procs[p].at = "options"
               PROVE  /\ Valid(procs[p].options)
                      /\ Validated(procs[p].options) = procs[p].options
    BY DEF OptionsAgree
  <2> DEFINE o == procs[p].options
  <2>1. Sane(o) /\ o \in Option
    BY DEF DesktopInv, ProcessesOK, ProcessOK, Process
  <2>2. Greater(o.controlStart, o.controlEnd) = o.controlEnd
        /\ Greater(o.discoveryStart, o.discoveryEnd) = o.discoveryEnd
    BY <2>1, StartAssumption DEF Sane, Greater, Option
  <2> QED
    BY <2>1, <2>2 DEF Sane, Valid, Validated, Option
<1> QED
  BY <1>1, DesktopInvariant, PTL

\* ServiceSnapshot::activity and ServiceController::poll_pending are set exactly as
\* long as one answer of that kind is in the channels or in work.
THEOREM BusyExactly == DesktopSpec => []BusyWhileOwed
<1>1. DesktopInv => BusyWhileOwed
  BY DEF DesktopInv
<1> QED
  BY <1>1, DesktopInvariant, PTL

\* A stop or a failed start that the window reads of has left no process.
THEOREM ReportsHold == DesktopSpec => []ReportsAreTrue
<1>1. DesktopInv => ReportsAreTrue
  BY DEF DesktopInv
<1> QED
  BY <1>1, DesktopInvariant, PTL

\* The snapshots of send_snapshot leave the window behind the worker only while
\* there is something to read or to do.
THEOREM ShownIsHeld == DesktopSpec => []ShownAgrees
<1>1. DesktopInv => ShownAgrees
  <2> SUFFICES ASSUME DesktopInv, window = "open", events = <<>>, worker.at = "idle"
               PROVE  shown = SnapshotOf(worker.runtime)
    BY DEF ShownAgrees
  <2>1. Snapshots = {}
    BY DEF Snapshots
  <2>2. Pumped = shown
    BY <2>1 DEF Pumped
  <2> QED
    BY <2>2 DEF DesktopInv, UpToDate
<1> QED
  BY <1>1, DesktopInvariant, PTL

\* The control URL that the worker asks and the pairing code that a phone scans
\* are of the ports that the living service has bound.
THEOREM AnnouncedHeld == DesktopSpec => []AnnouncedPortsHeld
<1>1. DesktopInv => AnnouncedPortsHeld
  <2> SUFFICES ASSUME DesktopInv, NEW p \in Pids, Alive(p),
                      NEW info \in {worker.runtime.info, shown.info}, info # NoLine
               PROVE  /\ procs[p].control = info.control /\ procs[p].discovery = info.discovery
                      /\ info.control \in procs[p].options.controlStart .. procs[p].options.controlEnd
    BY DEF AnnouncedPortsHeld, QrCode
  <2>1. p \in {worker.runtime.child, worker.spawned} /\ p # NoPid
    BY Held, WorkerAssumption DEF Children, Alive
  <2>2. worker.at # "ended"
    BY <2>1, Held DEF WorkerOK
  <2>3. worker.runtime.child = p /\ info = worker.runtime.info
    <3>1. CASE worker.at = "await"
      <4>1. \A s \in Known : s.info = NoLine
        BY <3>1 DEF DesktopInv, NoneOlder
      <4>2. shown.info = NoLine /\ worker.runtime.info = NoLine
        BY <3>1, <4>1, Held, NothingSettled DEF Known
      <4> QED
        BY <4>2
    <3>2. CASE worker.at # "await"
      <4>1. worker.runtime.child = p
        BY <3>2, <2>1, Held
      <4>2. shown.info \in {NoLine, worker.runtime.info}
        BY <4>1, <2>1 DEF DesktopInv, NoneOlder, Known
      <4> QED
        BY <4>1, <4>2
    <3> QED
      BY <3>1, <3>2
  <2>4. procs[p].at \in Announced /\ info = ReadyLine(procs[p]) /\ ProcessOK(procs[p])
    BY <2>3, Held DEF Children, ProcessesOK
  <2> QED
    BY <2>4 DEF ProcessOK, ReadyLine
<1> QED
  BY <1>1, DesktopInvariant, PTL

==============================================================================
