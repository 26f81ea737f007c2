----------------------------- MODULE ServiceStart -----------------------------
(***************************************************************************)
(* A lanpulse-service process from its command line to the moment it       *)
(* serves (main.rs, startup.rs, config/options.rs, config/network.rs,      *)
(* bind_first_available of control.rs, bind_first_available_udp of         *)
(* discovery.rs).  Other modules say who starts it and who reads what it   *)
(* prints: Desktop, a window; Discovery, a terminal.                       *)
(*                                                                         *)
(* A step is one call that others can tell apart: a bind of one port, one  *)
(* line written.  Ports are small numbers, TCP and UDP apart.  A process   *)
(* that has ended stays a zombie until its parent waits for it.            *)
(***************************************************************************)
EXTENDS Naturals, FiniteSets

CONSTANTS Pids,        \* processes that can exist at a time
          LastPort,    \* the highest port number
          Addresses,   \* IPv4 addresses the desktop can have in its LAN
          Score,       \* ipv4_score of each: less is better
          Loopback,    \* 127.0.0.1, announced when there is no other
          NoLine,      \* nothing to read
          HostnameLists    \* "hostname -I" works on this desktop

PacketMillis == {5, 10, 20}
NoPort == 0
Ports == 1 .. LastPort

\* The part of Options that decides how a process starts.
Option == [packetMs : Nat, controlStart : 0 .. LastPort, controlEnd : 0 .. LastPort,
           discoveryStart : 0 .. LastPort, discoveryEnd : 0 .. LastPort,
           discover : BOOLEAN]

\* Options::default, with ports 1 .. last for both sockets.
DefaultOptions(last) ==
    [packetMs |-> 5, controlStart |-> 1, controlEnd |-> last,
     discoveryStart |-> 1, discoveryEnd |-> last, discover |-> TRUE]

\* The ready line (StartupEvent), without the PIN and the audio format.
Info == [control : Ports, discovery : Ports \cup {NoPort},
         address : Addresses \cup {Loopback}]

ASSUME StartAssumption ==
    /\ LastPort \in Nat \ {0}
    /\ Loopback \notin Addresses
    /\ Score \in [Addresses -> Nat]
    /\ NoLine \notin Info
    /\ HostnameLists \in BOOLEAN

VARIABLES
    procs,     \* the service processes
    taken,     \* sockets that other programs hold
    lan        \* the addresses the desktop has now

startVars == <<procs, taken, lan>>

(***************************************************************************)
(* procs[p].at         where main.rs is; "free": no such process           *)
(* procs[p].options    the command line                                    *)
(* procs[p].try        the port to try next                                *)
(* procs[p].control, procs[p].discovery   the ports it holds               *)
(* procs[p].address    lan_ip, the address in its control_url              *)
(* procs[p].line       the ready line, written and not read yet            *)
(* procs[p].read       somebody holds the other end of its output, while   *)
(*                     that can matter                                     *)
(* procs[p].phone      a phone holds the lease                             *)
(***************************************************************************)
Places == {"free", "options", "control", "discovery", "announcing", "ending line",
           "serving", "zombie"}

NoOption == [packetMs |-> 0, controlStart |-> NoPort, controlEnd |-> NoPort,
             discoveryStart |-> NoPort, discoveryEnd |-> NoPort, discover |-> FALSE]

Free == [at |-> "free", options |-> NoOption, try |-> NoPort, control |-> NoPort,
         discovery |-> NoPort, address |-> Loopback, line |-> NoLine, read |-> FALSE,
         phone |-> FALSE]

Alive(p) == procs[p].at \notin {"free", "zombie"}

\* What a dead process wrote can still be read.
Zombie(proc) == [Free EXCEPT !.at = "zombie", !.line = proc.line]

Spawned(o) == [Free EXCEPT !.at = "options", !.options = o, !.read = TRUE]

Become(p, proc) ==
    /\ procs' = [procs EXCEPT ![p] = proc]
    /\ UNCHANGED <<taken, lan>>

Exit(p) == Become(p, Zombie(procs[p]))

------------------------------------------------------------------------------
(* The command line.                                                       *)

Greater(a, b) == IF a < b THEN b ELSE a

\* Options::validate: the packet duration stands for all that it refuses ...
Valid(o) == o.packetMs \in PacketMillis

\* ... and a range that ends before it starts becomes one port.
Validated(o) == [o EXCEPT !.controlEnd = Greater(o.controlStart, @),
                          !.discoveryEnd = Greater(o.discoveryStart, @)]

\* parse_args: what it refuses ends the process.
ReadOptions(p) ==
    /\ procs[p].at = "options"
    /\ IF Valid(procs[p].options)
       THEN Become(p, [procs[p] EXCEPT !.at = "control", !.options = Validated(@),
                                       !.try = procs[p].options.controlStart])
       ELSE Exit(p)

------------------------------------------------------------------------------
(* The two sockets and the address.                                        *)

\* Port 0 always succeeds: it asks for any port.
FreeControl(port) ==
    /\ <<"tcp", port>> \notin taken
    /\ port = NoPort \/ \A p \in Pids : ~(Alive(p) /\ procs[p].control = port)

FreeDiscovery(port) ==
    /\ <<"udp", port>> \notin taken
    /\ port = NoPort \/ \A p \in Pids : ~(Alive(p) /\ procs[p].discovery = port)

\* detect_lan_ips_from_hostname
HostnameIps == IF HostnameLists THEN lan ELSE {}

\* best_lan_ip: of these, one with the least score.
BestLanIp == {a \in HostnameIps : \A b \in HostnameIps : Score[a] <= Score[b]}

\* detect_lan_ip: without them the address of the default route; there may be
\* none, whatever addresses the desktop has.
DetectLanIp == IF HostnameIps # {} THEN BestLanIp ELSE lan \cup {Loopback}

TrialLeft(p) ==
    IF procs[p].at = "control" THEN procs[p].try <= procs[p].options.controlEnd
    ELSE procs[p].try <= procs[p].options.discoveryEnd

\* bind_first_available, a port that is free; then detect_lan_ip.
BindControl(p) ==
    /\ procs[p].at = "control" /\ TrialLeft(p)
    /\ FreeControl(procs[p].try)
    /\ \E address \in DetectLanIp :
          Become(p, [procs[p] EXCEPT
              !.at = IF procs[p].options.discover THEN "discovery" ELSE "announcing",
              !.control = procs[p].try, !.address = address,
              !.try = IF procs[p].options.discover
                      THEN procs[p].options.discoveryStart ELSE NoPort])

\* bind_first_available_udp, a port that is free.
BindDiscovery(p) ==
    /\ procs[p].at = "discovery" /\ TrialLeft(p)
    /\ FreeDiscovery(procs[p].try)
    /\ Become(p, [procs[p] EXCEPT !.at = "announcing", !.discovery = procs[p].try,
                                  !.try = NoPort])

\* Either of them, a port that is not.
TryNext(p) ==
    /\ procs[p].at \in {"control", "discovery"} /\ TrialLeft(p)
    /\ ~(IF procs[p].at = "control" THEN FreeControl(procs[p].try)
         ELSE FreeDiscovery(procs[p].try))
    /\ Become(p, [procs[p] EXCEPT !.try = @ + 1])

\* Either of them, at the end of the range.
NoneAvailable(p) ==
    /\ procs[p].at \in {"control", "discovery"} /\ ~TrialLeft(p)
    /\ Exit(p)

------------------------------------------------------------------------------
(* The announcement.                                                       *)

\* A faulty version: announces the first port of the range.
ReadyLineFirstPort(proc) ==
    [control |-> proc.options.controlStart, discovery |-> proc.discovery,
     address |-> proc.address]

ReadyLine(proc) ==
    [control |-> proc.control, discovery |-> proc.discovery, address |-> proc.address]

\* print_ready: an empty line and the ready line ...
Announce(p) ==
    /\ procs[p].at = "announcing"
    /\ Become(p, [procs[p] EXCEPT !.at = "ending line", !.line = ReadyLine(procs[p])])

\* ... and an empty line after it; then axum::serve.
Serve(p) ==
    /\ procs[p].at = "ending line" /\ procs[p].read
    /\ Become(p, [procs[p] EXCEPT !.at = "serving", !.read = FALSE])

\* A line that nobody reads any more cannot be written, and ends the process.
PipeBroken(p) ==
    /\ procs[p].at \in {"announcing", "ending line"} /\ ~procs[p].read
    /\ Exit(p)

Starts(p) ==
    \/ ReadOptions(p) \/ BindControl(p) \/ BindDiscovery(p) \/ TryNext(p)
    \/ NoneAvailable(p) \/ Announce(p) \/ Serve(p) \/ PipeBroken(p)

------------------------------------------------------------------------------
(* What happens around it.                                                 *)

\* The process ends by itself, by Ctrl-C or by a kill from elsewhere.
Dies(p) ==
    /\ Alive(p)
    /\ Exit(p)

\* A phone takes the lease or lets it go (SessionState says how).
PhoneChanges(p) ==
    /\ procs[p].at = "serving"
    /\ Become(p, [procs[p] EXCEPT !.phone = ~@])

\* Another program opens a socket that is free, or closes its own.
OpensSocket(socket) ==
    /\ IF socket[1] = "tcp" THEN FreeControl(socket[2]) ELSE FreeDiscovery(socket[2])
    /\ taken' = taken \cup {socket}
    /\ UNCHANGED <<procs, lan>>

ClosesSocket(socket) ==
    /\ socket \in taken
    /\ taken' = taken \ {socket}
    /\ UNCHANGED <<procs, lan>>

\* The desktop joins or leaves a network.
NetworkChanges(addresses) ==
    /\ addresses # lan
    /\ lan' = addresses
    /\ UNCHANGED <<procs, taken>>

==============================================================================
