------------------------------ MODULE Discovery -------------------------------
(***************************************************************************)
(* LAN discovery: the responder of each service (discovery.rs) and the     *)
(* programs that look for services, lanpulse-discover and the phones'      *)
(* UdpDiscoveryClient.  Services are started from a terminal here.         *)
(*                                                                         *)
(* Datagrams can be lost and overtake each other.  Datagrams that are not  *)
(* a probe are ignored by the responder and left out.                      *)
(***************************************************************************)
EXTENDS ServiceStart

CONSTANTS Seekers,       \* programs that look for services
          Targets,       \* the ports each of them probes
          OneProbe,      \* those that try again on localhost (lanpulse-discover)
          CommandLines   \* the options a service can be started with

VARIABLES
    stopped,    \* services whose responder has ended
    probes,     \* probes in the sockets of the responders, by sender
    answers,    \* answers on their way to each seeker
    seekers     \* what each seeker does and has heard

discoveryVars == <<startVars, stopped, probes, answers, seekers>>

NewSeeker == [at |-> "idle", left |-> {}, heard |-> {}, again |-> FALSE]

DiscoveryInit ==
    /\ procs = [p \in Pids |-> Free]
    /\ taken = {} /\ lan \in SUBSET Addresses
    /\ stopped = {} /\ probes = [p \in Pids |-> {}]
    /\ answers = [c \in Seekers |-> {}] /\ seekers = [c \in Seekers |-> NewSeeker]

------------------------------------------------------------------------------
(* The responder.                                                          *)

\* From its bind to the end of the process, or to its first error.
Responds(p) == Alive(p) /\ procs[p].discovery # NoPort /\ p \notin stopped

\* DiscoveryResponse: the control URL was made when the service started.
DiscoveryResponse(p) == ReadyLine(procs[p])

Answer(p, c) ==
    /\ Responds(p) /\ c \in probes[p]
    /\ probes' = [probes EXCEPT ![p] = @ \ {c}]
    /\ answers' = [answers EXCEPT ![c] = @ \cup {DiscoveryResponse(p)}]
    /\ UNCHANGED <<startVars, stopped, seekers>>

\* A datagram that cannot be sent or received ends the responder, not the service.
ResponderStops(p) ==
    /\ Responds(p)
    /\ stopped' = stopped \cup {p}
    /\ probes' = [probes EXCEPT ![p] = {}]
    /\ UNCHANGED <<startVars, answers, seekers>>

------------------------------------------------------------------------------
(* Those who look.                                                         *)

Seek(c) ==
    /\ seekers[c].at = "idle"
    /\ seekers' = [seekers EXCEPT ![c] = [NewSeeker EXCEPT !.at = "asking", !.left = Targets[c]]]
    /\ UNCHANGED <<startVars, stopped, probes, answers>>

\* One datagram to one port; it reaches whoever holds that, or nobody.
Probe(c, port, arrives) ==
    /\ seekers[c].at = "asking" /\ port \in seekers[c].left
    /\ seekers' = [seekers EXCEPT ![c].left = @ \ {port}]
    /\ probes' = [p \in Pids |->
           IF arrives /\ Responds(p) /\ procs[p].discovery = port
           THEN probes[p] \cup {c} ELSE probes[p]]
    /\ UNCHANGED <<startVars, stopped, answers>>

Listen(c) ==
    /\ seekers[c].at = "asking" /\ seekers[c].left = {}
    /\ seekers' = [seekers EXCEPT ![c].at = "listening"]
    /\ UNCHANGED <<startVars, stopped, probes, answers>>

Hear(c, answer) ==
    /\ seekers[c].at = "listening" /\ answer \in answers[c]
    /\ seekers' = [seekers EXCEPT ![c].heard = @ \cup {answer}]
    /\ answers' = [answers EXCEPT ![c] = @ \ {answer}]
    /\ UNCHANGED <<startVars, stopped, probes>>

Loses(c, answer) ==
    /\ answer \in answers[c]
    /\ answers' = [answers EXCEPT ![c] = @ \ {answer}]
    /\ UNCHANGED <<startVars, stopped, probes, seekers>>

\* At the deadline the socket is closed.  lanpulse-discover, having heard
\* nothing, then asks its own host.
Deadline(c) ==
    /\ seekers[c].at = "listening"
    /\ seekers' = [seekers EXCEPT ![c] =
           IF c \in OneProbe /\ @.heard = {} /\ ~@.again
           THEN [@ EXCEPT !.at = "asking", !.left = Targets[c], !.again = TRUE]
           ELSE [@ EXCEPT !.at = "idle"]]
    /\ answers' = [answers EXCEPT ![c] = {}]
    /\ probes' = [p \in Pids |-> probes[p] \ {c}]
    /\ UNCHANGED <<startVars, stopped>>

------------------------------------------------------------------------------
(* All together.                                                           *)

\* A terminal starts a service, and waits for its end.
Launch(p, o) ==
    /\ procs[p] = Free
    /\ Become(p, Spawned(o))
    /\ UNCHANGED <<stopped, probes, answers, seekers>>

Wait(p) ==
    /\ procs[p].at = "zombie"
    /\ Become(p, Free)
    /\ stopped' = stopped \ {p}
    /\ probes' = [probes EXCEPT ![p] = {}]
    /\ UNCHANGED <<answers, seekers>>

Services ==
    \E p \in Pids :
        \/ \E o \in CommandLines : Launch(p, o)
        \/ Wait(p)
        \/ (Starts(p) \/ Dies(p)) /\ UNCHANGED <<stopped, probes, answers, seekers>>
        \/ ResponderStops(p)
        \/ \E c \in Seekers : Answer(p, c)

Seeks ==
    \E c \in Seekers :
        \/ Seek(c) \/ Listen(c) \/ Deadline(c)
        \/ \E port \in Ports, arrives \in BOOLEAN : Probe(c, port, arrives)
        \/ \E answer \in answers[c] : Hear(c, answer) \/ Loses(c, answer)

Network ==
    /\ \E addresses \in SUBSET Addresses : NetworkChanges(addresses)
    /\ UNCHANGED <<stopped, probes, answers, seekers>>

DiscoverySpec == DiscoveryInit /\ [][Services \/ Seeks \/ Network]_discoveryVars

------------------------------------------------------------------------------

\* "LAN discovery returns the actual control address and port"
\* (docs/product-requirements.md): the address in an answer is one that the
\* desktop has when the responder sends it, and the port is the service's.
AnswersActual ==
    [][\A c \in Seekers :
          \A answer \in answers'[c] \ answers[c] :
              /\ answer.address \in (IF lan = {} THEN {Loopback} ELSE lan)
              /\ \E q \in Pids : Responds(q) /\ procs[q].control = answer.control]_discoveryVars

==============================================================================
