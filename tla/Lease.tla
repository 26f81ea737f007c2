-------------------------------- MODULE Lease --------------------------------
(***************************************************************************)
(* What the desktop promises the phones: one renewable playback lease.     *)
(*                                                                         *)
(* At any time at most one client holds the lease.  Another client gets it *)
(* only when it is free or has run out; the holder may renew it, move its  *)
(* session to another address, or take a new session; a session that has   *)
(* ended never comes back.  SessionState, the model of the handlers of     *)
(* desktop-service/src/control.rs over desktop-service/src/state.rs, is    *)
(* checked and proved to implement this specification.                     *)
(***************************************************************************)
EXTENDS Naturals

CONSTANTS Clients,       \* installations that may hold the lease (client_id)
          Addrs,         \* UDP addresses a phone can receive on
          Sessions,      \* session ids; 0 stands for no session
          LeaseTimeout,  \* DEFAULT_LEASE_TIMEOUT, 15 s in the code
          NoDevice       \* the lease is free

VARIABLES now,      \* the monotonic clock
          holder,   \* the lease: NoDevice, or who holds it and since when
          retired   \* sessions that held the lease and no longer do

leaseVars == <<now, holder, retired>>

Expired == holder.refreshed + LeaseTimeout <= now

\* The sessions that end when the lease passes to session s (0: to nobody).
Ending(s) ==
    IF holder # NoDevice /\ holder.session # s THEN {holder.session} ELSE {}

Init == /\ now = 0
        /\ holder = NoDevice
        /\ retired = {}

\* A new session for client c, which takes over nobody's running lease.
Grant(c, s, a) ==
    /\ \/ holder = NoDevice
       \/ holder.client = c
       \/ Expired
    /\ s \notin retired
    /\ holder # NoDevice => holder.session # s
    /\ holder' = [client |-> c, session |-> s, target |-> a, refreshed |-> now]
    /\ retired' = retired \cup Ending(s)
    /\ UNCHANGED now

\* The holder keeps its session, at the same address or at another one.
Renew(a) ==
    /\ holder # NoDevice
    /\ ~Expired
    /\ holder' = [holder EXCEPT !.target = a, !.refreshed = now]
    /\ UNCHANGED <<now, retired>>

\* The lease is given up, taken back by the desktop's user, or runs out.
Release ==
    /\ holder' = NoDevice
    /\ retired' = retired \cup Ending(0)
    /\ UNCHANGED now

Tick == /\ now' = now + 1
        /\ UNCHANGED <<holder, retired>>

Next == \/ \E c \in Clients, s \in Sessions, a \in Addrs : Grant(c, s, a)
        \/ \E a \in Addrs : Renew(a)
        \/ Release
        \/ Tick

Spec == Init /\ [][Next]_leaseVars
==============================================================================
