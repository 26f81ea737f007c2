----------------------------- MODULE SenderTarget -----------------------------
(***************************************************************************)
(* The media sender's cached target (run_media_sender in                   *)
(* desktop-service/src/media/sender.rs) running against the session state. *)
(*                                                                         *)
(* For every frame the loop compares target_generation with the one it     *)
(* last observed, an atomic load, and re-reads the target behind its lock  *)
(* only when they differ.  The handlers of SessionState write the target   *)
(* first and bump the generation afterwards, so the two reads can straddle *)
(* any number of changes.  Capture, packets and statistics are left to     *)
(* the modules of the media path.                                          *)
(***************************************************************************)
EXTENDS SessionState

CONSTANT MaxGeneration  \* u64::MAX, "nothing observed yet"; never a generation

ASSUME GenerationAssumption == MaxGeneration \notin Nat

VARIABLE sender
(***************************************************************************)
(* sender.at        where the loop is                                      *)
(* sender.fetched   the generation loaded in this iteration                *)
(* sender.observed  observed_target_generation                             *)
(* sender.target    cached_target                                          *)
(***************************************************************************)

senderVars == <<vars, sender>>

Booting == [at |-> "boot", fetched |-> 0, observed |-> MaxGeneration, target |-> NoAddr]

SenderInit == Init /\ sender = Booting

\* run_media_sender begins, with --target first when there is one; nothing is cached.
Boot ==
    /\ sender.at = "boot"
    /\ MediaStarts \/ MediaStartsIdle
    /\ sender' = [sender EXCEPT !.at = IF DirectTarget = NoAddr THEN "load" ELSE "direct"]

BootDirectDone ==
    /\ sender.at = "direct"
    /\ SetDirectTargetDone
    /\ sender' = [sender EXCEPT !.at = "load"]

LoadSame ==
    /\ sender.at = "load"
    /\ generation = sender.observed
    /\ sender' = [sender EXCEPT !.at = "send"]
    /\ UNCHANGED vars

LoadChanged ==
    /\ sender.at = "load"
    /\ generation # sender.observed
    /\ sender' = [sender EXCEPT !.at = "read", !.fetched = generation]
    /\ UNCHANGED vars

\* A faulty version: the target is fetched only while there is none.
ReadTargetOnce ==
    /\ sender.at = "read"
    /\ sender' = [sender EXCEPT !.at = "send", !.observed = sender.fetched,
                                !.target = IF @ = NoAddr THEN target ELSE @]
    /\ UNCHANGED vars

ReadTarget ==
    /\ sender.at = "read"
    /\ sender' = [sender EXCEPT !.at = "send", !.observed = sender.fetched,
                                !.target = target]
    /\ UNCHANGED vars

\* A frame leaves for the cached target, or there is none and the loop sleeps.
Send ==
    /\ sender.at = "send"
    /\ sender' = [sender EXCEPT !.at = "load"]
    /\ UNCHANGED vars

\* Capture or the socket fails; the supervisor starts the sender again.
SenderFails ==
    /\ sender.at = "send"
    /\ sender.target # NoAddr
    /\ mediaStarts < MaxMediaStarts
    /\ sender' = Booting
    /\ UNCHANGED vars

\* The UDP socket could not be bound, before the loop begins.
BindFails ==
    /\ sender.at = "load"
    /\ sender.observed = MaxGeneration
    /\ mediaStarts < MaxMediaStarts
    /\ sender' = Booting
    /\ UNCHANGED vars

SenderStep ==
    \/ Boot \/ BootDirectDone
    \/ LoadSame \/ LoadChanged \/ ReadTarget \/ Send

SenderNext ==
    \/ ControlNext /\ UNCHANGED sender
    \/ SenderStep
    \/ SenderFails
    \/ BindFails

SenderSpec == SenderInit /\ [][SenderNext]_senderVars

(***************************************************************************)
(* Fairness.  The runtime polls every ready task and tokio's RwLock queues *)
(* its waiters first come first served, so a task that waits for the       *)
(* device lock gets it: strong fairness for the steps that take it.  The   *)
(* expirer wakes every second.  The sender's loop goes round after every   *)
(* frame, or every packet_ms while there is no target; that capture keeps  *)
(* delivering frames or fails is assumed.  Nothing is assumed of the       *)
(* phones, of failures or of time.                                         *)
(***************************************************************************)
FairSenderSpec ==
    /\ SenderSpec
    /\ \A h \in Handlers : SF_senderVars(Handle(h) /\ UNCHANGED sender)
    /\ SF_senderVars(Expire /\ UNCHANGED sender)
    /\ WF_senderVars(ExpireDone /\ UNCHANGED sender)
    /\ WF_senderVars(SenderStep)

------------------------------------------------------------------------------

SenderTypeOK ==
    /\ TypeOK
    /\ sender \in [at : {"boot", "direct", "load", "read", "send"},
                   fetched : Nat, observed : Nat \cup {MaxGeneration},
                   target : Addrs \cup {NoAddr}]

\* The sender never trusts a stale target: when the generation it observed is
\* the current one and no change is half done, its cached target is the
\* session's (the lock-free check at the top of run_media_sender's loop).
CacheCoherent ==
    sender.observed = generation /\ ~TargetInFlux => sender.target = target

\* When the target stops changing the sender ends up sending to it, or to
\* nobody when there is none.
SenderFollowsTarget ==
    \A a \in Addrs \cup {NoAddr} :
        <>[](target = a) => <>[](sender.target = a)
==============================================================================
