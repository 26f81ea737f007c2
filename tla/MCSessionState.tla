---------------------------- MODULE MCSessionState ----------------------------
(* SessionState for TLC.  The instances that check only safety are           *)
(* symmetric in their handlers, and in the clients and addresses that no     *)
(* constant singles out.                                                     *)
EXTENDS SessionState, TLC

HandlerSymmetry == Permutations(Handlers)
Symmetry == HandlerSymmetry \cup Permutations(Clients) \cup Permutations(Addrs)
==============================================================================
