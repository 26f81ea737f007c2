---------------------------- MODULE MCMediaSender ----------------------------
(* MediaSender for TLC. *)
EXTENDS MediaSender, TLC

\* Phones are told apart by nothing but being the target.
PhoneSymmetry == Permutations(Phones)
==============================================================================
