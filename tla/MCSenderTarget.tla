---------------------------- MODULE MCSenderTarget ----------------------------
(* SenderTarget for TLC. *)
EXTENDS SenderTarget
==============================================================================
