---------------------------- MODULE MCRtpReceiver ----------------------------
(* RtpReceiver for TLC. *)
EXTENDS RtpReceiver
==============================================================================
