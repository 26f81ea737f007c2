---------------------------- MODULE MCCaptureRing ----------------------------
EXTENDS CaptureRing

PcmChunks == {1, 3}
=============================================================================
