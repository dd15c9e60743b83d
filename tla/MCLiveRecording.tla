-------------------------- MODULE MCLiveRecording --------------------------
(* LiveRecording on small instances.                                       *)
EXTENDS LiveRecording
=============================================================================
