--------------------------- MODULE MCLiveCapture ---------------------------
(* LiveCapture on small instances.                                         *)
EXTENDS LiveCapture
=============================================================================
