--------------------------- MODULE MCLiveSession ---------------------------
(* LiveSession on small instances.                                         *)
EXTENDS LiveSession
=============================================================================
