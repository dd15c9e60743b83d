-------------------------- MODULE MCLiveUtterance --------------------------
(* LiveUtterance on small instances.                                       *)
EXTENDS LiveUtterance
=============================================================================
