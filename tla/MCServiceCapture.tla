------------------------- MODULE MCServiceCapture -------------------------
(* ServiceCapture on small instances.                                      *)
EXTENDS ServiceCapture, TLC

\* Sockets and pages are only compared.
Symmetry == Permutations(Sockets) \cup Permutations(Owners)
=============================================================================
