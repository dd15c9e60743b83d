-------------------------- MODULE MCGraphAnalysis --------------------------
(* GraphAnalysis on small instances.                                       *)
EXTENDS GraphAnalysis, TLC

\* The identity of a node and the text of a label are compared, never ordered.
Symmetry == Permutations(Nodes) \cup Permutations(Labels)
=============================================================================
