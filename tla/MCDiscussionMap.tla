-------------------------- MODULE MCDiscussionMap --------------------------
(* DiscussionMap on small instances.                                       *)
EXTENDS DiscussionMap

\* The identity of a node and the text of a label are compared, never ordered.
Symmetry == Permutations(Nodes) \cup Permutations(Labels)
=============================================================================
