------------------------ MODULE MCDiscussionGraph ------------------------
(* DiscussionGraph on small instances.                                     *)
EXTENDS DiscussionGraph, TLC

\* The identity of a node and the text of a label are compared, never ordered.
Symmetry == Permutations(Nodes) \cup Permutations(Labels)
=============================================================================
