------------------------- MODULE MCSemanticCanvas -------------------------
(* SemanticCanvas on small instances.                                      *)
EXTENDS SemanticCanvas

From(s, t) == <<s, t, "discussion_provenance">>
For(s, t) == <<s, t, "supports">>
Against(s, t) == <<s, t, "opposes">>

\* A discussion with a line through a card, and a card beside it.
Crowded == {From(1, 2), For(3, 1), From(1, 3)}

\* Two discussions that grow side by side, joined by a late relation.
Joined == {Against(1, 3), From(2, 3), From(1, 2), From(1, 4), Against(6, 5), For(5, 4)}
===========================================================================
