-------------------------- MODULE SemanticCanvas --------------------------
(***************************************************************************)
(* The semantic canvas of prototype/semantic_canvas.py: every card of the  *)
(* discussion gets one cell of an endless grid, computed from the accepted *)
(* relations and the order of the events, again for every revision.  The   *)
(* live screen and the final record draw the same world.                   *)
(*                                                                         *)
(* Cards are numbered in the order they were detected, which is also the   *)
(* order of their identities.  Archiving moves no card; a merge, which     *)
(* rewrites relations, is left out, as are cameras, labels and times.      *)
(***************************************************************************)
EXTENDS Integers, Sequences, FiniteSets, SequencesExt

CONSTANTS
    Cards,    \* cards a meeting detects, 1 .. n
    Links,    \* relations <<source, target, type>> it may come to
    MaxExtra  \* bound: events that remove a relation or give one again

Relations == {"discussion_provenance", "supports", "opposes"}

ASSUME CanvasAssumption ==
    /\ Cards = 1 .. Cardinality(Cards)
    /\ Links \subseteq Cards \X Cards \X Relations
    /\ \A k \in Links : k[1] # k[2]
    /\ MaxExtra \in Nat

VARIABLES
    events,   \* accepted events: <<card>> detected, a relation given, <<>> for a removal
    sources,  \* for every accepted relation, the events it rests on
    world     \* the canvas that was drawn last: a cell for every card

vars == <<events, sources, world>>

-----------------------------------------------------------------------------
(* The grid: a cell is 440 by 285 units, a card 404 by 190 around its      *)
(* centre.                                                                 *)

X(c) == c[1] * 440
Y(c) == c[2] * 285

First(s, Test(_)) == s[SelectInSeq(s, Test)]

\* Independent regions lie on a spiral around the first; four cells apart in one
\* direction and five in the other.
Turn(walk) ==
    IF walk.steps < walk.limit THEN walk
    ELSE [walk EXCEPT !.dx = -walk.dy, !.dy = walk.dx, !.steps = 0, !.turns = @ + 1,
                      !.limit = IF walk.turns % 2 = 1 THEN @ + 1 ELSE @]

Walk[i \in 0 .. Cardinality(Cards)] ==
    IF i = 0 THEN [x |-> 0, y |-> 0, dx |-> 1, dy |-> 0, limit |-> 1, steps |-> 0, turns |-> 0]
    ELSE LET w == Walk[i - 1]
         IN Turn([w EXCEPT !.x = @ + w.dx, !.y = @ + w.dy, !.steps = @ + 1])

RootCell(i) == <<4 * Walk[i].x, 5 * Walk[i].y>>

\* The cells at distance r, in the order they are tried.
Ring(cell, r, direction) ==
    LET width == 2 * r + 1
        Beside(j) == <<cell[1] + (IF j % 2 = 1 THEN -r ELSE r), cell[2] - r + (j - 1) \div 2>>
        Below(j) == IF j <= width
                   THEN <<cell[1] - r + j - 1, cell[2] + r>>
                   ELSE <<cell[1] - r + j - width - 1, cell[2] - r>>
    IN [j \in 1 .. 2 * width |-> IF direction = "side" THEN Beside(j) ELSE Below(j)]

FirstFree(preferred, occupied, direction) ==
    IF preferred \notin occupied THEN preferred
    ELSE LET Free(c) == c \notin occupied
             HasFree(r) == \E i \in 1 .. 4 * r + 2 : Free(Ring(preferred, r, direction)[i])
             r == CHOOSE r \in 1 .. 1 + Cardinality(occupied) :
                      HasFree(r) /\ \A q \in 1 .. r - 1 : ~HasFree(q)
         IN First(Ring(preferred, r, direction), Free)

-----------------------------------------------------------------------------
(* The first placement, before any relation pulls at the cards.            *)

\* What a card hangs on, the closest kind first: the card its discussion comes from,
\* or one it speaks for or against.
Anchors(n, known, accepted) ==
    {<<0, k[1], "child">> : k \in {k \in accepted :
        k[3] = "discussion_provenance" /\ k[2] = n /\ k[1] \in known}}
    \cup {<<1, k[2], k[3]>> : k \in {k \in accepted :
        k[3] # "discussion_provenance" /\ k[1] = n /\ k[2] \in known}}

Closest(S) ==
    CHOOSE a \in S : \A b \in S :
        \/ a[1] < b[1]
        \/ a[1] = b[1] /\ a[2] < b[2]
        \/ a[1] = b[1] /\ a[2] = b[2] /\ (a[3] = b[3] \/ a[3] = "opposes")

NextTo(cell, placement) ==
    CASE placement = "child"    -> <<cell[1], cell[2] + 1>>
      [] placement = "supports" -> <<cell[1] - 1, cell[2]>>
      [] placement = "opposes"  -> <<cell[1] + 1, cell[2]>>

Place(placed, n, accepted) ==
    LET occupied == {placed.cell[m] : m \in DOMAIN placed.cell}
        anchors == Anchors(n, DOMAIN placed.cell, accepted)
        a == Closest(anchors)
    IN IF anchors # {}
       THEN [placed EXCEPT !.cell = @ @@ (n :> FirstFree(NextTo(placed.cell[a[2]], a[3]), occupied,
                                                 IF a[3] = "child" THEN "down" ELSE "side"))]
       ELSE [cell |-> placed.cell @@ (n :> FirstFree(RootCell(placed.roots), occupied, "side")),
             roots |-> placed.roots + 1]

\* Mutated: the newest card is placed first.
DetectedBug(log) == Reverse(SelectSeq(log, LAMBDA e : Len(e) = 1))

\* The cards that were detected, in their order.
Detected(log) == SelectSeq(log, LAMBDA e : Len(e) = 1)

Placed(log, accepted) ==
    FoldLeft(LAMBDA placed, e : Place(placed, e[1], accepted),
             [cell |-> <<>>, roots |-> 0], Detected(log)).cell

-----------------------------------------------------------------------------
(* Lines between cards.                                                    *)

Spread(i, j) == IF i <= j THEN <<i, j>> ELSE <<j, i>>

\* The ranges of two pairs of coordinates do not overlap.
Clear(i, j, k, l) == Spread(i, j)[2] <= Spread(k, l)[1] \/ Spread(k, l)[2] <= Spread(i, j)[1]

\* On which side of the line from p to q is r.
Side(p, q, r) == (q[1] - p[1]) * (r[2] - p[2]) - (q[2] - p[2]) * (r[1] - p[1])

Opposite(i, j) == (i < 0 /\ j > 0) \/ (i > 0 /\ j < 0)

\* Two segments cross in a point that is inside both.
ProperCross(a, b, c, d) ==
    /\ ~Clear(a[1], b[1], c[1], d[1])
    /\ ~Clear(a[2], b[2], c[2], d[2])
    /\ Opposite(Side(a, b, c), Side(a, b, d))
    /\ Opposite(Side(c, d, a), Side(c, d, b))

LineHitsCard(a, b, p) ==
    LET corner == <<<<p[1] - 202, p[2] - 95>>, <<p[1] + 202, p[2] - 95>>,
                    <<p[1] + 202, p[2] + 95>>, <<p[1] - 202, p[2] + 95>>>>
    IN /\ ~Clear(a[1], b[1], p[1] - 202, p[1] + 202)
       /\ ~Clear(a[2], b[2], p[2] - 95, p[2] + 95)
       /\ \E i \in 1 .. 4 : ProperCross(a, b, corner[i], corner[(i % 4) + 1])

Ends(k) == {k[1], k[2]}

\* Crossings of the lines at n, and ten for a line through the card of another.
ConflictScore(n, cell, links) ==
    LET At(m) == <<X(cell[m]), Y(cell[m])>>
        Hits(k, m) == m \notin Ends(k) /\ LineHitsCard(At(k[1]), At(k[2]), At(m))
        incident == {k \in links : n \in Ends(k)}
        crossing == {pair \in incident \X links :
            /\ Ends(pair[1]) \cap Ends(pair[2]) = {}
            /\ ProperCross(At(pair[1][1]), At(pair[1][2]), At(pair[2][1]), At(pair[2][2]))}
        through == {pair \in incident \X DOMAIN cell : Hits(pair[1], pair[2])}
        over == {k \in links : Hits(k, n)}
    IN Cardinality(crossing) + 10 * (Cardinality(through) + Cardinality(over))

-----------------------------------------------------------------------------
(* A new relation moves one of its ends, if that makes the picture clearer.*)

Offsets == {o \in (-2 .. 2) \X (-2 .. 2) :
               o # <<0, 0>> /\ (0 \in {o[1], o[2]} \/ o \in {-1, 1} \X {-1, 1})}

Abs(i) == IF i < 0 THEN -i ELSE i

\* No other card's centre may come closer than a card: it may not be in that cell.
Moves(n, priority, cell, links) ==
    LET baseline == ConflictScore(n, cell, links)
        Moved(o) == [cell EXCEPT ![n] = <<@[1] + o[1], @[2] + o[2]>>]
    IN {[score |-> ConflictScore(n, Moved(o), links), dist |-> Abs(o[1]) + Abs(o[2]),
         priority |-> priority, card |-> n, to |-> Moved(o)[n]] :
            o \in {o \in Offsets :
                      /\ Moved(o)[n] \notin {cell[m] : m \in DOMAIN cell}
                      /\ ConflictScore(n, Moved(o), links) < baseline}}

Better(m, best) ==
    LET a == <<m.score, m.dist, m.priority, m.to[1], m.to[2]>>
        b == <<best.score, best.dist, best.priority, best.to[1], best.to[2]>>
    IN a = b \/ \E i \in 1 .. 5 : a[i] < b[i] /\ \A j \in 1 .. i - 1 : a[j] = b[j]

\* The target is preferred to the source; at most one card moves.
Repaired(k, cell, links) ==
    LET moves == Moves(k[2], 0, cell, links) \cup Moves(k[1], 1, cell, links)
        best == CHOOSE m \in moves : \A other \in moves : Better(m, other)
    IN IF moves = {} THEN cell ELSE [cell EXCEPT ![best.card] = best.to]

\* Mutated: an event counts for its relation although a removal came after it.
GaveBug(given, log, i) == log[i] \in DOMAIN given

\* Event i gave a relation that is accepted and rests on it.
Gave(given, log, i) == log[i] \in DOMAIN given /\ i \in given[log[i]]

\* The cards that were there when event i came.
Available(log, i, cell) == {n \in DOMAIN cell : \E j \in 1 .. i : log[j] = <<n>>}

\* One event of the history: the first that gave a relation repairs it, among the
\* cards that were there and the relations drawn until then.
Repair(drawn, given, log, i) ==
    IF ~Gave(given, log, i) \/ log[i] \in drawn.links THEN drawn
    ELSE LET there == Available(log, i, drawn.cell)
             links == drawn.links \cup {log[i]}
             seen == {k \in links : Ends(k) \subseteq there}
             cell == [n \in there |-> drawn.cell[n]]
         IN [cell |-> IF Ends(log[i]) \subseteq there
                      THEN Repaired(log[i], cell, seen) @@ drawn.cell
                      ELSE drawn.cell,
             links |-> links]

\* project_semantic_canvas
Project(log, given) ==
    FoldLeft(LAMBDA drawn, i : Repair(drawn, given, log, i),
             [cell |-> Placed(log, DOMAIN given), links |-> {}],
             [i \in 1 .. Len(log) |-> i]).cell

-----------------------------------------------------------------------------
Init ==
    /\ events = <<>>
    /\ sources = <<>>
    /\ world = <<>>

Draw == world' = Project(events', sources')

Known == {n \in Cards : \E i \in DOMAIN events : events[i] = <<n>>}

DetectCard(n) ==
    /\ Known = 1 .. n - 1
    /\ events' = Append(events, <<n>>)
    /\ UNCHANGED sources
    /\ Draw

\* Events beyond the first that names a card or gives a relation.
Extra(log) == Len(log) - Cardinality(ToSet(log) \ {<<>>})

\* Detected or put there by a person; given again, it rests on one more event.
GiveRelation(k) ==
    /\ Ends(k) \subseteq Known
    /\ events' = Append(events, k)
    /\ Extra(events') <= MaxExtra
    /\ sources' = (k :> {Len(events')} \cup (IF k \in DOMAIN sources THEN sources[k] ELSE {}))
                  @@ sources
    /\ Draw

\* A person takes a relation away.
RemoveRelation(k) ==
    /\ k \in DOMAIN sources
    /\ events' = Append(events, <<>>)
    /\ Extra(events') <= MaxExtra
    /\ sources' = [j \in DOMAIN sources \ {k} |-> sources[j]]
    /\ Draw

Next ==
    \/ \E n \in Cards : DetectCard(n)
    \/ \E k \in Links : GiveRelation(k) \/ RemoveRelation(k)

Spec == Init /\ [][Next]_vars
-----------------------------------------------------------------------------
(* Properties.                                                             *)

\* Every variable has its type.
TypeOK ==
    /\ events \in Seq({<<>>} \cup {<<n>> : n \in Cards} \cup Links)
    /\ DOMAIN sources \subseteq Links
    /\ \A k \in DOMAIN sources : sources[k] # {} /\ \A i \in sources[k] : events[i] = k
    /\ DOMAIN world = Known
    /\ \A n \in Known : world[n] \in Int \X Int

\* Two cards share a cell only when the younger came after a relation that moved the
\* older: neither the first placement nor a repair puts a card on one that is there.
OnlyLatecomersCollide ==
    \A m, n \in Known :
        m < n /\ world[m] = world[n] =>
            \E i, j \in DOMAIN events :
                /\ i < j /\ events[j] = <<n>>
                /\ \E k \in DOMAIN sources : i \in sources[k] /\ m \in Ends(k)

\* A relation that was taken away has left no trace in the picture, also when it was
\* given again later: it is drawn as one that is new.
RemovalLeavesNoTrace ==
    world = Project([i \in DOMAIN events |->
                         IF \/ Len(events[i]) = 1
                            \/ \E k \in DOMAIN sources : i \in sources[k]
                         THEN events[i] ELSE <<>>],
                    sources)

CanvasInv ==
    /\ TypeOK
    /\ OnlyLatecomersCollide
    /\ RemovalLeavesNoTrace

\* A card that is new on the canvas moves no other, so that people find a card where
\* they saw it as long as no relation is given or taken.
NewCardMovesNobody ==
    [][\A n \in Cards : DetectCard(n) => \A m \in Known : world'[m] = world[m]]_vars

-----------------------------------------------------------------------------
(* What a document of the repository says and the code does not keep.      *)

\* semantic-canvas-motion-review.md: a new relation may move an end of it to a nearby
\* free position, so two cards are never drawn in one place.
CardsApart == \A m, n \in Known : m # n => world[m] # world[n]
=============================================================================
