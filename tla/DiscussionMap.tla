--------------------------- MODULE DiscussionMap ---------------------------
(***************************************************************************)
(* What people see of the canonical graph: the lanes of the discussion map *)
(* (prototype/layout.py), the six cards of the shared screen               *)
(* (shared_projection.py), the focused flow and the final map              *)
(* (semantic_projection.py) and the compact map of a long meeting          *)
(* (projection.py).                                                        *)
(*                                                                         *)
(* The lanes and the shared screen remember where they put a card; the     *)
(* others are computed from the graph and its events each time.  They read *)
(* the history in a few places, and the model keeps what those reads       *)
(* return.  The session's own events draw nothing and are left out.  Node  *)
(* identities are ordered as their nodes were detected.                    *)
(***************************************************************************)
EXTENDS DiscussionGraph, SequencesExt

CONSTANTS
    MaxShared,    \* cards of the shared screen, 6 in the code
    MaxFlow,      \* cards of the focused flow, 5
    MaxOverview,  \* cards of the final overview, 12
    MaxDetail     \* cards of the current lane in the compact map, 8

ASSUME MapAssumption ==
    /\ {MaxShared, MaxFlow, MaxOverview, MaxDetail} \subseteq Nat
    /\ MaxFlow > 0
    /\ Nodes \cap {"turn", "correction", "unassigned", "parking", "archived"} = {}

VARIABLES
    order,      \* the nodes of the graph in their order
    recent,     \* nodes and marks, in the order of the latest event each rests on
    listed,     \* the relations that put a node into a topic, in the order of the graph
    turned,     \* the topic the latest change of topic turned to
    corrected,  \* the card the latest correction of a relation is about
    scanned,    \* the topic in focus, as the layout reads it from the events
    bornUnder,  \* that topic when a node was detected
    placed,     \* StableLayout: for every node it has seen, its home and its places
    slots       \* SharedProjection: the card in each slot

historyVars == <<order, recent, listed, turned, corrected, scanned, bornUnder>>
mapVars == <<historyVars, placed, slots>>
allVars == <<vars, mapVars>>

Ordinary == {"idea", "option", "concern"}
Membership == {"contains", "has_option"}

\* How recent something is, 0 when it never was.  "turn" and "correction" stand for the
\* latest event of each kind.
Recency(x) == IF \E k \in DOMAIN recent : recent[k] = x
              THEN CHOOSE k \in DOMAIN recent : recent[k] = x ELSE 0

Later(x, S) == Recency(x) # 0 /\ \A n \in S : Recency(n) < Recency(x)

Latest(S) == CHOOSE n \in S : Later(n, S \ {n})

-----------------------------------------------------------------------------
(* Lanes (StableLayout).  A lane is a topic, "unassigned", or one of the   *)
(* two for what is parked or archived.                                     *)

HomeLane(n) ==
    LET i == SelectInSeq(listed, LAMBDA k : k[2] = n /\ kind[k[1]] = "topic")
    IN CASE kind[n] = "topic"         -> n
         [] kind[n] # "topic" /\ i # 0 -> listed[i][1]
         [] OTHER -> IF bornUnder[n] # None THEN bornUnder[n] ELSE "unassigned"

\* One more than the highest place that was ever given.
NextOrder(taken) == Max({-1} \cup (taken \ {None})) + 1

\* A node that is new takes the next place of its lane, which is its home for good.
Home(places, n) ==
    LET lane == HomeLane(n)
        neighbours == {m \in DOMAIN places : places[m].lane = lane}
    IN IF n \in DOMAIN places THEN places
       ELSE places @@ (n :> [lane |-> lane, home |-> NextOrder({places[m].home : m \in neighbours}),
                             park |-> None, archive |-> None])

Aside(places, n) ==
    CASE status[n] = "parked" /\ places[n].park = None ->
            [places EXCEPT ![n].park = NextOrder({places[m].park : m \in DOMAIN places})]
      [] status[n] = "archived" /\ places[n].archive = None ->
            [places EXCEPT ![n].archive = NextOrder({places[m].archive : m \in DOMAIN places})]
      [] OTHER -> places

\* StableLayout.project: what it remembers afterwards.
Placements == FoldLeft(Aside, FoldLeft(Home, placed, order), order)

\* Lane and place of a card.
Position(places, n) ==
    CASE status[n] = "parked"   -> <<"parking", places[n].park>>
      [] status[n] = "archived" -> <<"archived", places[n].archive>>
      [] OTHER                  -> <<places[n].lane, places[n].home>>

-----------------------------------------------------------------------------
(* The shared screen (select_shared).                                      *)

SharedInactive == {"absent", "archived", "resolved", "completed", "revoked", "parked"}

Shareable(n) == n \in Nodes /\ kind[n] \in Ordinary /\ status[n] \notin SharedInactive

\* The latest first.
ByRecency(Shown(_)) == Reverse(SelectSeq(recent, Shown))

FirstOf(s, n) == SubSeq(s, 1, IF Len(s) < n THEN Len(s) ELSE n)

Selected == FirstOf(ByRecency(Shareable), MaxShared)

\* Mutated: the cards move up when one leaves.
RefillBug(old, cards) == cards \o [i \in 1 .. MaxShared - Len(cards) |-> None]

\* A card keeps its slot, a new one takes the first that is empty.
Refill(old, cards) ==
    FoldLeft(LAMBDA s, n : IF n \in ToSet(s) THEN s
                           ELSE [s EXCEPT ![SelectInSeq(s, LAMBDA m : m = None)] = n],
             [i \in 1 .. MaxShared |-> IF old[i] \in ToSet(cards) THEN old[i] ELSE None],
             cards)

-----------------------------------------------------------------------------
(* The focused flow and the final map (semantic_projection).               *)

\* The cards they draw.
Cards == {n \in Nodes : kind[n] # "topic" /\ status[n] \notin {"absent", "archived", "parked"}}

Lines == {k \in Present(edges) : k[3] \in Semantic /\ {k[1], k[2]} \subseteq Cards}

\* The card the discussion is at: the last one spoken of, the end of a later correction,
\* or the last card of a topic people came back to later still; None if that has none.
FlowFocus ==
    LET children == {n \in Cards : \E k \in Present(edges) :
                        k[3] \in Membership /\ k[1] = turned /\ k[2] = n}
        NewestOf(S) == IF S = {} THEN None ELSE Latest(S)
    IN IF Later("turn", Cards) THEN NewestOf(children)
       ELSE IF Later("correction", Cards) /\ corrected \in Cards THEN corrected
       ELSE NewestOf(Cards)

Neighbours(n) == (UNION {{k[1], k[2]} : k \in {k \in Lines : n \in {k[1], k[2]}}}) \ {n}

\* How close a card is to f, the card in focus: f comes from it, it comes from f, one
\* speaks for or against the other, or it is one line further away.
Closeness(n, f) ==
    IF <<n, f, "discussion_provenance">> \in Lines THEN 0
    ELSE IF <<f, n, "discussion_provenance">> \in Lines THEN 1
    ELSE IF n \in Neighbours(f) THEN 2 ELSE 3

\* Mutated: the neighbourhood is cut by age alone.
NearestBug(near, f) == FirstOf(ByRecency(LAMBDA n : n \in near), MaxFlow - 1)

Nearest(near, f) ==
    FirstOf(SetToSortSeq(near, LAMBDA m, n :
                \/ Closeness(m, f) < Closeness(n, f)
                \/ Closeness(m, f) = Closeness(n, f) /\ Recency(m) > Recency(n)),
            MaxFlow - 1)

\* focused_flow: the card in focus and the closest of its neighbourhood.
Flow ==
    LET f == FlowFocus
        near == (UNION {Neighbours(n) : n \in Neighbours(f)}) \cup Neighbours(f)
    IN IF f = None THEN {} ELSE {f} \cup ToSet(Nearest(near \ {f}, f))

Flows == {k \in Lines : k[3] = "discussion_provenance"}
Roots == Cards \ {k[2] : k \in Flows}
Children(n) == {k[2] : k \in {k \in Flows : k[1] = n}}

InOrder(S) == SelectSeq(order, LAMBDA n : n \in S)

\* final_discussion_map: breadth first from the cards nothing leads to.
Search[i \in 0 .. Cardinality(RelationKey) + Cardinality(Nodes)] ==
    IF i = 0 THEN [pending |-> InOrder(Roots), found |-> <<>>]
    ELSE LET s == Search[i - 1]
         IN IF s.pending = <<>> \/ Len(s.found) >= MaxOverview THEN s
            ELSE LET n == Head(s.pending)
                 IN IF n \in ToSet(s.found) THEN [s EXCEPT !.pending = Tail(@)]
                    ELSE [pending |-> Tail(s.pending) \o InOrder(Children(n)),
                          found |-> Append(s.found, n)]

Overview == Search[Cardinality(RelationKey) + Cardinality(Nodes)].found

-----------------------------------------------------------------------------
(* The compact map of a long meeting (build_presentation_projection).  It  *)
(* uses lanes of its own, computed from the graph of now.                  *)

Critical == {"decision", "action", "open_item"}

InLane(lane) ==
    {n \in Nodes : status[n] \notin {"absent", "archived", "parked", "resolved"} /\ HomeLane(n) = lane}

CurrentLane == IF focus.topic = None THEN "unassigned" ELSE focus.topic

\* Which of the cards of the current lane are left out when there are too many.
Weight(n) == IF kind[n] = "option" THEN 65 ELSE 55

Detail ==
    LET important == {n \in InLane(CurrentLane) : kind[n] \in Critical \cup {"concern"}}
        others == SetToSortSeq(InLane(CurrentLane) \ important,
                               LAMBDA m, n : \/ Weight(m) > Weight(n)
                                             \/ Weight(m) = Weight(n) /\ Recency(m) > Recency(n))
        room == MaxDetail - Cardinality(important)
    IN important \cup (IF room > 0 THEN ToSet(FirstOf(others, room)) ELSE {})

Rail ==
    {n \in Nodes : kind[n] \in Critical /\ status[n] \notin {"archived", "resolved", "parked"}} \ Detail

\* Concerns of other lanes count as visible.
Hidden ==
    {n \in Nodes : status[n] \notin {"absent", "archived"}}
        \ (Detail \cup Rail \cup {n \in Nodes : /\ kind[n] = "concern" /\ status[n] = "active"
                                               /\ HomeLane(n) # CurrentLane})

-----------------------------------------------------------------------------
MapInit ==
    /\ Init
    /\ order = <<>>
    /\ recent = <<>>
    /\ listed = <<>>
    /\ turned = None
    /\ corrected = None
    /\ scanned = None
    /\ bornUnder = [n \in Nodes |-> None]
    /\ placed = <<>>
    /\ slots = [i \in 1 .. MaxShared |-> None]

\* The event that was accepted is the latest of those in s; the shared screen takes in
\* every event.
Touch(s) ==
    /\ recent' = SelectSeq(recent, LAMBDA x : x \notin ToSet(s)) \o s
    /\ \E cards \in {Selected'} : slots' = Refill(slots, cards)
    /\ UNCHANGED placed

Detected(n, t, l) ==
    /\ NodeDetected(n, t, l)
    /\ order' = Append(order, n)
    /\ bornUnder' = [bornUnder EXCEPT ![n] = scanned]
    /\ Touch(<<n>>)
    /\ UNCHANGED <<listed, turned, corrected, scanned>>

Related(k, e) ==
    /\ RelationDetected(k, e)
    /\ listed' = IF k[3] \in Membership /\ edges[k] = {} THEN Append(listed, k) ELSE listed
    /\ Touch(<<>>)
    /\ UNCHANGED <<order, turned, corrected, scanned, bornUnder>>

Turned(n) ==
    /\ \/ TopicFocusChanged(n) /\ Touch(<<"turn">>)
       \/ SetCurrentTopic(n) /\ Touch(<<n, "turn">>)
    /\ turned' = n
    /\ scanned' = n
    /\ UNCHANGED <<order, listed, corrected, bornUnder>>

PutAway(n) ==
    /\ ArchiveNode(n) \/ MoveToParkingLot(n)
    /\ scanned' = IF scanned = n THEN None ELSE scanned
    /\ Touch(<<n>>)
    /\ UNCHANGED <<order, listed, turned, corrected, bornUnder>>

Changed(n) ==
    /\ \/ ConfirmDecision(n) \/ RevokeDecision(n)
       \/ ResolveOpenItem(n) \/ ReopenOpenItem(n)
       \/ RestoreFromParkingLot(n)
       \/ \E l \in Labels : RenameNode(n, l)
       \/ undoable # None /\ n = undoable.node /\ UndoLastCorrection
       \/ \E d \in Labels \cup {None}, p \in Progress \cup {None} : UpdateAction(n, d, p)
    /\ Touch(<<n>>)
    /\ UNCHANGED <<order, listed, turned, corrected, scanned, bornUnder>>

\* A merge leaves the relations in their order, the first of those that fall together.
Merged(s, t) ==
    /\ MergeNodes(s, t)
    /\ listed' = FoldLeft(LAMBDA l, k : LET m == Image(s, t, k)
                                        IN IF m[1] = m[2] \/ m \in ToSet(l) THEN l ELSE Append(l, m),
                          <<>>, listed)
    /\ Touch(<<s, t>>)
    /\ UNCHANGED <<order, turned, corrected, scanned, bornUnder>>

Corrected(old, new) ==
    /\ CorrectRelation(old, new)
    /\ corrected' = IF new = None THEN old[2] ELSE new[2]
    /\ Touch(<<"correction">>)
    /\ UNCHANGED <<order, listed, turned, scanned, bornUnder>>

\* map_projection draws the map, at any moment: a revision may be skipped.
ShowMap ==
    /\ placed' = Placements
    /\ UNCHANGED <<vars, historyVars, slots>>

\* The relations a person may correct.
Correctable == {k \in RelationKey : k[3] \in Semantic}

MapNext ==
    \/ AcceptEvidence /\ UNCHANGED mapVars
    \/ \E n \in Nodes, t \in Kinds, l \in Labels : Detected(n, t, l)
    \/ \E k \in RelationKey, e \in 1 .. MaxEvidence : Related(k, e)
    \/ \E n \in Nodes : Turned(n) \/ PutAway(n) \/ Changed(n)
    \/ \E s, t \in Nodes : Merged(s, t)
    \/ \E old \in Present(edges) \cup {None}, new \in Correctable \cup {None} : Corrected(old, new)
    \/ ShowMap

MapSpec == MapInit /\ [][MapNext]_allVars

-----------------------------------------------------------------------------
(* Properties.                                                             *)

\* Every variable has its type; the order holds every node once.
MapTypeOK ==
    /\ TypeOK
    /\ ToSet(order) = {n \in Nodes : status[n] # "absent"} /\ IsInjective(order)
    /\ ToSet(recent) \ {"turn", "correction"} = ToSet(order) /\ IsInjective(recent)
    /\ ToSet(listed) = {k \in Present(edges) : k[3] \in Membership} /\ IsInjective(listed)
    /\ turned \in Nodes \cup {None}
    /\ corrected \in Nodes \cup {None}
    /\ scanned \in Nodes \cup {None}
    /\ bornUnder \in [Nodes -> Nodes \cup {None}]
    /\ DOMAIN placed \subseteq ToSet(order)
    /\ slots \in [1 .. MaxShared -> Nodes \cup {None}]

\* Whenever the map is drawn, no two cards lie on each other: a card that was parked
\* comes back to a place nobody took meanwhile, whatever snapshots were skipped.
OwnPlace ==
    LET places == Placements
    IN \A m, n \in ToSet(order) : Position(places, m) = Position(places, n) => m = n

\* The shared screen shows the cards that were touched last, each in one slot.
SlotsAreFilled ==
    /\ ToSet(slots) \ {None} = ToSet(Selected)
    /\ \A i, j \in 1 .. MaxShared : slots[i] = slots[j] /\ slots[i] # None => i = j

\* Every card of the focused flow hangs together with the card in focus by lines between
\* cards that are shown: nothing is shown whose link was cut away.
FlowHangsTogether ==
    LET shown == Flow
        f == FlowFocus
        near == [m \in shown |-> Neighbours(m) \cap shown]
    IN \A S \in SUBSET shown : f \in S /\ (\A m \in S : near[m] \subseteq S) => S = shown

\* The final overview leaves a card out only when it is full.
OverviewIsWhole ==
    /\ IsInjective(Overview)
    /\ Cardinality(Cards) <= MaxOverview => ToSet(Overview) = Cards

MapInv ==
    /\ MapTypeOK
    /\ OwnPlace
    /\ SlotsAreFilled
    /\ FlowHangsTogether
    /\ OverviewIsWhole

\* A card that stays on the shared screen stays where it is.
SharedCardStays ==
    [][\A i \in 1 .. MaxShared : slots[i] \in ToSet(Selected') => slots'[i] = slots[i]]_allVars

-----------------------------------------------------------------------------
(* What the docstring of build_presentation_projection says and the code   *)
(* does not keep: "The full canonical node IDs remain present in           *)
(* hidden_node_ids or critical_entries".  A concern of a lane that is not   *)
(* current is counted as visible and drawn nowhere.                        *)

NothingDropsOut ==
    \A n \in Nodes : status[n] \notin {"absent", "archived"} => n \in Detail \cup Rail \cup Hidden
=============================================================================
