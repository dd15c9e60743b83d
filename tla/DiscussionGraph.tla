------------------------- MODULE DiscussionGraph -------------------------
(***************************************************************************)
(* The canonical discussion graph of one meeting: the state that           *)
(* prototype/materializer.py builds by applying an ordered event stream,   *)
(* together with the checks prototype/commands.py makes before a Human     *)
(* command becomes an event.                                               *)
(*                                                                         *)
(* An action is one accepted event (or one accepted piece of transcript    *)
(* evidence).  A rejected event raises before the new state is returned,   *)
(* so it is no step at all.  The event history is read by the materializer *)
(* in three places only, and the model keeps exactly what those reads      *)
(* return: rejectedAt (latest removal of a relation), names (labels given  *)
(* to a node by detection or rename) and undoable (is the latest event a   *)
(* Human rename).                                                          *)
(***************************************************************************)
EXTENDS Integers, Sequences, FiniteSets

CONSTANTS
    Nodes,        \* the identities node_detected events can create
    Kinds,        \* the node types the analyzer proposes
    Relations,    \* the relation types the analyzer and the humans propose
    Labels,       \* the texts a node can carry
    None,         \* JSON null
    MaxEvidence,  \* bound: accepted pieces of evidence
    MaxRevision   \* bound: accepted events

NodeKinds == {"topic", "idea", "option", "concern", "open_item", "decision", "action"}
Talk == NodeKinds \ {"topic"}

\* RELATION_MATRIX: the node types each relation may join.
RelationMatrix ==
    [contains              |-> {"topic"} \X Talk,
     has_option            |-> {"topic"} \X {"option"},
     supports              |-> {"idea", "option"} \X {"idea", "option", "decision"},
     opposes               |-> {"idea", "option", "concern"} \X {"idea", "option", "decision"},
     discussion_provenance |-> Talk \X Talk,
     related_to            |-> NodeKinds \X NodeKinds]

RelationTypes == DOMAIN RelationMatrix
Semantic == {"discussion_provenance", "supports", "opposes"}

ASSUME GraphAssumption ==
    /\ Kinds \subseteq NodeKinds
    /\ Relations \subseteq RelationTypes
    /\ Nodes \cap NodeKinds = {}
    /\ None \notin Nodes \cup NodeKinds \cup Labels \cup (Nodes \X Nodes \X Relations)
    /\ MaxEvidence \in Nat
    /\ MaxRevision \in Nat

\* A meeting's stream of events is finite, so it names finitely many nodes.
ASSUME FiniteNodes == IsFiniteSet(Nodes)

RelationKey == Nodes \X Nodes \X Relations
Statuses == {"absent", "active", "candidate", "confirmed", "revoked",
             "resolved", "parked", "archived"}
Progress == {"open", "completed", "cancelled"}

\* What a recorded event says for an edge: the newest evidence an analyzer event
\* cites, or Human for an event a person issued.
Human == 0
Sources == 0 .. MaxEvidence
Never == -1   \* the watermark of a relation no correction has removed

VARIABLES
    session,     \* [created, status] of the session record
    revision,    \* graph revision, which is also the last event sequence
    evidence,    \* sequence of the newest accepted evidence
    kind,        \* node type, None before detection
    status,      \* node lifecycle
    label,       \* node label
    action,      \* [description, progress] of an action node
    edges,       \* source events of every relation; empty when it is not there
    focus,       \* current topic [topic, mode]
    rejectedAt,  \* watermark of the latest removal of a relation, or Never
    names,       \* labels given to a node by node_detected and rename_node
    undoable,    \* [node, replaced] when the latest event is a Human rename
    answered     \* history only: open items resolved and not reopened since

nodeVars == <<kind, status, label, action, names, answered>>
relationVars == <<edges, rejectedAt>>
vars == <<session, revision, evidence, kind, status, label, action, edges,
          focus, rejectedAt, names, undoable, answered>>

-----------------------------------------------------------------------------
(* Relations and the provenance flow.                                      *)

Present(es) == {k \in RelationKey : es[k] # {}}

Provenance(es) ==
    {<<k[1], k[2]>> : k \in {k \in Present(es) : k[3] = "discussion_provenance"}}

\* t is in every set that holds s and is closed under the arcs: a search from s
\* that follows the arcs finds t.
Reaches(arcs, s, t) ==
    \A S \in SUBSET Nodes :
        (s \in S /\ \A arc \in arcs : arc[1] \in S => arc[2] \in S) => t \in S

Acyclic(arcs) == \A arc \in arcs : ~Reaches(arcs, arc[2], arc[1])

\* Mutated: archived nodes may be joined.
JoinableBug(k) ==
    /\ k[1] # k[2]
    /\ "absent" \notin {status[k[1]], status[k[2]]}
    /\ <<kind[k[1]], kind[k[2]]>> \in RelationMatrix[k[3]]

Joinable(k) ==
    /\ k[1] # k[2]
    /\ {status[k[1]], status[k[2]]} \cap {"absent", "archived"} = {}
    /\ <<kind[k[1]], kind[k[2]]>> \in RelationMatrix[k[3]]

\* Mutated: no search before an edge is added.
ClosesCycleBug(es, k) == FALSE

ClosesCycle(es, k) ==
    k[3] = "discussion_provenance" /\ Reaches(Provenance(es), k[2], k[1])

\* Mutated: any evidence brings a rejected relation back.
NewerThanRejectionBug(k, e) == TRUE

\* A rejected relation needs evidence newer than its latest rejection.
NewerThanRejection(k, e) == e > rejectedAt[k]

-----------------------------------------------------------------------------
NoFocus == [topic |-> None, mode |-> "derived"]

\* A graph without nodes.
Blank ==
    /\ kind = [n \in Nodes |-> None]
    /\ status = [n \in Nodes |-> "absent"]
    /\ label = [n \in Nodes |-> None]
    /\ action = [n \in Nodes |-> [description |-> None, progress |-> None]]
    /\ edges = [k \in RelationKey |-> {}]
    /\ focus = NoFocus
    /\ rejectedAt = [k \in RelationKey |-> Never]
    /\ names = [n \in Nodes |-> <<>>]
    /\ undoable = None
    /\ answered = {}

Init ==
    /\ session = [created |-> FALSE, status |-> "created"]
    /\ revision = 0
    /\ evidence = 0
    /\ Blank

\* EventStore.append: every accepted event takes the next sequence number and revision.
Appended ==
    /\ revision < MaxRevision
    /\ revision' = revision + 1

Accepted(latest) ==
    /\ Appended
    /\ undoable' = latest
    /\ UNCHANGED evidence

\* Mutated: the current topic is kept.
ClearFocusOnBug(n) == UNCHANGED focus

ClearFocusOn(n) == focus' = IF focus.topic = n THEN NoFocus ELSE focus

\* The transcript layer adds one piece of evidence; the graph does not move.
AcceptEvidence ==
    /\ evidence < MaxEvidence
    /\ evidence' = evidence + 1
    /\ UNCHANGED <<session, revision, nodeVars, relationVars, focus, undoable>>

-----------------------------------------------------------------------------
(* Session lifecycle events, issued by the system.                         *)

SessionEvent(next) ==
    /\ session' = next
    /\ Accepted(None)
    /\ UNCHANGED <<nodeVars, relationVars, focus>>

SessionCreated ==
    /\ ~session.created /\ session.status = "created"
    /\ SessionEvent([session EXCEPT !.created = TRUE])

SessionStarted ==
    /\ session.status = "created"
    /\ SessionEvent([session EXCEPT !.status = "active"])

SessionFinalizing ==
    /\ session.status = "active"
    /\ SessionEvent([session EXCEPT !.status = "finalizing"])

\* Its final_graph_revision has to be the current revision, the one its issuer read.
SessionEnded ==
    /\ session.status = "finalizing"
    /\ SessionEvent([session EXCEPT !.status = "ended"])

-----------------------------------------------------------------------------
(* Analyzer events: each cites at least one piece of evidence.             *)

NodeDetected(n, t, l) ==
    /\ evidence > 0
    /\ status[n] = "absent"
    /\ kind' = [kind EXCEPT ![n] = t]
    /\ status' = [status EXCEPT ![n] = IF t = "decision" THEN "candidate" ELSE "active"]
    /\ label' = [label EXCEPT ![n] = l]
    /\ action' = IF t = "action"
                 THEN [action EXCEPT ![n] = [description |-> l, progress |-> "open"]]
                 ELSE action
    /\ names' = [names EXCEPT ![n] = Append(@, l)]
    /\ Accepted(None)
    /\ UNCHANGED <<session, relationVars, focus, answered>>

\* What the materializer asks of a relation that evidence e speaks for.
Attachable(k, e) ==
    /\ Joinable(k)
    /\ NewerThanRejection(k, e)
    /\ edges[k] # {} \/ ~ClosesCycle(edges, k)

RelationDetected(k, e) ==
    /\ e \in 1 .. evidence
    /\ Attachable(k, e)
    /\ edges' = [edges EXCEPT ![k] = @ \cup {e}]
    /\ Accepted(None)
    /\ UNCHANGED <<session, nodeVars, rejectedAt, focus>>

FocusOn(n, mode) ==
    /\ kind[n] = "topic" /\ status[n] = "active"
    /\ focus' = [topic |-> n, mode |-> mode]
    /\ Accepted(None)
    /\ UNCHANGED <<session, nodeVars, relationVars>>

TopicFocusChanged(n) ==
    /\ evidence > 0
    /\ FocusOn(n, "derived")

-----------------------------------------------------------------------------
(* Human events.  The command handler refuses a command whose              *)
(* expected_revision is not the current one, so an accepted one is applied *)
(* to the graph its author saw.                                            *)

Exists(n) == status[n] # "absent"
SetStatus(n, s) == status' = [status EXCEPT ![n] = s]

\* Every field of a node but its status stays.
OnlyStatus == UNCHANGED <<session, kind, label, action, names, relationVars>>

ConfirmDecision(n) ==
    /\ kind[n] = "decision" /\ status[n] = "candidate"
    /\ SetStatus(n, "confirmed")
    /\ Accepted(None)
    /\ OnlyStatus /\ UNCHANGED <<focus, answered>>

RevokeDecision(n) ==
    /\ kind[n] = "decision" /\ status[n] = "confirmed"
    /\ SetStatus(n, "revoked")
    /\ Accepted(None)
    /\ OnlyStatus /\ UNCHANGED <<focus, answered>>

ResolveOpenItem(n) ==
    /\ kind[n] = "open_item" /\ status[n] = "active"
    /\ SetStatus(n, "resolved")
    /\ answered' = answered \cup {n}
    /\ Accepted(None)
    /\ OnlyStatus /\ UNCHANGED focus

ReopenOpenItem(n) ==
    /\ kind[n] = "open_item" /\ status[n] = "resolved"
    /\ SetStatus(n, "active")
    /\ answered' = answered \ {n}
    /\ Accepted(None)
    /\ OnlyStatus /\ UNCHANGED focus

ArchiveNode(n) ==
    /\ status[n] \notin {"absent", "archived"}
    /\ SetStatus(n, "archived")
    /\ ClearFocusOn(n)
    /\ Accepted(None)
    /\ OnlyStatus /\ UNCHANGED answered

Parkable(n) ==
    /\ kind[n] # "decision"
    /\ status[n] \notin {"absent", "archived", "parked"}

MoveToParkingLot(n) ==
    /\ Parkable(n)
    /\ SetStatus(n, "parked")
    /\ ClearFocusOn(n)
    /\ Accepted(None)
    /\ OnlyStatus /\ UNCHANGED answered

RestoreFromParkingLot(n) ==
    /\ status[n] = "parked"
    /\ SetStatus(n, "active")
    /\ Accepted(None)
    /\ OnlyStatus /\ UNCHANGED <<focus, answered>>

SetCurrentTopic(n) == FocusOn(n, "human_corrected")

\* An action node's description follows its label.
Relabel(n, l) ==
    /\ label' = [label EXCEPT ![n] = l]
    /\ action' = IF kind[n] = "action" THEN [action EXCEPT ![n].description = l] ELSE action

RenameNode(n, l) ==
    /\ status[n] \notin {"absent", "archived"}
    /\ Relabel(n, l)
    /\ names' = [names EXCEPT ![n] = Append(@, l)]
    /\ Accepted([node |-> n, replaced |-> label[n]])
    /\ UNCHANGED <<session, kind, status, relationVars, focus, answered>>

\* Undo looks for the label the node was last given before the rename, among
\* node_detected and rename_node events; labels set otherwise are not found.
PreviousName(n) == names[n][Len(names[n]) - 1]

\* _undo_payload: only a rename of a person that is the latest event.
Undoable == undoable # None

UndoLastCorrection ==
    /\ Undoable
    /\ LET n == undoable.node
       IN Relabel(n, PreviousName(n))
    /\ Accepted(None)
    /\ UNCHANGED <<session, kind, status, names, relationVars, focus, answered>>

\* d and p are the description and status fields, None when the command leaves
\* them out; owner and due date are not modelled and may be the only change.
UpdateAction(n, d, p) ==
    /\ kind[n] = "action" /\ status[n] # "archived"
    /\ label' = IF d = None THEN label ELSE [label EXCEPT ![n] = d]
    /\ action' = [action EXCEPT ![n] =
           [description |-> IF d = None THEN @.description ELSE d,
            progress    |-> IF p = None THEN @.progress ELSE p]]
    /\ Accepted(None)
    /\ UNCHANGED <<session, kind, status, names, relationVars, focus, answered>>

-----------------------------------------------------------------------------
(* Corrections that move relations.                                        *)

Into(s, t, n) == IF n = s THEN t ELSE n
Image(s, t, k) == <<Into(s, t, k[1]), Into(s, t, k[2]), k[3]>>

Origins(s, t, k) == {j \in Present(edges) : Image(s, t, j) = k}
Gathered(s, t, k) == UNION {edges[j] : j \in Origins(s, t, k)}
MergeMark(s, t, k) == IF Origins(s, t, k) \subseteq {k} THEN {} ELSE {Human}

\* Mutated: one of two relations that fall together is kept, the other forgotten.
RewiredBug(s, t) ==
    [k \in RelationKey |->
        IF k[1] = k[2] \/ Origins(s, t, k) = {} THEN {}
        ELSE edges[CHOOSE j \in Origins(s, t, k) : TRUE] \cup MergeMark(s, t, k)]

\* Every relation of s is moved to t; relations that fall together are united,
\* one that would join t to itself is dropped, a moved one names the merge.
Rewired(s, t) ==
    [k \in RelationKey |->
        IF k[1] = k[2] THEN {}
        ELSE Gathered(s, t, k) \cup MergeMark(s, t, k)]

MergeNodes(s, t) ==
    /\ s # t
    /\ {status[s], status[t]} \cap {"absent", "archived"} = {}
    /\ Accepted(None)
    /\ SetStatus(s, "archived")
    /\ edges' = Rewired(s, t)
    /\ Acyclic(Provenance(edges'))
    /\ focus' = IF focus.topic = s THEN [topic |-> t, mode |-> "derived"] ELSE focus
    /\ UNCHANGED <<session, kind, label, action, names, answered, rejectedAt>>

\* A removal remembers the newest evidence its author could have seen.
RejectionWatermark == evidence

\* old and new are relation keys or None: a removal, an addition or both.
\* Removing and adding is one event: a refused addition restores the removed one.
CorrectRelation(old, new) ==
    /\ old # new
    /\ Accepted(None)
    /\ \A k \in {old, new} \ {None} :
           k[3] \in Semantic /\ Exists(k[1]) /\ Exists(k[2])
    /\ old # None => edges[old] # {}
    /\ LET rest == IF old = None THEN edges ELSE [edges EXCEPT ![old] = {}]
       IN /\ new # None => Joinable(new) /\ rest[new] = {} /\ ~ClosesCycle(rest, new)
          /\ edges' = IF new = None THEN rest ELSE [rest EXCEPT ![new] = {Human}]
    /\ rejectedAt' = IF old = None THEN rejectedAt
                     ELSE [rejectedAt EXCEPT ![old] = RejectionWatermark]
    /\ UNCHANGED <<session, nodeVars, focus>>

-----------------------------------------------------------------------------
Next ==
    \/ AcceptEvidence
    \/ SessionCreated
    \/ SessionStarted
    \/ SessionFinalizing
    \/ SessionEnded
    \/ \E n \in Nodes, t \in Kinds, l \in Labels : NodeDetected(n, t, l)
    \/ \E k \in RelationKey, e \in 1 .. MaxEvidence : RelationDetected(k, e)
    \/ \E n \in Nodes :
        \/ TopicFocusChanged(n)
        \/ ConfirmDecision(n)
        \/ RevokeDecision(n)
        \/ ResolveOpenItem(n)
        \/ ReopenOpenItem(n)
        \/ ArchiveNode(n)
        \/ MoveToParkingLot(n)
        \/ RestoreFromParkingLot(n)
        \/ SetCurrentTopic(n)
    \/ \E n \in Nodes, l \in Labels : RenameNode(n, l)
    \/ UndoLastCorrection
    \/ \E n \in Nodes, d \in Labels \cup {None}, p \in Progress \cup {None} :
           UpdateAction(n, d, p)
    \/ \E s, t \in Nodes : MergeNodes(s, t)
    \/ \E old, new \in RelationKey \cup {None} : CorrectRelation(old, new)

Spec == Init /\ [][Next]_vars

-----------------------------------------------------------------------------
(* Properties.                                                             *)

\* Every variable has its type.
TypeOK ==
    /\ session \in [created : BOOLEAN,
                     status : {"created", "active", "finalizing", "ended"}]
    /\ revision \in 0 .. MaxRevision
    /\ evidence \in 0 .. MaxEvidence
    /\ kind \in [Nodes -> Kinds \cup {None}]
    /\ status \in [Nodes -> Statuses]
    /\ label \in [Nodes -> Labels \cup {None}]
    /\ action \in [Nodes -> [description : Labels \cup {None}, progress : Progress \cup {None}]]
    /\ edges \in [RelationKey -> SUBSET Sources]
    /\ focus \in [topic : Nodes \cup {None}, mode : {"derived", "human_corrected"}]
    /\ rejectedAt \in [RelationKey -> {Never} \cup Sources]
    /\ names \in [Nodes -> Seq(Labels)]
    /\ undoable \in [node : Nodes, replaced : Labels] \cup {None}
    /\ answered \subseteq Nodes

\* Discussion provenance never runs in a circle, whatever detections, corrections
\* and merges come in whatever order (_provenance_reaches, _has_provenance_cycle).
ProvenanceAcyclic == Acyclic(Provenance(edges))

\* A decision keeps a decision's status and nothing else takes one: parking and
\* restoring, which sets "active" whatever was parked, must not touch its lifecycle.
StatusFitsKind ==
    \A n \in Nodes :
        /\ (status[n] = "absent") <=> (kind[n] = None)
        /\ kind[n] = "decision" =>
               status[n] \in {"candidate", "confirmed", "revoked", "archived"}
        /\ kind[n] \notin {"decision", None} =>
               status[n] \in {"active", "resolved", "parked", "archived"}
        /\ status[n] = "resolved" => kind[n] = "open_item"

\* The current topic is never an archived node, and while a person's choice of it
\* stands it is an active topic: archiving, parking and merging all let go of it.
FocusIsLive ==
    /\ focus.topic # None => status[focus.topic] \notin {"absent", "archived"}
    /\ focus.mode = "human_corrected" =>
           focus.topic # None /\ kind[focus.topic] = "topic" /\ status[focus.topic] = "active"

\* What parking, archiving, restoring and merging have to leave alone: the lifecycle of
\* a node and the choice of the current topic.
LifecycleKept == StatusFitsKind /\ FocusIsLive

\* A relation a person removed is back only if a person put it there or an analyzer
\* event cites evidence newer than the latest removal.
RejectionHolds ==
    \A k \in Present(edges) :
        Human \in edges[k] \/ \E e \in edges[k] : e > rejectedAt[k]

\* The description of an action node is its label, after any mix of detection,
\* rename, update and undo.
ActionDescriptionIsLabel ==
    \A n \in Nodes : kind[n] = "action" => action[n].description = label[n]

\* What the parts above rest on: a detected node has a label and was named, and the
\* node of an undoable rename was named before it.
Named ==
    /\ \A n \in Nodes : status[n] # "absent" => label[n] \in Labels
    /\ \A n \in Nodes : status[n] # "absent" <=> names[n] # <<>>
    /\ undoable # None => Len(names[undoable.node]) > 1

\* The inductive invariant.
GraphInv ==
    /\ TypeOK
    /\ Named
    /\ StatusFitsKind
    /\ FocusIsLive
    /\ RejectionHolds
    /\ ActionDescriptionIsLabel
    /\ ProvenanceAcyclic

Incident(es, n) == {k \in Present(es) : n \in {k[1], k[2]}}

\* An archived node never gains a relation: it keeps those it had, and a merge of a
\* neighbour moves one or lets it fall together with another.  A node merged away
\* has none, for good.
ArchivedGainsNoRelation ==
    [][\A n \in Nodes : status[n] = "archived" =>
           Cardinality(Incident(edges', n)) <= Cardinality(Incident(edges, n))]_vars

\* Merging keeps every source event of every relation that still joins two nodes.
MergeKeepsSources ==
    [][\A s, t \in Nodes : MergeNodes(s, t) =>
           \A k \in Present(edges) :
               LET m == Image(s, t, k) IN m[1] # m[2] => edges[k] \subseteq edges'[m]]_vars

-----------------------------------------------------------------------------
(* What documents of the repository say and the code does not keep.        *)

\* discussion-event-catalog.md 16: the materializer verifies the node types a
\* relation joins.
MatrixHolds ==
    \A k \in Present(edges) : <<kind[k[1]], kind[k[2]]>> \in RelationMatrix[k[3]]

\* discussion-event-catalog.md 11 and 15: the current topic is a topic, and one
\* that is parked is not the current topic.
FocusIsActiveTopic ==
    focus.topic # None => kind[focus.topic] = "topic" /\ status[focus.topic] = "active"

\* discussion-event-catalog.md 11.3: undo applies the inverse of the latest rename.
UndoIsInverse ==
    [][UndoLastCorrection => label'[undoable.node] = undoable.replaced]_vars

\* discussion-event-catalog.md 1.4: a resolved open item becomes active by reopen.
AnsweredStaysAnswered == \A n \in answered : status[n] # "active"
=============================================================================
