---------------------- MODULE DiscussionGraphProofs ----------------------
(* Proofs about DiscussionGraph, and about GraphAnalysis, whose hosts and  *)
(* analyzer take the steps of the graph: for every set of nodes, kinds,    *)
(* relations, labels and every bound.                                      *)
EXTENDS GraphAnalysis, FiniteSetTheorems, TLAPS

-----------------------------------------------------------------------------
(* Provenance arcs.                                                        *)

\* An acyclic flow stays acyclic when it loses arcs.
LEMMA FewerArcsAcyclic ==
    ASSUME NEW F, NEW G, G \subseteq F, Acyclic(F)
    PROVE  Acyclic(G)
  BY DEF Acyclic, Reaches

\* An arc u -> v can join an acyclic flow in which v does not reach u: the check
\* _provenance_reaches makes before an edge is added is enough.
LEMMA NewArcAcyclic ==
    ASSUME NEW F, F \subseteq Nodes \X Nodes, Acyclic(F),
           NEW u \in Nodes, NEW v \in Nodes, ~Reaches(F, v, u)
    PROVE  Acyclic(F \cup {<<u, v>>})
<1> DEFINE Closed(G, S) == \A arc \in G : arc[1] \in S => arc[2] \in S
           G == F \cup {<<u, v>>}
<1>1. PICK T \in SUBSET Nodes : v \in T /\ Closed(F, T) /\ u \notin T
  BY DEF Reaches
<1>2. SUFFICES ASSUME NEW arc \in G
               PROVE  ~Reaches(G, arc[2], arc[1])
  BY DEF Acyclic
<1>3. CASE arc = <<u, v>>
  <2>1. v \in T /\ Closed(G, T) /\ u \notin T
    BY <1>1
  <2>2. QED
    BY <1>3, <2>1 DEF Reaches
<1>4. CASE arc \in F
  <2>1. PICK S \in SUBSET Nodes : arc[2] \in S /\ Closed(F, S) /\ arc[1] \notin S
    BY <1>4 DEF Acyclic, Reaches
  <2>2. CASE u \notin S
    BY <2>1, <2>2 DEF Reaches
  <2>3. CASE u \in S /\ arc[1] \notin T
    <3>1. /\ S \cup T \in SUBSET Nodes
          /\ arc[2] \in S \cup T
          /\ arc[1] \notin S \cup T
      BY <2>1, <2>3
    <3>2. Closed(G, S \cup T)
      BY <1>1, <2>1
    <3>3. QED
      BY <3>1, <3>2 DEF Reaches
  <2>4. CASE arc[1] \in T
    <3>1. /\ S \cap T \in SUBSET Nodes
          /\ arc[2] \in S \cap T
          /\ arc[1] \notin S \cap T
      BY <1>1, <1>4, <2>1, <2>4
    <3>2. Closed(G, S \cap T)
      BY <1>1, <2>1
    <3>3. QED
      BY <3>1, <3>2 DEF Reaches
  <2>5. QED
    BY <2>2, <2>3, <2>4
<1>5. QED
  BY <1>2, <1>3, <1>4

-----------------------------------------------------------------------------
(* Nodes, labels and the current topic.                                    *)

\* The parts of the invariant that do not speak of relations.
NodeInv == Named /\ StatusFitsKind /\ FocusIsLive /\ ActionDescriptionIsLabel

\* The parts that do.
RelationInv == RejectionHolds /\ ProvenanceAcyclic

\* A step that leaves relations and watermarks alone keeps what is said of them.
LEMMA RelationsKept ==
    ASSUME RelationInv, UNCHANGED relationVars
    PROVE  RelationInv'
  BY DEF RelationInv, RejectionHolds, ProvenanceAcyclic, Acyclic, Reaches, Provenance,
         Present, relationVars

\* A change of one node's status that fits its type and lets go of a current topic
\* that is archived or was chosen by a person keeps the invariant.
LEMMA StatusChangeKept ==
    ASSUME TypeOK, NodeInv,
           NEW n \in Nodes, NEW s \in Statuses \ {"absent"},
           Exists(n), SetStatus(n, s), OnlyStatus, Accepted(None),
           answered' \subseteq Nodes,
           kind[n] = "decision" => s \in {"candidate", "confirmed", "revoked", "archived"},
           kind[n] # "decision" => s \in {"active", "resolved", "parked", "archived"},
           s = "resolved" => kind[n] = "open_item",
           \/ focus' = NoFocus
           \/ /\ focus' = focus
              /\ focus.topic = n => s # "archived" /\ focus.mode # "human_corrected"
    PROVE  TypeOK' /\ NodeInv'
<1> USE DEF SetStatus, OnlyStatus, Accepted, Appended, Exists
<1>1. TypeOK'
  <2>1. focus' \in [topic : Nodes \cup {None}, mode : {"derived", "human_corrected"}]
    BY DEF TypeOK, NoFocus
  <2>2. revision' \in 0 .. MaxRevision /\ evidence' \in 0 .. MaxEvidence
    BY GraphAssumption DEF TypeOK
  <2>3. status' \in [Nodes -> Statuses]
    BY DEF TypeOK
  <2>4. QED
    BY <2>1, <2>2, <2>3 DEF TypeOK, relationVars
<1>2. Named'
  BY DEF TypeOK, NodeInv, Named
<1>3. StatusFitsKind'
  BY GraphAssumption DEF TypeOK, NodeInv, StatusFitsKind, NodeKinds
<1>4. FocusIsLive'
  BY GraphAssumption DEF TypeOK, NodeInv, FocusIsLive, NoFocus
<1>5. ActionDescriptionIsLabel'
  BY DEF NodeInv, ActionDescriptionIsLabel
<1>6. QED
  BY <1>1, <1>2, <1>3, <1>4, <1>5 DEF NodeInv

\* Steps that leave the nodes alone: evidence, session events, focus, relations.
LEMMA FrameStep ==
    ASSUME TypeOK, NodeInv,
           UNCHANGED nodeVars,
           edges' \in [RelationKey -> SUBSET Sources],
           rejectedAt' \in [RelationKey -> {Never} \cup Sources],
           revision' \in 0 .. MaxRevision,
           evidence' \in 0 .. MaxEvidence,
           session' \in [created : BOOLEAN,
                         status : {"created", "active", "finalizing", "ended"}],
           undoable' \in {undoable, None},
           \/ focus' = focus
           \/ \E n \in Nodes, mode \in {"derived", "human_corrected"} :
                  /\ kind[n] = "topic" /\ status[n] = "active"
                  /\ focus' = [topic |-> n, mode |-> mode]
    PROVE  TypeOK' /\ NodeInv'
<1> USE DEF nodeVars
<1>1. TypeOK'
  BY DEF TypeOK
<1>2. Named' /\ StatusFitsKind' /\ ActionDescriptionIsLabel'
  BY DEF NodeInv, Named, StatusFitsKind, ActionDescriptionIsLabel
<1>3. FocusIsLive'
  BY GraphAssumption DEF NodeInv, FocusIsLive, TypeOK
<1>4. QED
  BY <1>1, <1>2, <1>3 DEF NodeInv

\* A node that is given one more name has one, and two when it had one before.
LEMMA GivenNames ==
    ASSUME NEW given \in Seq(Labels), NEW l \in Labels
    PROVE  /\ Append(given, l) \in Seq(Labels)
           /\ Append(given, l) # <<>>
           /\ given # <<>> => Len(Append(given, l)) > 1
<1>1. Len(Append(given, l)) = Len(given) + 1 /\ Len(given) \in Nat
  OBVIOUS
<1>2. given # <<>> => Len(given) > 0
  OBVIOUS
<1>3. Len(<<>>) = 0
  OBVIOUS
<1>4. QED
  BY <1>1, <1>2, <1>3

\* A detected node starts with a label, a name and a status that fits its type.
LEMMA NodeDetectedStep ==
    ASSUME TypeOK, NodeInv,
           NEW n \in Nodes, NEW t \in Kinds, NEW l \in Labels,
           NodeDetected(n, t, l)
    PROVE  TypeOK' /\ NodeInv' /\ UNCHANGED relationVars
<1> USE DEF NodeDetected, Accepted, Appended
<1>1. kind[n] = None /\ None \notin NodeKinds /\ t \in NodeKinds
  BY GraphAssumption DEF NodeInv, StatusFitsKind
<1>2. TypeOK'
  <2>1. revision' \in 0 .. MaxRevision /\ evidence' \in 0 .. MaxEvidence
    BY GraphAssumption DEF TypeOK
  <2>2. /\ kind' \in [Nodes -> Kinds \cup {None}]
        /\ status' \in [Nodes -> Statuses]
        /\ label' \in [Nodes -> Labels \cup {None}]
    BY DEF TypeOK, Statuses
  <2>3. action' \in [Nodes -> [description : Labels \cup {None}, progress : Progress \cup {None}]]
    BY DEF TypeOK, Progress
  <2>4. names' \in [Nodes -> Seq(Labels)]
    BY DEF TypeOK
  <2>5. QED
    BY <2>1, <2>2, <2>3, <2>4 DEF TypeOK, relationVars
<1>3. Named'
  <2>1. Append(names[n], l) # <<>>
    BY GivenNames DEF TypeOK
  <2>2. \A m \in Nodes : /\ status'[m] # "absent" => label'[m] \in Labels
                         /\ status'[m] # "absent" <=> names'[m] # <<>>
    BY <2>1 DEF TypeOK, NodeInv, Named
  <2>3. QED
    BY <2>2 DEF NodeInv, Named
<1>4. StatusFitsKind'
  BY <1>1 DEF TypeOK, NodeInv, StatusFitsKind, NodeKinds
<1>5. FocusIsLive'
  BY <1>1 DEF TypeOK, NodeInv, FocusIsLive
<1>6. ActionDescriptionIsLabel'
  BY <1>1 DEF TypeOK, NodeInv, ActionDescriptionIsLabel
<1>7. QED
  BY <1>2, <1>3, <1>4, <1>5, <1>6 DEF NodeInv, relationVars

\* Renaming and undoing write label and description together.
LEMMA RelabelStep ==
    ASSUME TypeOK, NodeInv,
           NEW n \in Nodes, NEW l \in Labels, Exists(n),
           Relabel(n, l),
           names' = names \/ names' = [names EXCEPT ![n] = Append(@, l)],
           \/ undoable' = None
           \/ /\ undoable' = [node |-> n, replaced |-> label[n]]
              /\ names' = [names EXCEPT ![n] = Append(@, l)],
           revision < MaxRevision, revision' = revision + 1,
           UNCHANGED <<evidence, session, kind, status, relationVars, focus, answered>>
    PROVE  TypeOK' /\ NodeInv'
<1> USE DEF Exists
<1>1. /\ label[n] \in Labels /\ names[n] \in Seq(Labels) /\ names[n] # <<>>
  BY DEF TypeOK, NodeInv, Named
<1>2. /\ Append(names[n], l) \in Seq(Labels)
      /\ Append(names[n], l) # <<>>
      /\ Len(Append(names[n], l)) > 1
  BY <1>1, GivenNames
<1>3. TypeOK'
  <2>1. revision' \in 0 .. MaxRevision
    BY GraphAssumption DEF TypeOK
  <2>2. /\ label' \in [Nodes -> Labels \cup {None}]
        /\ action' \in [Nodes -> [description : Labels \cup {None}, progress : Progress \cup {None}]]
    <3>1. /\ label \in [Nodes -> Labels \cup {None}]
          /\ action \in [Nodes -> [description : Labels \cup {None},
                                  progress : Progress \cup {None}]]
      BY DEF TypeOK
    <3>2. label' = [label EXCEPT ![n] = l]
      BY DEF Relabel
    <3>3. \/ action' = action
          \/ action' = [action EXCEPT ![n].description = l]
      BY DEF Relabel
    <3> QED BY <3>1, <3>2, <3>3
  <2>3. names' \in [Nodes -> Seq(Labels)]
    BY <1>2 DEF TypeOK
  <2>4. undoable' \in [node : Nodes, replaced : Labels] \cup {None}
    BY <1>1
  <2>5. QED
    BY <2>1, <2>2, <2>3, <2>4 DEF TypeOK, relationVars
<1>4. Named'
  <2>1. \A m \in Nodes : /\ status'[m] # "absent" => label'[m] \in Labels
                         /\ status'[m] # "absent" <=> names'[m] # <<>>
    BY <1>2 DEF TypeOK, NodeInv, Named, Relabel
  <2>2. undoable' # None => Len(names'[undoable'.node]) > 1
    BY <1>2 DEF TypeOK
  <2>3. QED
    BY <2>1, <2>2 DEF Named
<1>5. StatusFitsKind' /\ FocusIsLive'
  BY DEF NodeInv, StatusFitsKind, FocusIsLive
<1>6. ActionDescriptionIsLabel'
  BY DEF TypeOK, NodeInv, ActionDescriptionIsLabel, Relabel
<1>7. QED
  BY <1>3, <1>4, <1>5, <1>6 DEF NodeInv

\* Undo finds the name given before the latest one, which is a label.
LEMMA UndoStep ==
    ASSUME TypeOK, NodeInv, UndoLastCorrection
    PROVE  TypeOK' /\ NodeInv'
<1> DEFINE n == undoable.node
<1>1. n \in Nodes /\ names[n] \in Seq(Labels) /\ Len(names[n]) > 1
  BY DEF UndoLastCorrection, Undoable, TypeOK, NodeInv, Named
<1>2. PreviousName(n) \in Labels
  BY <1>1 DEF PreviousName
<1>3. Exists(n)
  <2>1. names[n] # <<>>
    BY <1>1
  <2>2. QED
    BY <1>1, <2>1 DEF NodeInv, Named, Exists
<1>4. QED
  BY <1>1, <1>2, <1>3, RelabelStep DEF UndoLastCorrection, Undoable, Accepted, Appended

\* An action update writes label and description together or neither.
LEMMA UpdateActionStep ==
    ASSUME TypeOK, NodeInv,
           NEW n \in Nodes, NEW d \in Labels \cup {None}, NEW p \in Progress \cup {None},
           UpdateAction(n, d, p)
    PROVE  TypeOK' /\ NodeInv' /\ UNCHANGED relationVars
<1> USE DEF UpdateAction, Accepted, Appended
<1>1. TypeOK'
  <2>1. revision' \in 0 .. MaxRevision /\ evidence' \in 0 .. MaxEvidence
    BY GraphAssumption DEF TypeOK
  <2>2. label' \in [Nodes -> Labels \cup {None}]
    BY DEF TypeOK
  <2>3. action' \in [Nodes -> [description : Labels \cup {None}, progress : Progress \cup {None}]]
    BY DEF TypeOK
  <2>4. QED
    BY <2>1, <2>2, <2>3 DEF TypeOK, relationVars
<1>2. Named' /\ StatusFitsKind' /\ FocusIsLive'
  BY DEF TypeOK, NodeInv, Named, StatusFitsKind, FocusIsLive
<1>3. ActionDescriptionIsLabel'
  BY DEF TypeOK, NodeInv, ActionDescriptionIsLabel
<1>4. QED
  BY <1>1, <1>2, <1>3 DEF NodeInv

\* What a merge leaves of a relation: nothing when it would join a node to itself,
\* else the sources of the relations it comes from and the mark of the merge.
LEMMA RewiredValue ==
    ASSUME NEW s \in Nodes, NEW t \in Nodes, NEW k \in RelationKey
    PROVE  /\ k[1] = k[2] => Rewired(s, t)[k] = {}
           /\ k[1] # k[2] => Rewired(s, t)[k] = Gathered(s, t, k) \cup MergeMark(s, t, k)
  BY DEF Rewired

\* A merge archives its source and hands the current topic to a node that is not.
LEMMA MergeStep ==
    ASSUME TypeOK, NodeInv, RelationInv,
           NEW s \in Nodes, NEW t \in Nodes, MergeNodes(s, t)
    PROVE  TypeOK' /\ NodeInv' /\ RelationInv'
<1> USE DEF MergeNodes, Accepted, Appended, SetStatus
<1>1. edges' \in [RelationKey -> SUBSET Sources]
  <2>1. Human \in Sources /\ \A j \in RelationKey : edges[j] \subseteq Sources
    BY GraphAssumption DEF TypeOK, Sources, Human
  <2>2. \A J \in SUBSET RelationKey : UNION {edges[j] : j \in J} \subseteq Sources
    BY <2>1
  <2>3. \A k \in RelationKey : /\ Origins(s, t, k) \in SUBSET RelationKey
                               /\ MergeMark(s, t, k) \subseteq Sources
    BY <2>1 DEF Origins, Present, MergeMark
  <2>4. ASSUME NEW k \in RelationKey
        PROVE  Rewired(s, t)[k] \in SUBSET Sources
    <3>1. Gathered(s, t, k) \subseteq Sources
      BY <2>2, <2>3 DEF Gathered
    <3>2. CASE k[1] = k[2]
      BY <3>2, RewiredValue
    <3>3. CASE k[1] # k[2]
      <4>1. Rewired(s, t)[k] = Gathered(s, t, k) \cup MergeMark(s, t, k)
        BY <3>3, RewiredValue
      <4>2. QED
        BY <2>3, <3>1, <4>1
    <3>4. QED
      BY <3>2, <3>3
  <2>5. Rewired(s, t) = [k \in RelationKey |-> Rewired(s, t)[k]]
    BY Zenon DEF Rewired
  <2>6. edges' = Rewired(s, t)
    OBVIOUS
  <2>7. QED
    BY <2>4, <2>5, <2>6
<1>2. TypeOK'
  <2>1. revision' \in 0 .. MaxRevision /\ evidence' \in 0 .. MaxEvidence
    BY GraphAssumption DEF TypeOK
  <2>2. /\ status' \in [Nodes -> Statuses]
        /\ focus' \in [topic : Nodes \cup {None}, mode : {"derived", "human_corrected"}]
    BY DEF TypeOK, Statuses
  <2>3. QED
    BY <1>1, <2>1, <2>2 DEF TypeOK
<1>3. Named' /\ ActionDescriptionIsLabel'
  BY DEF TypeOK, NodeInv, Named, ActionDescriptionIsLabel
<1>4. StatusFitsKind'
  BY DEF TypeOK, NodeInv, StatusFitsKind
<1>5. FocusIsLive'
  BY GraphAssumption DEF TypeOK, NodeInv, FocusIsLive
<1>6. ProvenanceAcyclic'
  BY DEF ProvenanceAcyclic
<1>7. RejectionHolds'
  <2>1. SUFFICES ASSUME NEW k \in RelationKey, edges'[k] # {}, Human \notin edges'[k]
                 PROVE  \E e \in edges'[k] : e > rejectedAt[k]
    BY DEF RejectionHolds, Present
  <2>0. edges' = Rewired(s, t) /\ rejectedAt' = rejectedAt
    OBVIOUS
  <2> HIDE DEF MergeNodes
  <2>2. edges'[k] = Gathered(s, t, k) \cup MergeMark(s, t, k)
    BY <2>0, <2>1, RewiredValue
  <2>3. Origins(s, t, k) \subseteq {k} /\ MergeMark(s, t, k) = {}
    <3>1. Human \notin MergeMark(s, t, k)
      BY <2>1, <2>2
    <3>2. QED
      BY <3>1 DEF MergeMark
  <2>4. edges'[k] = Gathered(s, t, k)
    BY <2>2, <2>3
  <2>5. Origins(s, t, k) = {k}
    <3>1. CASE Origins(s, t, k) = {}
      BY <2>1, <2>4, <3>1 DEF Gathered
    <3>2. QED
      BY <2>3, <3>1
  <2>6. k \in Present(edges) /\ edges'[k] = edges[k]
    <3>1. k \in Present(edges)
      BY <2>5 DEF Origins
    <3>2. Gathered(s, t, k) = edges[k]
      BY <2>5 DEF Gathered
    <3>3. QED
      BY <2>4, <3>1, <3>2
  <2>7. QED
    BY <2>0, <2>1, <2>6 DEF RelationInv, RejectionHolds
<1>8. QED
  BY <1>2, <1>3, <1>4, <1>5, <1>6, <1>7 DEF NodeInv, RelationInv

\* One more arc of the provenance relation, or none.
LEMMA ProvenanceOfOneMore ==
    ASSUME NEW es \in [RelationKey -> SUBSET Sources], NEW k \in RelationKey,
           NEW S \in SUBSET Sources, S # {},
           Acyclic(Provenance(es)), ~ClosesCycle(es, k)
    PROVE  Acyclic(Provenance([es EXCEPT ![k] = S]))
<1> DEFINE after == [es EXCEPT ![k] = S]
<1>0. k \in Nodes \X Nodes \X Relations
  BY DEF RelationKey
<1>1. Provenance(es) \subseteq Nodes \X Nodes
  BY DEF Provenance, Present, RelationKey
<1>2. CASE k[3] # "discussion_provenance"
  <2>1. Provenance(after) = Provenance(es)
    BY <1>0, <1>2 DEF Provenance, Present, RelationKey
  <2>2. QED
    BY <2>1
<1>3. CASE k[3] = "discussion_provenance"
  <2>1. ~Reaches(Provenance(es), k[2], k[1]) /\ k[1] \in Nodes /\ k[2] \in Nodes
    BY <1>0, <1>3 DEF ClosesCycle
  <2>2. Provenance(after) \subseteq Provenance(es) \cup {<<k[1], k[2]>>}
    BY <1>0, <1>3 DEF Provenance, Present, RelationKey
  <2>3. Acyclic(Provenance(es) \cup {<<k[1], k[2]>>})
    BY <1>1, <2>1, NewArcAcyclic
  <2>4. QED
    BY <2>2, <2>3, FewerArcsAcyclic
<1>4. QED
  BY <1>2, <1>3

\* A detected relation adds an admissible source: evidence newer than the rejection.
LEMMA RelationDetectedStep ==
    ASSUME TypeOK, NodeInv, RelationInv,
           NEW k \in RelationKey, NEW e \in 1 .. MaxEvidence,
           RelationDetected(k, e)
    PROVE  TypeOK' /\ NodeInv' /\ RelationInv'
<1> USE DEF RelationDetected, Attachable, Accepted, Appended
<1>0. e \in Sources /\ edges[k] \cup {e} \in SUBSET Sources
  BY GraphAssumption DEF TypeOK, Sources
<1>1. /\ edges' \in [RelationKey -> SUBSET Sources]
      /\ rejectedAt' \in [RelationKey -> {Never} \cup Sources]
  BY <1>0 DEF TypeOK
<1>2. TypeOK' /\ NodeInv'
  <2>1. revision' \in 0 .. MaxRevision /\ evidence' \in 0 .. MaxEvidence
    BY GraphAssumption DEF TypeOK
  <2>2. session' \in [created : BOOLEAN,
                      status : {"created", "active", "finalizing", "ended"}]
    BY DEF TypeOK
  <2>3. QED
    BY <1>1, <2>1, <2>2, FrameStep
<1>3. RejectionHolds'
  <2>1. SUFFICES ASSUME NEW j \in RelationKey, edges'[j] # {}, Human \notin edges'[j]
                 PROVE  \E d \in edges'[j] : d > rejectedAt[j]
    BY DEF RejectionHolds, Present
  <2>2. CASE j = k
    BY <2>2 DEF TypeOK, NewerThanRejection
  <2>3. CASE j # k
    BY <2>1, <2>3 DEF TypeOK, RelationInv, RejectionHolds, Present
  <2>4. QED
    BY <2>2, <2>3
<1>4. ProvenanceAcyclic'
  <2>1. CASE edges[k] = {}
    <3>1. ~ClosesCycle(edges, k)
      BY <2>1
    <3>2. Acyclic(Provenance([edges EXCEPT ![k] = edges[k] \cup {e}]))
      BY <1>0, <3>1, ProvenanceOfOneMore DEF TypeOK, RelationInv, ProvenanceAcyclic
    <3>3. QED
      BY <3>2 DEF ProvenanceAcyclic
  <2>2. CASE edges[k] # {}
    <3>1. Present(edges') = Present(edges)
      BY <2>2 DEF TypeOK, Present
    <3>2. Provenance(edges') = Provenance(edges)
      BY <3>1 DEF Provenance
    <3>3. QED
      BY <3>2 DEF RelationInv, ProvenanceAcyclic
  <2>3. QED
    BY <2>1, <2>2
<1>5. QED
  BY <1>2, <1>3, <1>4 DEF RelationInv

\* A correction removes a relation, whose arcs cannot close a circle by leaving, and
\* adds one that names a person as its source.
LEMMA CorrectRelationStep ==
    ASSUME TypeOK, NodeInv, RelationInv,
           NEW old \in RelationKey \cup {None}, NEW new \in RelationKey \cup {None},
           CorrectRelation(old, new)
    PROVE  TypeOK' /\ NodeInv' /\ RelationInv'
<1> DEFINE rest == IF old = None THEN edges ELSE [edges EXCEPT ![old] = {}]
<1>0. /\ edges' = IF new = None THEN rest ELSE [rest EXCEPT ![new] = {Human}]
      /\ new # None => ~ClosesCycle(rest, new)
      /\ rejectedAt' = IF old = None THEN rejectedAt
                       ELSE [rejectedAt EXCEPT ![old] = evidence]
  BY DEF CorrectRelation, RejectionWatermark
<1>1. Human \in Sources /\ evidence \in Sources
  BY GraphAssumption DEF TypeOK, Sources, Human
<1>2. rest \in [RelationKey -> SUBSET Sources]
  BY DEF TypeOK
<1>3. \A j \in RelationKey : /\ j = old => rest[j] = {}
                             /\ j # old => rest[j] = edges[j]
  <2>1. None \notin RelationKey
    BY GraphAssumption DEF RelationKey
  <2>2. QED
    BY <2>1 DEF TypeOK
<1>4. Acyclic(Provenance(rest))
  <2>1. Provenance(rest) \subseteq Provenance(edges)
    BY <1>3 DEF Provenance, Present
  <2>2. QED
    BY <2>1, FewerArcsAcyclic DEF RelationInv, ProvenanceAcyclic
<1> HIDE DEF rest
<1>5. /\ edges' \in [RelationKey -> SUBSET Sources]
      /\ rejectedAt' \in [RelationKey -> {Never} \cup Sources]
  BY <1>0, <1>1, <1>2 DEF TypeOK
<1>6. TypeOK' /\ NodeInv'
  <2>1. revision' \in 0 .. MaxRevision /\ evidence' \in 0 .. MaxEvidence
    BY GraphAssumption DEF CorrectRelation, Accepted, Appended, TypeOK
  <2>2. /\ UNCHANGED <<session, nodeVars, focus>>
        /\ undoable' = None
    BY DEF CorrectRelation, Accepted, Appended
  <2>3. session' \in [created : BOOLEAN,
                      status : {"created", "active", "finalizing", "ended"}]
    BY <2>2 DEF TypeOK
  <2>4. QED
    BY <1>5, <2>1, <2>2, <2>3, FrameStep
<1>7. RejectionHolds'
  <2>1. SUFFICES ASSUME NEW j \in RelationKey, edges'[j] # {}, Human \notin edges'[j]
                 PROVE  \E d \in edges'[j] : d > rejectedAt'[j]
    BY DEF RejectionHolds, Present
  <2>2. edges'[j] = rest[j]
    BY <1>0, <1>2, <2>1
  <2>3. j # old /\ rest[j] = edges[j]
    BY <1>3, <2>1, <2>2
  <2>4. rejectedAt'[j] = rejectedAt[j]
    BY <1>0, <2>3 DEF TypeOK
  <2>5. QED
    BY <2>1, <2>2, <2>3, <2>4 DEF RelationInv, RejectionHolds, Present
<1>8. ProvenanceAcyclic'
  <2>1. CASE new = None
    BY <1>0, <1>4, <2>1 DEF ProvenanceAcyclic
  <2>2. CASE new # None
    <3>1. Acyclic(Provenance([rest EXCEPT ![new] = {Human}]))
      BY <1>0, <1>1, <1>2, <1>4, <2>2, ProvenanceOfOneMore
    <3>2. QED
      BY <1>0, <2>2, <3>1 DEF ProvenanceAcyclic
  <2>3. QED
    BY <2>1, <2>2
<1>9. QED
  BY <1>6, <1>7, <1>8 DEF RelationInv

-----------------------------------------------------------------------------
(* The inductive invariant.                                                *)

\* The invariant, with what it says of nodes and of relations.
LEMMA InvParts == GraphInv <=> TypeOK /\ NodeInv /\ RelationInv
  BY DEF GraphInv, NodeInv, RelationInv

\* The initial graph is empty.
LEMMA InitInv == Init => GraphInv
<1> SUFFICES ASSUME Init
             PROVE  GraphInv
  OBVIOUS
<1>1. TypeOK
  BY GraphAssumption DEF Init, Blank, TypeOK, NoFocus, Statuses
<1>2. NodeInv
  BY GraphAssumption DEF Init, Blank, NodeInv, Named, StatusFitsKind, FocusIsLive, NoFocus,
     ActionDescriptionIsLabel, NodeKinds
<1>3. RelationInv
  BY DEF Init, Blank, RelationInv, RejectionHolds, ProvenanceAcyclic, Acyclic, Provenance, Present
<1>4. QED
  BY <1>1, <1>2, <1>3, InvParts

\* A step that leaves nodes and relations alone.
LEMMA OutsideStep ==
    ASSUME GraphInv,
           UNCHANGED <<nodeVars, relationVars>>,
           revision' \in 0 .. MaxRevision,
           evidence' \in 0 .. MaxEvidence,
           session' \in [created : BOOLEAN,
                         status : {"created", "active", "finalizing", "ended"}],
           undoable' \in {undoable, None},
           \/ focus' = focus
           \/ \E n \in Nodes, mode \in {"derived", "human_corrected"} :
                  /\ kind[n] = "topic" /\ status[n] = "active"
                  /\ focus' = [topic |-> n, mode |-> mode]
    PROVE  GraphInv'
<1>1. TypeOK /\ NodeInv /\ RelationInv
  BY InvParts
<1>2. /\ edges' \in [RelationKey -> SUBSET Sources]
      /\ rejectedAt' \in [RelationKey -> {Never} \cup Sources]
  BY DEF GraphInv, TypeOK, relationVars
<1>3. TypeOK' /\ NodeInv'
  BY <1>1, <1>2, FrameStep
<1>4. RelationInv'
  BY <1>1, RelationsKept
<1>5. QED
  BY <1>3, <1>4 DEF GraphInv, NodeInv, RelationInv

\* The events that change one node's status.
LEMMA StatusStep ==
    ASSUME GraphInv, NEW n \in Nodes,
           \/ ConfirmDecision(n) \/ RevokeDecision(n)
           \/ ResolveOpenItem(n) \/ ReopenOpenItem(n)
           \/ ArchiveNode(n)
           \/ MoveToParkingLot(n) \/ RestoreFromParkingLot(n)
    PROVE  GraphInv'
<1>1. TypeOK /\ NodeInv /\ RelationInv
  BY InvParts
<1>2. UNCHANGED relationVars
  BY DEF ConfirmDecision, RevokeDecision, ResolveOpenItem, ReopenOpenItem, ArchiveNode,
     MoveToParkingLot, RestoreFromParkingLot, OnlyStatus
<1>3. kind[n] = None <=> status[n] = "absent"
  BY DEF GraphInv, StatusFitsKind
<1>4. focus.topic = n /\ focus.mode = "human_corrected" =>
          kind[n] = "topic" /\ status[n] = "active"
  BY DEF GraphInv, FocusIsLive
<1>5. TypeOK' /\ NodeInv'
  <2>1. CASE ConfirmDecision(n)
    BY <1>1, <1>3, <1>4, <2>1, StatusChangeKept
       DEF ConfirmDecision, Exists, Statuses, GraphInv, TypeOK
  <2>2. CASE RevokeDecision(n)
    BY <1>1, <1>3, <1>4, <2>2, StatusChangeKept
       DEF RevokeDecision, Exists, Statuses, GraphInv, TypeOK
  <2>3. CASE ResolveOpenItem(n)
    BY <1>1, <1>3, <1>4, <2>3, StatusChangeKept
       DEF ResolveOpenItem, Exists, Statuses, GraphInv, TypeOK
  <2>4. CASE ReopenOpenItem(n)
    BY <1>1, <1>3, <1>4, <2>4, StatusChangeKept
       DEF ReopenOpenItem, Exists, Statuses, GraphInv, TypeOK
  <2>5. CASE ArchiveNode(n)
    BY <1>1, <1>3, <1>4, <2>5, StatusChangeKept
       DEF ArchiveNode, ClearFocusOn, Exists, Statuses, GraphInv, TypeOK
  <2>6. CASE MoveToParkingLot(n)
    BY <1>1, <1>3, <1>4, <2>6, StatusChangeKept
       DEF MoveToParkingLot, Parkable, ClearFocusOn, Exists, Statuses, GraphInv, TypeOK
  <2>7. CASE RestoreFromParkingLot(n)
    BY <1>1, <1>3, <1>4, <2>7, StatusChangeKept, GraphAssumption
       DEF RestoreFromParkingLot, Exists, Statuses, GraphInv, TypeOK, StatusFitsKind
  <2>8. QED
    BY <2>1, <2>2, <2>3, <2>4, <2>5, <2>6, <2>7
<1>6. RelationInv'
  BY <1>1, <1>2, RelationsKept
<1>7. QED
  BY <1>5, <1>6 DEF GraphInv, NodeInv, RelationInv

\* Every step keeps the invariant, one case per event of the catalog.
LEMMA NextInv ==
    ASSUME GraphInv, [Next]_vars
    PROVE  GraphInv'
<1>0. TypeOK /\ NodeInv /\ RelationInv
  BY InvParts
<1>1. ASSUME TypeOK', NodeInv', RelationInv'
      PROVE  GraphInv'
  BY <1>1 DEF GraphInv, NodeInv, RelationInv
<1>2. CASE UNCHANGED vars
  <2>1. /\ UNCHANGED <<nodeVars, relationVars, session, revision, evidence, focus, undoable>>
        /\ revision \in 0 .. MaxRevision /\ evidence \in 0 .. MaxEvidence
        /\ session \in [created : BOOLEAN,
                        status : {"created", "active", "finalizing", "ended"}]
    BY <1>0, <1>2 DEF vars, nodeVars, relationVars, TypeOK
  <2>2. QED
    BY <2>1, OutsideStep
<1>3. CASE AcceptEvidence
  BY <1>3, OutsideStep, GraphAssumption DEF AcceptEvidence, GraphInv, TypeOK
<1>4. CASE SessionCreated \/ SessionStarted \/ SessionFinalizing \/ SessionEnded
  <2>1. revision' \in 0 .. MaxRevision /\ evidence' = evidence /\ undoable' = None
    BY <1>4, GraphAssumption DEF SessionCreated, SessionStarted, SessionFinalizing,
       SessionEnded, SessionEvent, Accepted, Appended, GraphInv, TypeOK
  <2>2. session' \in [created : BOOLEAN,
                      status : {"created", "active", "finalizing", "ended"}]
    BY <1>4 DEF SessionCreated, SessionStarted, SessionFinalizing, SessionEnded,
       SessionEvent, GraphInv, TypeOK
  <2>3. UNCHANGED <<nodeVars, relationVars, focus>>
    BY <1>4 DEF SessionCreated, SessionStarted, SessionFinalizing, SessionEnded, SessionEvent
  <2>4. QED
    BY <2>1, <2>2, <2>3, OutsideStep DEF GraphInv, TypeOK
<1>5. ASSUME NEW n \in Nodes, TopicFocusChanged(n) \/ SetCurrentTopic(n)
      PROVE  GraphInv'
  <2>1. PICK mode \in {"derived", "human_corrected"} : FocusOn(n, mode)
    BY <1>5 DEF TopicFocusChanged, SetCurrentTopic
  <2>2. QED
    BY <2>1, OutsideStep, GraphAssumption DEF FocusOn, Accepted, Appended, GraphInv, TypeOK
<1>6. ASSUME NEW n \in Nodes, NEW t \in Kinds, NEW l \in Labels, NodeDetected(n, t, l)
      PROVE  GraphInv'
  BY <1>0, <1>1, <1>6, NodeDetectedStep, RelationsKept
<1>7. ASSUME NEW k \in RelationKey, NEW e \in 1 .. MaxEvidence, RelationDetected(k, e)
      PROVE  GraphInv'
  BY <1>0, <1>1, <1>7, RelationDetectedStep
<1>8. ASSUME NEW n \in Nodes,
             \/ ConfirmDecision(n) \/ RevokeDecision(n)
             \/ ResolveOpenItem(n) \/ ReopenOpenItem(n)
             \/ ArchiveNode(n)
             \/ MoveToParkingLot(n) \/ RestoreFromParkingLot(n)
      PROVE  GraphInv'
  BY <1>8, StatusStep
<1>9. ASSUME NEW n \in Nodes, NEW l \in Labels, RenameNode(n, l)
      PROVE  GraphInv'
  <2>1. TypeOK' /\ NodeInv'
    BY <1>0, <1>9, RelabelStep DEF RenameNode, Accepted, Appended, Exists
  <2>2. RelationInv'
    BY <1>0, <1>9, RelationsKept DEF RenameNode
  <2>3. QED
    BY <1>1, <2>1, <2>2
<1>10. CASE UndoLastCorrection
  <2>1. RelationInv'
    BY <1>0, <1>10, RelationsKept DEF UndoLastCorrection
  <2>2. QED
    BY <1>0, <1>1, <1>10, <2>1, UndoStep
<1>11. ASSUME NEW n \in Nodes, NEW d \in Labels \cup {None}, NEW p \in Progress \cup {None},
              UpdateAction(n, d, p)
       PROVE  GraphInv'
  BY <1>0, <1>1, <1>11, UpdateActionStep, RelationsKept
<1>12. ASSUME NEW s \in Nodes, NEW t \in Nodes, MergeNodes(s, t)
       PROVE  GraphInv'
  BY <1>0, <1>1, <1>12, MergeStep
<1>13. ASSUME NEW old \in RelationKey \cup {None}, NEW new \in RelationKey \cup {None},
              CorrectRelation(old, new)
       PROVE  GraphInv'
  BY <1>0, <1>1, <1>13, CorrectRelationStep
<1>14. QED
  BY <1>2, <1>3, <1>4, <1>5, <1>6, <1>7, <1>8, <1>9, <1>10, <1>11, <1>12, <1>13 DEF Next

-----------------------------------------------------------------------------
(* What a step does to the relations of a node that is archived, and to    *)
(* the sources of the relations a merge moves.                             *)

\* A meeting speaks of finitely many types of relations.
LEMMA FiniteRelations == IsFiniteSet(Relations)
<1>1. IsFiniteSet({"contains", "has_option", "supports", "opposes",
                   "discussion_provenance", "related_to"})
  <2>1. IsFiniteSet({} \cup {"contains"})
    BY FS_EmptySet, FS_AddElement
  <2>2. IsFiniteSet(({} \cup {"contains"}) \cup {"has_option"})
    BY <2>1, FS_AddElement
  <2>3. IsFiniteSet((({} \cup {"contains"}) \cup {"has_option"}) \cup {"supports"})
    BY <2>2, FS_AddElement
  <2>4. IsFiniteSet({"opposes"}) /\ IsFiniteSet({"discussion_provenance"}) /\ IsFiniteSet({"related_to"})
    BY FS_Singleton
  <2>5. IsFiniteSet({"opposes"} \cup {"discussion_provenance"})
    BY <2>4, FS_Union
  <2>6. IsFiniteSet(({"opposes"} \cup {"discussion_provenance"}) \cup {"related_to"})
    BY <2>4, <2>5, FS_Union
  <2>7. IsFiniteSet(((({} \cup {"contains"}) \cup {"has_option"}) \cup {"supports"})
                    \cup (({"opposes"} \cup {"discussion_provenance"}) \cup {"related_to"}))
    BY <2>3, <2>6, FS_Union
  <2>8. ((({} \cup {"contains"}) \cup {"has_option"}) \cup {"supports"})
                    \cup (({"opposes"} \cup {"discussion_provenance"}) \cup {"related_to"})
        = {"contains", "has_option", "supports", "opposes", "discussion_provenance", "related_to"}
    OBVIOUS
  <2>9. QED
    BY <2>7, <2>8
<1>2. Relations \in SUBSET {"contains", "has_option", "supports", "opposes",
                            "discussion_provenance", "related_to"}
  BY GraphAssumption DEF RelationTypes, RelationMatrix
<1>3. QED
  BY <1>1, <1>2, FS_Subset

\* There are finitely many relations to speak of.
LEMMA FiniteKeys == IsFiniteSet(RelationKey)
<1> DEFINE Pairs == (Nodes \X Nodes) \X Relations
           flat == [p \in Pairs |-> <<p[1][1], p[1][2], p[2]>>]
<1>1. IsFiniteSet(Pairs)
  BY FiniteNodes, FiniteRelations, FS_Product
<1>2. flat \in [Pairs -> RelationKey]
  BY DEF RelationKey
<1>3. ASSUME NEW k \in RelationKey
      PROVE  \E p \in Pairs : flat[p] = k
  <2>1. PICK u \in Nodes, v \in Nodes, r \in Relations : k = <<u, v, r>>
    BY DEF RelationKey
  <2>2. <<<<u, v>>, r>> \in Pairs /\ flat[<<<<u, v>>, r>>] = k
    BY <2>1
  <2>3. QED
    BY <2>2
<1>4. flat \in Surjection(Pairs, RelationKey)
  BY <1>2, <1>3 DEF Surjection
<1>5. QED
  BY <1>1, <1>4, FS_Surjection

\* The relations of a node are finitely many.
LEMMA FiniteIncident ==
    ASSUME NEW es, NEW n
    PROVE  IsFiniteSet(Incident(es, n)) /\ Cardinality(Incident(es, n)) \in Nat
<1>1. Incident(es, n) \in SUBSET RelationKey
  BY DEF Incident, Present
<1>2. QED
  BY <1>1, FiniteKeys, FS_Subset, FS_CardinalityType

\* A set onto which the relations of a node can be mapped is no larger.
LEMMA NoMoreRelations ==
    ASSUME NEW es, NEW later, NEW n, NEW move,
           DOMAIN move = Incident(es, n),
           \A k \in Incident(later, n) : \E j \in Incident(es, n) : move[j] = k
    PROVE  Cardinality(Incident(later, n)) <= Cardinality(Incident(es, n))
<1> DEFINE Before == Incident(es, n)
           After == Incident(later, n)
           Kept == {j \in Before : move[j] \in After}
           f == [j \in Kept |-> move[j]]
<1>1. IsFiniteSet(Before) /\ Cardinality(Before) \in Nat /\ Cardinality(After) \in Nat
  BY FiniteIncident
<1>2. IsFiniteSet(Kept) /\ Cardinality(Kept) <= Cardinality(Before) /\ Cardinality(Kept) \in Nat
  BY <1>1, FS_Subset, FS_CardinalityType
<1>3. f \in Surjection(Kept, After)
  BY DEF Surjection
<1>4. Cardinality(After) <= Cardinality(Kept)
  BY <1>2, <1>3, FS_Surjection
<1>5. QED
  BY <1>1, <1>2, <1>4

\* A node whose relations are all old ones has no more than it had.
LEMMA FewerRelations ==
    ASSUME NEW es, NEW later, NEW n, Incident(later, n) \subseteq Incident(es, n)
    PROVE  Cardinality(Incident(later, n)) <= Cardinality(Incident(es, n))
<1>1. Cardinality(Incident(later, n)) \in Nat /\ Cardinality(Incident(es, n)) \in Nat
  BY FiniteIncident
<1>2. QED
  BY <1>1, FiniteIncident, FS_Subset

\* A merge of two other nodes maps the relations an archived node has onto those it is
\* left with.
LEMMA MergeGainsNothing ==
    ASSUME TypeOK, NEW s \in Nodes, NEW t \in Nodes, MergeNodes(s, t),
           NEW n \in Nodes, status[n] = "archived"
    PROVE  Cardinality(Incident(edges', n)) <= Cardinality(Incident(edges, n))
<1> DEFINE move == [j \in Incident(edges, n) |-> Image(s, t, j)]
<1>1. n # s /\ n # t /\ edges' = Rewired(s, t)
  BY DEF MergeNodes
<1>2. ASSUME NEW k \in Incident(edges', n)
      PROVE  \E j \in Incident(edges, n) : move[j] = k
  <2>1. k \in RelationKey /\ edges'[k] # {} /\ n \in {k[1], k[2]}
    BY DEF Incident, Present
  <2>2. edges'[k] = Gathered(s, t, k) \cup MergeMark(s, t, k)
    BY <1>1, <2>1, RewiredValue
  <2>3. Origins(s, t, k) # {}
    BY <2>1, <2>2 DEF Gathered, MergeMark
  <2>4. PICK j \in Present(edges) : Image(s, t, j) = k
    BY <2>3 DEF Origins
  <2>5. k[1] = Into(s, t, j[1]) /\ k[2] = Into(s, t, j[2])
    BY <2>4 DEF Image
  <2>6. n \in {j[1], j[2]}
    BY <1>1, <2>1, <2>5 DEF Into
  <2>7. QED
    BY <2>4, <2>6 DEF Incident
<1>3. DOMAIN move = Incident(edges, n)
  OBVIOUS
<1> HIDE DEF move
<1>4. QED
  BY <1>2, <1>3, NoMoreRelations

\* No event gives a relation to a node that is archived.
LEMMA ArchivedGainsNothing ==
    ASSUME TypeOK, [Next]_vars, NEW n \in Nodes, status[n] = "archived"
    PROVE  Cardinality(Incident(edges', n)) <= Cardinality(Incident(edges, n))
<1>1. CASE edges' = edges
  BY <1>1, FewerRelations
<1>2. ASSUME NEW k \in RelationKey, NEW e \in 1 .. MaxEvidence, RelationDetected(k, e)
      PROVE  Incident(edges', n) \subseteq Incident(edges, n)
  <2>1. n \notin {k[1], k[2]} /\ edges' = [edges EXCEPT ![k] = edges[k] \cup {e}]
    BY <1>2 DEF RelationDetected, Attachable, Joinable
  <2>2. QED
    BY <2>1 DEF Incident, Present, TypeOK
<1>3. ASSUME NEW old \in RelationKey \cup {None}, NEW new \in RelationKey \cup {None},
             CorrectRelation(old, new)
      PROVE  Incident(edges', n) \subseteq Incident(edges, n)
  <2> DEFINE rest == IF old = None THEN edges ELSE [edges EXCEPT ![old] = {}]
  <2>1. /\ edges' = IF new = None THEN rest ELSE [rest EXCEPT ![new] = {Human}]
        /\ new # None => n \notin {new[1], new[2]}
    BY <1>3 DEF CorrectRelation, Joinable
  <2>2. rest \in [RelationKey -> SUBSET Sources]
    BY DEF TypeOK
  <2>3. \A j \in RelationKey : rest[j] # {} => edges[j] # {}
    BY DEF TypeOK
  <2> HIDE DEF rest
  <2>4. \A j \in RelationKey : j # new => edges'[j] = rest[j]
    BY <2>1, <2>2
  <2>5. QED
    BY <2>1, <2>3, <2>4, GraphAssumption DEF Incident, Present, RelationKey
<1>4. ASSUME NEW s \in Nodes, NEW t \in Nodes, MergeNodes(s, t)
      PROVE  Cardinality(Incident(edges', n)) <= Cardinality(Incident(edges, n))
  BY <1>4, MergeGainsNothing
<1>5. \/ edges' = edges
      \/ \E k \in RelationKey, e \in 1 .. MaxEvidence : RelationDetected(k, e)
      \/ \E s, t \in Nodes : MergeNodes(s, t)
      \/ \E old, new \in RelationKey \cup {None} : CorrectRelation(old, new)
  BY DEF Next, vars, relationVars, AcceptEvidence, SessionCreated, SessionStarted,
     SessionFinalizing, SessionEnded, SessionEvent, NodeDetected, TopicFocusChanged,
     ConfirmDecision, RevokeDecision, ResolveOpenItem, ReopenOpenItem, ArchiveNode,
     MoveToParkingLot, RestoreFromParkingLot, SetCurrentTopic, FocusOn, RenameNode,
     UndoLastCorrection, UpdateAction, OnlyStatus
<1>6. QED
  BY <1>1, <1>2, <1>3, <1>4, <1>5, FewerRelations

\* A merge keeps the sources of every relation that still joins two nodes.
LEMMA MergeKeeps ==
    ASSUME TypeOK, NEW s \in Nodes, NEW t \in Nodes, MergeNodes(s, t),
           NEW k \in Present(edges),
           Image(s, t, k)[1] # Image(s, t, k)[2]
    PROVE  edges[k] \subseteq edges'[Image(s, t, k)]
<1> DEFINE m == Image(s, t, k)
<1>1. k \in RelationKey /\ m \in RelationKey
  BY DEF Present, RelationKey, Image, Into
<1>2. edges' = Rewired(s, t)
  BY DEF MergeNodes
<1>3. edges'[m] = Gathered(s, t, m) \cup MergeMark(s, t, m)
  BY <1>1, <1>2, RewiredValue
<1>4. k \in Origins(s, t, m)
  BY DEF Origins
<1>5. edges[k] \subseteq Gathered(s, t, m)
  BY <1>4 DEF Gathered
<1>6. QED
  BY <1>3, <1>5

-----------------------------------------------------------------------------
(* Analyses of utterances.                                                 *)

\* The words of the graph an answer falls back to are those of the graph.
LEMMA SameWords ==
    /\ Base!RelationKey = RelationKey /\ Base!Sources = Sources /\ Base!Statuses = Statuses
    /\ Base!Progress = Progress /\ Base!Never = Never /\ Base!Human = Human
  BY DEF Base!RelationKey, RelationKey, Base!Sources, Sources, Base!Statuses, Statuses,
     Base!Progress, Progress, Base!Never, Never, Base!Human, Human

\* A flow of provenance is acyclic in both readings or in none.
LEMMA SameFlow ==
    ASSUME NEW es
    PROVE  Base!Acyclic(Base!Provenance(es)) <=> Acyclic(Provenance(es))
<1>1. Base!Provenance(es) = Provenance(es)
  BY SameWords DEF Provenance, Present, Base!Provenance, Base!Present
<1>2. QED
  BY <1>1 DEF Acyclic, Reaches, Base!Acyclic, Base!Reaches

\* What an analysis does not touch.
Framed == UNCHANGED <<session, rejectedAt, answered>>

\* The graph an analysis begins with is the sound one of the moment.
LEMMA BaseTaken ==
    ASSUME GraphInv, UNCHANGED vars, call'.base = Snapshot
    PROVE  Base!GraphInv'
<1> DEFINE g == call'.base
<1>1. /\ g.revision = revision /\ g.kind = kind /\ g.status = status /\ g.label = label
      /\ g.action = action /\ g.edges = edges /\ g.focus = focus /\ g.names = names
      /\ g.undoable = undoable
  BY DEF Snapshot
<1>2. UNCHANGED <<session, evidence, rejectedAt, answered>>
  BY DEF vars, nodeVars, relationVars
<1>3. Base!TypeOK'
  BY <1>1, <1>2, SameWords DEF GraphInv, TypeOK, Base!TypeOK
<1>4. Base!Named' /\ Base!StatusFitsKind' /\ Base!FocusIsLive' /\ Base!ActionDescriptionIsLabel'
  BY <1>1 DEF GraphInv, Named, StatusFitsKind, FocusIsLive, ActionDescriptionIsLabel,
     Base!Named, Base!StatusFitsKind, Base!FocusIsLive, Base!ActionDescriptionIsLabel
<1>5. Base!RejectionHolds'
  BY <1>1, <1>2, SameWords DEF GraphInv, RejectionHolds, Present, Base!RejectionHolds, Base!Present
<1>6. Base!ProvenanceAcyclic'
  BY <1>1, SameFlow DEF GraphInv, ProvenanceAcyclic, Base!ProvenanceAcyclic
<1>7. QED
  BY <1>3, <1>4, <1>5, <1>6 DEF Base!GraphInv

\* The graph an analysis may fall back to stays sound: people wait, and what they hear
\* meanwhile is evidence alone.
LEMMA BaseKept ==
    ASSUME Base!GraphInv, call'.base = call.base, Framed, evidence' \in 0 .. MaxEvidence
    PROVE  Base!GraphInv'
<1> USE DEF Framed
<1>1. Base!TypeOK'
  BY DEF Base!GraphInv, Base!TypeOK
<1>2. Base!Named' /\ Base!StatusFitsKind' /\ Base!FocusIsLive' /\ Base!ActionDescriptionIsLabel'
  BY DEF Base!GraphInv, Base!Named, Base!StatusFitsKind, Base!FocusIsLive,
     Base!ActionDescriptionIsLabel
<1>3. Base!RejectionHolds'
  BY DEF Base!GraphInv, Base!RejectionHolds, Base!Present
<1>4. Base!ProvenanceAcyclic'
  BY SameFlow DEF Base!GraphInv, Base!ProvenanceAcyclic
<1>5. QED
  BY <1>1, <1>2, <1>3, <1>4 DEF Base!GraphInv

\* An answer that falls leaves a sound graph.
LEMMA GraphRestored ==
    ASSUME Base!GraphInv, Restored(call.base)
    PROVE  GraphInv'
<1> USE DEF Restored, Rewound
<1>1. TypeOK'
  BY SameWords DEF Base!GraphInv, TypeOK, Base!TypeOK
<1>2. Named' /\ StatusFitsKind' /\ FocusIsLive' /\ ActionDescriptionIsLabel'
  BY DEF Base!GraphInv, Named, StatusFitsKind, FocusIsLive, ActionDescriptionIsLabel,
     Base!Named, Base!StatusFitsKind, Base!FocusIsLive, Base!ActionDescriptionIsLabel
<1>3. RejectionHolds'
  BY SameWords DEF Base!GraphInv, RejectionHolds, Present, Base!RejectionHolds, Base!Present
<1>4. ProvenanceAcyclic'
  BY SameFlow DEF Base!GraphInv, ProvenanceAcyclic, Base!ProvenanceAcyclic
<1>5. QED
  BY <1>1, <1>2, <1>3, <1>4 DEF GraphInv

\* A replay that begins anew has the empty graph.
LEMMA ResetGraph ==
    ASSUME AnalysisInv, Reset
    PROVE  GraphInv'
<1>0. /\ revision' = 2 /\ kind' = [n \in Nodes |-> None] /\ status' = [n \in Nodes |-> "absent"]
      /\ label' = [n \in Nodes |-> None]
      /\ action' = [n \in Nodes |-> [description |-> None, progress |-> None]]
      /\ edges' = [k \in RelationKey |-> {}] /\ focus' = NoFocus
      /\ names' = [n \in Nodes |-> <<>>] /\ undoable' = None
      /\ rejectedAt' = [k \in RelationKey |-> Never] /\ answered' = {}
      /\ session' = [session EXCEPT !.status = "active"] /\ evidence' = evidence
  BY DEF Reset, Rewound
<1>1. 2 \in 0 .. MaxRevision
  <2>1. revision \in 0 .. MaxRevision
    BY DEF AnalysisInv, AnalysisTypeOK, TypeOK
  <2>2. revision >= 2
    BY DEF Reset, AnalysisInv, BegunBefore
  <2>3. QED
    BY <2>1, <2>2, GraphAssumption
<1>2. session' \in [created : BOOLEAN, status : {"created", "active", "finalizing", "ended"}]
      /\ evidence' \in 0 .. MaxEvidence
  BY <1>0 DEF AnalysisInv, AnalysisTypeOK, TypeOK
<1>3. TypeOK'
  BY <1>0, <1>1, <1>2, GraphAssumption DEF TypeOK, NoFocus, Statuses
<1>4. NodeInv'
  BY <1>0, GraphAssumption DEF NodeInv, Named, StatusFitsKind, FocusIsLive, NoFocus,
     ActionDescriptionIsLabel, NodeKinds
<1>5. RelationInv'
  BY <1>0 DEF RelationInv, RejectionHolds, ProvenanceAcyclic, Acyclic, Provenance, Present
<1>6. QED
  BY <1>3, <1>4, <1>5 DEF GraphInv, NodeInv, RelationInv

\* A spoken correction takes back a relation of the graph, or none.
LEMMA ReadingsAreKeys ==
    ASSUME NEW r \in Readings
    PROVE  r[1] \in RelationKey \cup {None}
<1>1. SemanticEdges \subseteq RelationKey
  BY DEF SemanticEdges, Present
<1>2. ASSUME NEW shown, r \in TakenApart(shown)
      PROVE  r[1] \in SemanticEdges
  <2>1. PICK k \in SemanticEdges : r = <<k, None>>
    BY <1>2 DEF TakenApart
  <2>2. QED
    BY <2>1
<1>3. ASSUME NEW c, r \in Independent(c)
      PROVE  r[1] \in SemanticEdges
  <2>1. PICK k \in SemanticEdges : r = <<k, None>>
    BY <1>3 DEF Independent, Origin
  <2>2. QED
    BY <2>1
<1>4. ASSUME NEW c, r \in CameFrom(c)
      PROVE  r[1] \in SemanticEdges \cup {None}
  <2> DEFINE D == IF Origin(c) = {} THEN {None} ELSE {k \in Origin(c) : Only(Origin(c))}
             M == {n \in Nodes \ {c} : Exists(n) /\ kind[n] # "topic"}
  <2>1. CameFrom(c) = {<<k, <<n, c, "discussion_provenance">>>> : k \in D, n \in M}
    BY DEF CameFrom
  <2>2. D \subseteq SemanticEdges \cup {None}
    BY DEF Origin
  <2> HIDE DEF D, M
  <2>3. PICK k \in D, n \in M : r = <<k, <<n, c, "discussion_provenance">>>>
    BY <1>4, <2>1
  <2>4. QED
    BY <2>2, <2>3
<1>5. ASSUME NEW c, r \in OtherSide(c)
      PROVE  r[1] \in SemanticEdges
  <2> DEFINE attached == {k \in SemanticEdges : k[3] \in Flips /\ c \in {k[1], k[2]}}
             D == {k \in attached : Only(attached)}
  <2>1. OtherSide(c) = {<<k, <<k[1], k[2], side>>>> : k \in D, side \in Flips}
    BY DEF OtherSide
  <2>2. D \subseteq SemanticEdges
    OBVIOUS
  <2> HIDE DEF D
  <2>3. PICK k \in D, side \in Flips : r = <<k, <<k[1], k[2], side>>>>
    BY <1>5, <2>1
  <2>4. QED
    BY <2>2, <2>3
<1>6. ASSUME r \in AboutAnother
      PROVE  r[1] \in SemanticEdges
  <2>1. PICK k \in SemanticEdges, n \in Nodes : r = <<k, <<k[1], n, k[3]>>>>
    BY <1>6 DEF AboutAnother
  <2>2. QED
    BY <2>1
<1>7. \/ \E shown : r \in TakenApart(shown)
      \/ \E c : r \in Independent(c) \/ r \in CameFrom(c) \/ r \in OtherSide(c)
      \/ r \in AboutAnother
  <2> DEFINE cards == {n \in Nodes : Exists(n) /\ kind[n] # "topic"}
             Apart == {TakenApart(shown) : shown \in SUBSET cards}
             OfCard == {Independent(card) \cup CameFrom(card) \cup OtherSide(card) : card \in cards}
             Fitting == {q \in AboutAnother : Exists(q[2][2]) /\ kind[q[2][2]] = kind[q[1][2]]}
  <2>1. Readings = (UNION Apart) \cup (UNION OfCard) \cup Fitting
    BY DEF Readings
  <2>2. r \in UNION Apart => \E shown : r \in TakenApart(shown)
    OBVIOUS
  <2>3. r \in UNION OfCard => \E c : r \in Independent(c) \/ r \in CameFrom(c) \/ r \in OtherSide(c)
    OBVIOUS
  <2>4. r \in Fitting => r \in AboutAnother
    OBVIOUS
  <2> HIDE DEF Apart, OfCard, Fitting
  <2>5. QED
    BY <2>1, <2>2, <2>3, <2>4
<1>8. QED
  BY <1>1, <1>2, <1>3, <1>4, <1>5, <1>6, <1>7

\* Every step of an analysis is a step of the graph, or goes back to an earlier graph.
LEMMA StepOfGraph ==
    ASSUME AnalysisTypeOK, [AnalysisNext]_allVars
    PROVE  [Next]_vars \/ (call # None /\ Restored(call.base)) \/ Reset
<1>1. CASE UNCHANGED allVars
  BY <1>1 DEF allVars
<1>2. CASE Between \/ Hear
  BY <1>2 DEF Between, Hear, Command, Next
<1>3. ASSUME NEW e \in 1 .. MaxEvidence, Begin(e) \/ SpeakCorrection(e) \/ AskBack(e)
      PROVE  [Next]_vars
  <2>1. CASE SpeakCorrection(e)
    <3>1. PICK r \in Readings : r[2] \in RelationKey \cup {None} /\ CorrectRelation(r[1], r[2])
      BY <2>1 DEF SpeakCorrection
    <3>2. r[1] \in RelationKey \cup {None}
      BY ReadingsAreKeys
    <3>3. QED
      BY <3>1, <3>2 DEF Next
  <2>2. QED
    BY <1>3, <2>1 DEF Begin, AskBack
<1>4. ASSUME NEW n \in Nodes, NameNode(n) \/ TurnTo(n)
      PROVE  [Next]_vars
  BY <1>4 DEF NameNode, TurnTo, Next
<1>5. ASSUME NEW n \in Nodes, NEW t \in Kinds, NEW l \in Labels, DetectNode(n, t, l)
      PROVE  [Next]_vars
  BY <1>5 DEF DetectNode, Next
<1>6. ASSUME NEW n \in Nodes, NEW l \in Labels, MeetDuplicate(n, l)
      PROVE  [Next]_vars
  BY <1>6 DEF MeetDuplicate
<1>7. CASE DropIntent \/ ProviderFails
  BY <1>7 DEF DropIntent, ProviderFails
<1>8. ASSUME NEW k \in RelationKey, Propose(k)
      PROVE  [Next]_vars
  <2>1. RelationDetected(k, call.about) /\ call.about \in 1 .. evidence
    BY <1>8 DEF Propose, RelationDetected
  <2>2. call.about \in 1 .. MaxEvidence
    BY <2>1, GraphAssumption DEF AnalysisTypeOK, TypeOK
  <2>3. QED
    BY <2>1, <2>2 DEF Next
<1>9. ASSUME NEW k \in RelationKey, Refuse(k)
      PROVE  [Next]_vars \/ (call # None /\ Restored(call.base))
  BY <1>9 DEF Refuse, Open
<1>10. CASE Finish
  BY <1>10 DEF Finish
<1>11. QED
  BY <1>1, <1>2, <1>3, <1>4, <1>5, <1>6, <1>7, <1>8, <1>9, <1>10 DEF AnalysisNext

\* No event of the graph brings an archived node back.
LEMMA ArchivedForGood ==
    ASSUME TypeOK, [Next]_vars, NEW n \in Nodes, status[n] = "archived"
    PROVE  status'[n] = "archived"
<1>1. CASE UNCHANGED status
  BY <1>1
<1>2. CASE \E m \in Nodes, t \in Kinds, l \in Labels : NodeDetected(m, t, l)
  BY <1>2 DEF NodeDetected, TypeOK
<1>3. ASSUME NEW m \in Nodes,
             \/ ConfirmDecision(m) \/ RevokeDecision(m)
             \/ ResolveOpenItem(m) \/ ReopenOpenItem(m)
             \/ ArchiveNode(m) \/ MoveToParkingLot(m) \/ RestoreFromParkingLot(m)
      PROVE  status'[n] = "archived"
  BY <1>3 DEF ConfirmDecision, RevokeDecision, ResolveOpenItem, ReopenOpenItem, ArchiveNode,
     MoveToParkingLot, RestoreFromParkingLot, Parkable, SetStatus, TypeOK
<1>4. CASE \E s, t \in Nodes : MergeNodes(s, t)
  BY <1>4 DEF MergeNodes, SetStatus, TypeOK
<1>5. \/ UNCHANGED status
      \/ \E m \in Nodes, t \in Kinds, l \in Labels : NodeDetected(m, t, l)
      \/ \E m \in Nodes :
            \/ ConfirmDecision(m) \/ RevokeDecision(m)
            \/ ResolveOpenItem(m) \/ ReopenOpenItem(m)
            \/ ArchiveNode(m) \/ MoveToParkingLot(m) \/ RestoreFromParkingLot(m)
      \/ \E s, t \in Nodes : MergeNodes(s, t)
  BY DEF Next, vars, nodeVars, AcceptEvidence, SessionCreated, SessionStarted,
     SessionFinalizing, SessionEnded, SessionEvent, RelationDetected, TopicFocusChanged,
     SetCurrentTopic, FocusOn, RenameNode, UndoLastCorrection, UpdateAction, CorrectRelation
<1>6. QED
  BY <1>1, <1>2, <1>3, <1>4, <1>5

\* A node that is archived while an answer is read was archived before.
LEMMA ArchivedInBase ==
    ASSUME AnalysisInv, call # None, NEW n \in Nodes, status[n] = "archived"
    PROVE  call.base.status[n] = "archived"
  BY DEF AnalysisInv, GrownFromBase, Exists

\* A refused relation has two ends.
LEMMA RefusedIsKey ==
    ASSUME AnalysisInv, refused # None
    PROVE  refused \in RelationKey /\ refused[1] \in Nodes /\ refused[2] \in Nodes
  BY DEF AnalysisInv, AnalysisTypeOK, RelationKey

\* What is known of a refused relation stays true of it.
LEMMA RefusalStands ==
    ASSUME AnalysisInv, refused' = refused,
           [Next]_vars \/ (call # None /\ Restored(call.base))
    PROVE  RefusedOnlyLoops'
<1> SUFFICES ASSUME refused # None
             PROVE  RefusedOnlyLoops'
  BY DEF RefusedOnlyLoops
<1>1. refused[1] \in Nodes /\ refused[2] \in Nodes
  BY RefusedIsKey
<1>2. \A n \in Nodes : status[n] = "archived" => status'[n] = "archived"
  <2>1. CASE [Next]_vars
    BY <2>1, ArchivedForGood DEF AnalysisInv, GraphInv
  <2>2. CASE call # None /\ Restored(call.base)
    BY <2>2, ArchivedInBase DEF Restored, Rewound
  <2>3. QED
    BY <2>1, <2>2
<1>3. QED
  BY <1>1, <1>2 DEF AnalysisInv, RefusedOnlyLoops

\* What the analyzer lets through and the graph refuses is a loop, or touches an archived
\* node, with an older prompt.
LEMMA RefusedForGoodReason ==
    ASSUME AnalysisInv, NEW k \in RelationKey, Refuse(k)
    PROVE  \/ k[1] = k[2] /\ k[3] # "discussion_provenance"
           \/ /\ ~Working
              /\ \E n \in {k[1], k[2]} :
                     status[n] = "archived" /\ call.base.status[n] = "archived"
<1>0. /\ call # None
      /\ Resolves(k[1]) /\ Resolves(k[2]) /\ NewerThanRejection(k, call.about)
      /\ <<kind[k[1]], kind[k[2]]>> \in RelationMatrix[k[3]]
      /\ k[3] = "discussion_provenance" => k[1] # k[2] /\ ~ClosesCycle(edges, k)
      /\ ~Attachable(k, call.about)
  BY DEF Refuse, Open, LetsThrough, KeepsOrder
<1>1. k[1] \in Nodes /\ k[2] \in Nodes
  BY DEF RelationKey
<1>2. ~Joinable(k)
  BY <1>0 DEF Attachable, ClosesCycle
<1>3. CASE k[1] = k[2]
  BY <1>0, <1>3
<1>4. CASE k[1] # k[2]
  <2>1. PICK n \in {k[1], k[2]} : status[n] \in {"absent", "archived"}
    BY <1>0, <1>2, <1>4 DEF Joinable
  <2>2. n \in Nodes /\ Resolves(n)
    BY <1>0, <1>1, <2>1
  <2>3. n \notin call.refs
    BY <1>0, <2>1 DEF AnalysisInv, GrownFromBase
  <2>4. InContext(n) /\ call.base.status[n] # "absent"
    BY <2>2, <2>3 DEF Resolves, InContext, Retrieved
  <2>5. status[n] = call.base.status[n]
    BY <1>0, <2>2, <2>4 DEF AnalysisInv, GrownFromBase
  <2>6. ~Working /\ status[n] = "archived"
    BY <2>1, <2>4, <2>5 DEF InContext, Retrieved
  <2>7. QED
    BY <2>1, <2>5, <2>6
<1>5. QED
  BY <1>3, <1>4

\* No step leaves a refusal without its reason.
LEMMA RefusalsExplained ==
    ASSUME AnalysisInv, [AnalysisNext]_allVars
    PROVE  RefusedOnlyLoops'
<1>1. CASE \E k \in RelationKey : Refuse(k)
  <2>1. PICK k \in RelationKey : Refuse(k)
    BY <1>1
  <2>2. refused' = k /\ (UNCHANGED status \/ status' = call.base.status)
    BY <2>1 DEF Refuse, vars, nodeVars, Restored, Rewound
  <2>3. QED
    BY <2>1, <2>2, RefusedForGoodReason DEF RefusedOnlyLoops
<1>2. CASE refused' = None
  BY <1>2 DEF RefusedOnlyLoops
<1>3. CASE refused' = refused /\ ~Reset
  <2>1. [Next]_vars \/ (call # None /\ Restored(call.base))
    BY <1>3, StepOfGraph DEF AnalysisInv
  <2>2. QED
    BY <1>3, <2>1, RefusalStands
<1>4. QED
  BY <1>1, <1>2, <1>3 DEF AnalysisNext, allVars, analysisVars, Between, Hear, Begin,
     SpeakCorrection, AskBack, NameNode, TurnTo, DetectNode, MeetDuplicate, DropIntent, Propose,
     ProviderFails, Finish, Reset

\* What is said of the analysis under way and of the meeting it belongs to.
HostInv ==
    /\ host \in Hosts
    /\ heard \subseteq 1 .. evidence
    /\ refused \in RelationKey \cup {None}

CallTyped ==
    /\ DOMAIN call = {"about", "base", "refs", "relating", "critical", "intents"}
    /\ call.about \in 1 .. evidence \ heard
    /\ call.refs \subseteq Nodes
    /\ call.intents \in 0 .. MaxIntents

CallInv == (call # None => CallTyped /\ Base!GraphInv) /\ GrownFromBase

\* The parts of the invariant, as the proofs take them.
LEMMA AnalysisParts ==
    AnalysisInv <=> /\ GraphInv /\ HostInv /\ CallInv /\ BegunBefore /\ RefusedOnlyLoops
  BY DEF AnalysisInv, AnalysisTypeOK, HostInv, CallInv, CallTyped, GraphInv

\* The next intent of an answer: the call keeps its evidence and its base, its references
\* are live nodes, and what came into being is among them.
LEMMA IntentStep ==
    ASSUME AnalysisInv, Open, GraphInv',
           DOMAIN call' = DOMAIN call, call'.about = call.about, call'.base = call.base,
           call'.intents = call.intents + 1,
           call'.refs \subseteq Nodes, call.refs \subseteq call'.refs,
           \A n \in Nodes :
               \/ status'[n] = status[n]
               \/ /\ status[n] = "absent" /\ status'[n] \notin {"absent", "archived"}
                  /\ n \in call'.refs,
           \A n \in call'.refs : status'[n] \notin {"absent", "archived"},
           \/ focus' = focus
           \/ focus'.mode = "derived" /\ call.base.focus.mode # "human_corrected",
           revision' \in {revision, revision + 1},
           Framed, UNCHANGED <<evidence, heard, host>>,
           refused' \in RelationKey \cup {None}
    PROVE  HostInv' /\ CallInv' /\ BegunBefore'
<1>1. HostInv'
  BY DEF AnalysisInv, AnalysisTypeOK, HostInv
<1>2. CallTyped /\ Base!GraphInv /\ call # None
  BY AnalysisParts DEF CallInv, Open
<1>3. CallTyped'
  <2>1. call.intents + 1 \in 0 .. MaxIntents
    BY <1>2, AnalysisAssumption DEF CallTyped, Open
  <2>2. QED
    BY <1>2, <2>1 DEF CallTyped
<1>4. Base!GraphInv'
  <2>1. evidence' \in 0 .. MaxEvidence
    BY DEF GraphInv, TypeOK
  <2>2. QED
    BY <1>2, <2>1, BaseKept
<1>5. GrownFromBase'
  <2>1. GrownFromBase
    BY DEF AnalysisInv
  <2>2. QED
    BY <1>2, <2>1 DEF GrownFromBase, Exists
<1>6. BegunBefore'
  <2>1. revision \in Nat /\ BegunBefore
    BY DEF AnalysisInv, AnalysisTypeOK, TypeOK
  <2>2. session' = session /\ call'.base.revision = call.base.revision
    BY DEF Framed
  <2>3. \A m \in Nat : revision' >= 0 /\ (revision >= m => revision' >= m)
    BY <2>1
  <2>4. QED
    BY <1>2, <2>1, <2>2, <2>3 DEF BegunBefore
<1>7. QED
  BY <1>1, <1>3, <1>4, <1>5, <1>6 DEF CallInv

\* The end of an analysis, whatever became of its answer.
LEMMA EndStep ==
    ASSUME AnalysisInv, call # None, call' = None,
           heard' \in {heard, heard \cup {call.about}},
           refused' \in RelationKey \cup {None},
           UNCHANGED vars \/ Restored(call.base), UNCHANGED host
    PROVE  HostInv' /\ CallInv' /\ BegunBefore'
<1>1. CallTyped /\ HostInv /\ BegunBefore
  BY AnalysisParts DEF CallInv
<1>2. session' = session /\ evidence' = evidence /\ revision' \in {revision, call.base.revision}
  BY DEF vars, Restored, Rewound
<1>3. HostInv'
  BY <1>1, <1>2 DEF HostInv, CallTyped
<1>4. CallInv'
  BY DEF CallInv, GrownFromBase
<1>5. revision \in Nat /\ (revision >= 2 => revision >= 1) /\ (call.base.revision >= 2 => call.base.revision >= 1)
  <2>1. call.base.revision \in Nat
    BY AnalysisParts DEF CallInv, Base!GraphInv, Base!TypeOK
  <2>2. revision \in Nat
    BY DEF AnalysisInv, AnalysisTypeOK, TypeOK
  <2>3. QED
    BY <2>1, <2>2
<1>6. BegunBefore'
  BY <1>1, <1>2, <1>5 DEF BegunBefore
<1>7. QED
  BY <1>3, <1>4, <1>6

\* A step outside of any analysis.
LEMMA IdleStep ==
    ASSUME AnalysisInv, GraphInv', call = None, call' = None, Started \/ heard' = heard,
           heard' \subseteq 1 .. evidence', evidence' = evidence,
           host' = host, refused' = refused,
           session.created => session'.created,
           session'.created => revision' >= 1,
           session'.status # "created" => session'.created /\ revision' >= 2,
           session.status # "created" => session'.status # "created"
    PROVE  HostInv' /\ CallInv' /\ BegunBefore'
<1>1. HostInv /\ BegunBefore
  BY AnalysisParts
<1>2. HostInv'
  BY <1>1 DEF HostInv
<1>3. CallInv'
  BY DEF CallInv, GrownFromBase
<1>4. BegunBefore'
  BY <1>1 DEF BegunBefore, Started
<1>5. QED
  BY <1>2, <1>3, <1>4

\* Reading one intent of an answer.
LEMMA AnswerStep ==
    ASSUME AnalysisInv, GraphInv',
           \/ \E n \in Nodes : NameNode(n) \/ TurnTo(n)
           \/ \E n \in Nodes, t \in Kinds, l \in Labels : DetectNode(n, t, l)
           \/ \E n \in Nodes, l \in Labels : MeetDuplicate(n, l)
           \/ DropIntent
           \/ \E k \in RelationKey : Propose(k) \/ Refuse(k)
    PROVE  HostInv' /\ CallInv' /\ BegunBefore'
<1>0. /\ GraphInv /\ HostInv
      /\ \A n \in call.refs : call # None => status[n] \notin {"absent", "archived"}
      /\ \A n \in Nodes : call # None /\ call.base.status[n] # "absent" => status[n] = call.base.status[n]
      /\ call # None => CallTyped
  BY AnalysisParts DEF CallInv, GrownFromBase
<1>1. ASSUME NEW n \in Nodes, NameNode(n) \/ (\E l \in Labels : MeetDuplicate(n, l))
      PROVE  HostInv' /\ CallInv' /\ BegunBefore'
  <2>1. /\ Open /\ UNCHANGED <<vars, host, heard, refused>>
        /\ call.base.status[n] \notin {"absent", "archived"}
        /\ \/ call' = [NextIntent EXCEPT !.refs = @ \cup {n}]
           \/ call' = [NextIntent EXCEPT !.refs = @ \cup {n}, !.critical = TRUE]
    BY <1>1 DEF NameNode, MeetDuplicate, DuplicateTopic
  <2>2. CallTyped /\ call # None
    BY <1>0, <2>1 DEF Open
  <2>3. /\ DOMAIN call' = DOMAIN call /\ call'.about = call.about /\ call'.base = call.base
        /\ call'.intents = call.intents + 1 /\ call'.refs = call.refs \cup {n}
    BY <2>1, <2>2 DEF NextIntent, CallTyped
  <2>4. /\ UNCHANGED <<session, revision, evidence, status, focus, rejectedAt, answered>>
        /\ UNCHANGED <<heard, host, refused>>
    BY <2>1 DEF vars, nodeVars, relationVars
  <2>5. \A m \in call'.refs : status'[m] \notin {"absent", "archived"}
    BY <1>0, <2>1, <2>2, <2>3, <2>4
  <2>6. call'.refs \subseteq Nodes
    BY <2>2, <2>3 DEF CallTyped
  <2>7. QED
    BY <1>0, <2>1, <2>3, <2>4, <2>5, <2>6, IntentStep DEF HostInv, Framed
<1>2. ASSUME NEW n \in Nodes, TurnTo(n)
      PROVE  HostInv' /\ CallInv' /\ BegunBefore'
  <2>1. /\ Open /\ UNCHANGED <<host, heard, refused>>
        /\ call' = [NextIntent EXCEPT !.relating = TRUE]
        /\ call.base.focus.mode # "human_corrected"
        /\ focus'.mode = "derived"
        /\ UNCHANGED <<session, evidence, status, rejectedAt, answered>>
        /\ revision' = revision + 1
    BY <1>2 DEF TurnTo, MayTurnTo, TopicFocusChanged, FocusOn, Accepted, Appended, nodeVars, relationVars
  <2>2. CallTyped /\ call # None
    BY <1>0, <2>1 DEF Open
  <2>3. /\ DOMAIN call' = DOMAIN call /\ call'.about = call.about /\ call'.base = call.base
        /\ call'.intents = call.intents + 1 /\ call'.refs = call.refs
    BY <2>1, <2>2 DEF NextIntent, CallTyped
  <2>4. call'.refs \subseteq Nodes /\ \A m \in call'.refs : status'[m] \notin {"absent", "archived"}
    BY <1>0, <2>1, <2>2, <2>3 DEF CallTyped
  <2>5. QED
    BY <1>0, <2>1, <2>3, <2>4, IntentStep DEF HostInv, Framed
<1>3. ASSUME NEW n \in Nodes, NEW t \in Kinds, NEW l \in Labels, DetectNode(n, t, l)
      PROVE  HostInv' /\ CallInv' /\ BegunBefore'
  <2>1. /\ Open /\ UNCHANGED <<host, heard, refused>>
        /\ call' = [NextIntent EXCEPT !.refs = @ \cup {n}]
        /\ status[n] = "absent"
        /\ status' = [status EXCEPT ![n] = IF t = "decision" THEN "candidate" ELSE "active"]
        /\ UNCHANGED <<session, evidence, focus, rejectedAt, answered>>
        /\ revision' = revision + 1
    BY <1>3 DEF DetectNode, NodeDetected, Accepted, Appended, relationVars
  <2>2. CallTyped /\ call # None
    BY <1>0, <2>1 DEF Open
  <2>3. /\ DOMAIN call' = DOMAIN call /\ call'.about = call.about /\ call'.base = call.base
        /\ call'.intents = call.intents + 1 /\ call'.refs = call.refs \cup {n}
    BY <2>1, <2>2 DEF NextIntent, CallTyped
  <2>4. \A m \in Nodes : /\ m # n => status'[m] = status[m]
                         /\ m = n => status'[m] \notin {"absent", "archived"}
    BY <1>0, <2>1 DEF GraphInv, TypeOK
  <2>5. call'.refs \subseteq Nodes
    BY <2>2, <2>3 DEF CallTyped
  <2>6. /\ \A m \in call'.refs : status'[m] \notin {"absent", "archived"}
        /\ \A m \in Nodes :
               \/ status'[m] = status[m]
               \/ /\ status[m] = "absent" /\ status'[m] \notin {"absent", "archived"}
                  /\ m \in call'.refs
    BY <1>0, <2>1, <2>2, <2>3, <2>4, <2>5
  <2>7. QED
    BY <1>0, <2>1, <2>3, <2>5, <2>6, IntentStep DEF HostInv, Framed
<1>4. CASE DropIntent \/ \E k \in RelationKey : Propose(k) \/ (Refuse(k) /\ host = "replay")
  <2>1. /\ Open /\ UNCHANGED <<host, heard>>
        /\ refused' \in RelationKey \cup {None}
        /\ \/ call' = [NextIntent EXCEPT !.relating = TRUE]
           \/ call' = [NextIntent EXCEPT !.critical = TRUE]
        /\ UNCHANGED <<session, evidence, status, focus, rejectedAt, answered>>
        /\ revision' \in {revision, revision + 1}
    BY <1>0, <1>4 DEF DropIntent, Propose, Refuse, RelationDetected, Accepted, Appended, vars,
       nodeVars, relationVars, HostInv
  <2>2. CallTyped /\ call # None
    BY <1>0, <2>1 DEF Open
  <2>3. /\ DOMAIN call' = DOMAIN call /\ call'.about = call.about /\ call'.base = call.base
        /\ call'.intents = call.intents + 1 /\ call'.refs = call.refs
    BY <2>1, <2>2 DEF NextIntent, CallTyped
  <2>4. call'.refs \subseteq Nodes /\ \A m \in call'.refs : status'[m] \notin {"absent", "archived"}
    BY <1>0, <2>1, <2>2, <2>3 DEF CallTyped
  <2>5. QED
    BY <2>1, <2>3, <2>4, IntentStep DEF Framed
<1>5. ASSUME NEW k \in RelationKey, Refuse(k), host # "replay"
      PROVE  HostInv' /\ CallInv' /\ BegunBefore'
  BY <1>5, EndStep DEF Refuse, Lost, Open
<1>6. QED
  BY <1>1, <1>2, <1>3, <1>4, <1>5

\* Each step keeps what is said of the host, the meeting and the analysis.
LEMMA HostStep ==
    ASSUME AnalysisInv, GraphInv', [AnalysisNext]_allVars
    PROVE  HostInv' /\ CallInv' /\ BegunBefore'
<1>0. /\ GraphInv /\ HostInv /\ CallInv /\ BegunBefore
      /\ revision \in Nat /\ evidence \in 0 .. MaxEvidence /\ MaxEvidence \in Nat
  BY AnalysisParts, GraphAssumption DEF GraphInv, TypeOK
<1>1. CASE UNCHANGED allVars
  BY <1>0, <1>1, BaseKept DEF allVars, vars, nodeVars, relationVars, analysisVars, HostInv,
     CallInv, CallTyped, GrownFromBase, Exists, BegunBefore, Framed
<1>2. CASE Between
  <2>1. call = None /\ call' = None /\ heard' = heard /\ host' = host /\ refused' = refused
    BY <1>2 DEF Between, analysisVars
  <2>2. evidence' = evidence /\ revision' = revision + 1
    BY <1>2 DEF Between, Command, SessionCreated, SessionStarted, SessionFinalizing,
       SessionEnded, SessionEvent, ConfirmDecision, RevokeDecision, ResolveOpenItem,
       ReopenOpenItem, ArchiveNode, MoveToParkingLot, RestoreFromParkingLot, SetCurrentTopic,
       FocusOn, RenameNode, UndoLastCorrection, UpdateAction, MergeNodes, CorrectRelation,
       Accepted, Appended
  <2>3. \/ session' = session
        \/ ~session.created /\ session' = [session EXCEPT !.created = TRUE] /\ session.status = "created"
        \/ session.created /\ session' = [session EXCEPT !.status = "active"]
        \/ session.status # "created" /\ session' \in {[session EXCEPT !.status = "finalizing"],
                                                       [session EXCEPT !.status = "ended"]}
    BY <1>2 DEF Between, Command, SessionCreated, SessionStarted, SessionFinalizing,
       SessionEnded, SessionEvent, ConfirmDecision, RevokeDecision, ResolveOpenItem,
       ReopenOpenItem, ArchiveNode, MoveToParkingLot, RestoreFromParkingLot, SetCurrentTopic,
       FocusOn, RenameNode, UndoLastCorrection, UpdateAction, MergeNodes, CorrectRelation,
       OnlyStatus
  <2>4. session \in [created : BOOLEAN, status : {"created", "active", "finalizing", "ended"}]
    BY <1>0 DEF GraphInv, TypeOK
  <2>5. /\ session.created => session'.created
        /\ session'.created => revision' >= 1
        /\ session'.status # "created" => session'.created /\ revision' >= 2
        /\ session.status # "created" => session'.status # "created"
    BY <1>0, <2>2, <2>3, <2>4 DEF BegunBefore
  <2>6. heard' \subseteq 1 .. evidence'
    BY <1>0, <2>1, <2>2 DEF HostInv
  <2>7. QED
    BY <2>1, <2>2, <2>5, <2>6, IdleStep
<1>3. CASE Hear
  <2>1. /\ evidence' = evidence + 1 /\ evidence' \in 0 .. MaxEvidence
        /\ UNCHANGED <<session, revision, rejectedAt, answered, status, focus, host, heard, call, refused>>
    BY <1>0, <1>3 DEF Hear, AcceptEvidence, nodeVars, relationVars, analysisVars
  <2>2. HostInv' /\ (call # None => CallTyped')
    BY <1>0, <2>1 DEF HostInv, CallInv, CallTyped
  <2>3. call # None => Base!GraphInv'
    BY <1>0, <2>1, BaseKept DEF CallInv, Framed
  <2>4. GrownFromBase' /\ BegunBefore'
    BY <1>0, <2>1 DEF CallInv, GrownFromBase, Exists, BegunBefore
  <2>5. QED
    BY <2>1, <2>2, <2>3, <2>4 DEF CallInv
<1>4. ASSUME NEW e \in 1 .. MaxEvidence, Begin(e)
      PROVE  HostInv' /\ CallInv' /\ BegunBefore'
  <2>1. /\ call' = [about |-> e, base |-> Snapshot, refs |-> {}, relating |-> FALSE,
                    critical |-> FALSE, intents |-> 0]
        /\ UNCHANGED <<vars, host, heard>> /\ refused' = None
        /\ session.created /\ session.status # "created" /\ e \in 1 .. evidence \ heard
    BY <1>4 DEF Begin, Started, MayHear
  <2>2. HostInv' /\ CallTyped'
    BY <1>0, <2>1, AnalysisAssumption DEF HostInv, CallTyped, vars
  <2>3. Base!GraphInv'
    BY <1>0, <2>1, BaseTaken
  <2>4. GrownFromBase' /\ BegunBefore'
    BY <1>0, <2>1 DEF GrownFromBase, BegunBefore, Snapshot, vars, nodeVars, Exists
  <2>5. QED
    BY <2>2, <2>3, <2>4 DEF CallInv
<1>5. ASSUME NEW e \in 1 .. MaxEvidence, SpeakCorrection(e) \/ AskBack(e)
      PROVE  HostInv' /\ CallInv' /\ BegunBefore'
  <2>1. /\ call = None /\ call' = None /\ Started /\ heard' = heard \cup {e} /\ e \in 1 .. evidence
        /\ host' = host /\ refused' = refused /\ session' = session /\ evidence' = evidence
        /\ revision' \in {revision, revision + 1}
    BY <1>5 DEF SpeakCorrection, AskBack, MayHear, CorrectRelation, Accepted, Appended, vars
  <2>2. heard' \subseteq 1 .. evidence'
    BY <1>0, <2>1 DEF HostInv
  <2>3. /\ session'.created => revision' >= 1
        /\ session'.status # "created" => session'.created /\ revision' >= 2
    BY <1>0, <2>1 DEF BegunBefore
  <2>4. QED
    BY <2>1, <2>2, <2>3, IdleStep
<1>6. CASE ProviderFails \/ Finish
  <2>1. /\ call # None /\ call' = None /\ refused' = refused /\ host' = host
        /\ heard' \in {heard, heard \cup {call.about}}
        /\ UNCHANGED vars \/ Restored(call.base)
    BY <1>6 DEF ProviderFails, Finish, Lost
  <2>2. QED
    BY <1>0, <2>1, EndStep DEF HostInv
<1>7. CASE Reset
  <2>1. /\ call = None /\ call' = None /\ heard' = {} /\ refused' = None /\ host' = host
        /\ session' = [session EXCEPT !.status = "active"] /\ revision' = 2 /\ heard # {}
    BY <1>7 DEF Reset, Rewound
  <2>2. session.created /\ session'.created
    BY <1>0, <2>1 DEF BegunBefore, GraphInv, TypeOK
  <2>3. HostInv' /\ CallInv'
    BY <1>0, <2>1 DEF HostInv, CallInv, GrownFromBase
  <2>4. session'.status # "created"
    BY <1>0, <2>1 DEF GraphInv, TypeOK
  <2>5. BegunBefore'
    BY <2>1, <2>2, <2>4 DEF BegunBefore
  <2>6. QED
    BY <2>3, <2>5
<1>8. CASE \/ \E n \in Nodes : NameNode(n) \/ TurnTo(n)
           \/ \E n \in Nodes, t \in Kinds, l \in Labels : DetectNode(n, t, l)
           \/ \E n \in Nodes, l \in Labels : MeetDuplicate(n, l)
           \/ DropIntent
           \/ \E k \in RelationKey : Propose(k) \/ Refuse(k)
  BY <1>8, AnswerStep
<1>9. QED
  BY <1>1, <1>2, <1>3, <1>4, <1>5, <1>6, <1>7, <1>8 DEF AnalysisNext

\* The inductive invariant is kept by every step of a host, of the analyzer and of people.
LEMMA AnalysisKept ==
    ASSUME AnalysisInv, [AnalysisNext]_allVars
    PROVE  AnalysisInv'
<1>1. GraphInv'
  <2>1. CASE [Next]_vars
    BY <2>1, NextInv DEF AnalysisInv
  <2>2. CASE call # None /\ Restored(call.base)
    BY <2>2, GraphRestored DEF AnalysisInv
  <2>3. CASE Reset
    BY <2>3, ResetGraph
  <2>4. QED
    BY <2>1, <2>2, <2>3, StepOfGraph DEF AnalysisInv
<1>2. HostInv' /\ CallInv' /\ BegunBefore'
  BY <1>1, HostStep
<1>3. RefusedOnlyLoops'
  BY RefusalsExplained
<1>4. QED
  BY <1>1, <1>2, <1>3 DEF AnalysisInv, AnalysisTypeOK, HostInv, CallInv, CallTyped, GraphInv

\* Every host starts with an empty graph and nothing heard.
LEMMA AnalysisStarts == AnalysisInit => AnalysisInv
<1> SUFFICES ASSUME AnalysisInit
             PROVE  AnalysisInv
  OBVIOUS
<1>1. TypeOK
  BY GraphAssumption DEF AnalysisInit, Blank, TypeOK, NoFocus, Statuses
<1>2. NodeInv
  BY GraphAssumption DEF AnalysisInit, Blank, NodeInv, Named, StatusFitsKind, FocusIsLive,
     NoFocus, ActionDescriptionIsLabel, NodeKinds
<1>3. RelationInv
  BY DEF AnalysisInit, Blank, RelationInv, RejectionHolds, ProvenanceAcyclic, Acyclic, Provenance,
     Present
<1>4. HostInv /\ CallInv /\ BegunBefore /\ RefusedOnlyLoops
  BY DEF AnalysisInit, HostInv, CallInv, GrownFromBase, BegunBefore, RefusedOnlyLoops
<1>5. QED
  BY <1>1, <1>2, <1>3, <1>4, InvParts, AnalysisParts

\* Only a step between two analyses moves a topic that a person chose.
LEMMA ChoiceKept ==
    ASSUME AnalysisInv, [AnalysisNext]_allVars, focus.mode = "human_corrected", focus' # focus
    PROVE  call = None
<1> SUFFICES ASSUME call # None
             PROVE  FALSE
  OBVIOUS
<1>1. focus = call.base.focus
  BY DEF AnalysisInv, GrownFromBase
<1>2. CASE UNCHANGED focus
  BY <1>2
<1>3. ASSUME NEW n \in Nodes, TurnTo(n)
      PROVE  FALSE
  BY <1>1, <1>3 DEF TurnTo, MayTurnTo
<1>4. CASE Restored(call.base)
  BY <1>1, <1>4 DEF Restored, Rewound
<1>5. ASSUME NEW e \in 1 .. MaxEvidence, Begin(e) \/ SpeakCorrection(e) \/ AskBack(e)
      PROVE  FALSE
  BY <1>5 DEF Begin, SpeakCorrection, AskBack
<1>6. CASE Between \/ Reset
  BY <1>6 DEF Between, Reset
<1>7. CASE Hear \/ (\E n \in Nodes : NameNode(n)) \/ DropIntent \/ ProviderFails
  BY <1>7 DEF Hear, AcceptEvidence, NameNode, DropIntent, ProviderFails, vars
<1>8. ASSUME NEW n \in Nodes, NEW l \in Labels,
             MeetDuplicate(n, l) \/ \E t \in Kinds : DetectNode(n, t, l)
      PROVE  UNCHANGED focus
  BY <1>8 DEF MeetDuplicate, DetectNode, NodeDetected, vars
<1>9. ASSUME NEW k \in RelationKey, Propose(k) \/ Refuse(k)
      PROVE  UNCHANGED focus \/ Restored(call.base)
  BY <1>9 DEF Propose, RelationDetected, Refuse, vars
<1>10. CASE Finish
  BY <1>2, <1>4, <1>10 DEF Finish, vars
<1>11. CASE UNCHANGED allVars
  BY <1>11 DEF allVars, vars
<1>12. QED
  BY <1>2, <1>3, <1>4, <1>5, <1>6, <1>7, <1>8, <1>9, <1>10, <1>11 DEF AnalysisNext

-----------------------------------------------------------------------------
(* Theorems.                                                               *)

\* The inductive invariant holds of every graph a stream of accepted events builds.
THEOREM GraphInvariant == Spec => []GraphInv
  BY InitInv, NextInv, PTL DEF Spec

\* The state of the materializer is well-typed.
THEOREM GraphTyped == Spec => []TypeOK
<1>1. GraphInv => TypeOK
  BY DEF GraphInv
<1>2. QED
  BY <1>1, GraphInvariant, PTL

\* No order of detections, corrections and merges closes a circle of provenance: the
\* search before an added edge and the check after a merge are enough.
THEOREM ProvenanceStaysAcyclic == Spec => []ProvenanceAcyclic
<1>1. GraphInv => ProvenanceAcyclic
  BY DEF GraphInv
<1>2. QED
  BY <1>1, GraphInvariant, PTL

\* A relation a person removed returns only by a person or on newer evidence, also
\* when it is rebuilt by a merge.
THEOREM RejectionsHold == Spec => []RejectionHolds
<1>1. GraphInv => RejectionHolds
  BY DEF GraphInv
<1>2. QED
  BY <1>1, GraphInvariant, PTL

\* Parking, restoring, merging and archiving leave every node a status of its type.
THEOREM StatusesFitKinds == Spec => []StatusFitsKind
<1>1. GraphInv => StatusFitsKind
  BY DEF GraphInv
<1>2. QED
  BY <1>1, GraphInvariant, PTL

\* The current topic is never archived, and one a person chose is an active topic.
THEOREM FocusStaysLive == Spec => []FocusIsLive
<1>1. GraphInv => FocusIsLive
  BY DEF GraphInv
<1>2. QED
  BY <1>1, GraphInvariant, PTL

\* No correction, parking or merge breaks a node's lifecycle or the current topic.
THEOREM LifecyclesAreKept == Spec => []LifecycleKept
<1>1. GraphInv => LifecycleKept
  BY DEF GraphInv, LifecycleKept
<1>2. QED
  BY <1>1, GraphInvariant, PTL

\* Rename, update and undo never separate an action's description from its label.
THEOREM DescriptionFollowsLabel == Spec => []ActionDescriptionIsLabel
<1>1. GraphInv => ActionDescriptionIsLabel
  BY DEF GraphInv
<1>2. QED
  BY <1>1, GraphInvariant, PTL

\* An archived node never has more relations than before, whatever is detected,
\* corrected or merged around it.
THEOREM ArchivedNodesGainNoRelation == Spec => ArchivedGainsNoRelation
<1>1. TypeOK /\ [Next]_vars =>
          [\A n \in Nodes : status[n] = "archived" =>
              Cardinality(Incident(edges', n)) <= Cardinality(Incident(edges, n))]_vars
  BY ArchivedGainsNothing
<1>2. QED
  BY <1>1, GraphTyped, PTL DEF Spec, ArchivedGainsNoRelation

\* A merge forgets no source event of a relation, unless the relation would join the
\* surviving node to itself.
THEOREM MergesKeepSources == Spec => MergeKeepsSources
<1>1. TypeOK =>
          [\A s, t \in Nodes : MergeNodes(s, t) =>
              \A k \in Present(edges) :
                  LET m == Image(s, t, k) IN m[1] # m[2] => edges[k] \subseteq edges'[m]]_vars
  BY MergeKeeps
<1>2. QED
  BY <1>1, GraphTyped, PTL DEF Spec, MergeKeepsSources

\* Whatever a model answers and whoever applies the answer, the graph stays sound, and so
\* does the one it falls back to; and what the analyzer lets through the materializer
\* takes, but for a loop outside of provenance or an archived node of an older prompt.
THEOREM AnalysesAreSound == AnalysisSpec => []AnalysisInv
  BY AnalysisStarts, AnalysisKept, PTL DEF AnalysisSpec

\* No answer breaks a node's lifecycle or leaves a dead topic in focus.
THEOREM AnswersKeepLifecycles == AnalysisSpec => []LifecycleKept
<1>1. AnalysisInv => LifecycleKept
  BY DEF AnalysisInv, GraphInv, LifecycleKept
<1>2. QED
  BY <1>1, AnalysesAreSound, PTL

\* No answer moves the current topic away from the one a person chose.
THEOREM ChoicesStand == AnalysisSpec => ChoiceStands
<1>1. AnalysisInv /\ [AnalysisNext]_allVars =>
          [focus.mode = "human_corrected" /\ focus' # focus => call = None]_allVars
  BY ChoiceKept
<1>2. QED
  BY <1>1, AnalysesAreSound, PTL DEF AnalysisSpec, ChoiceStands

=============================================================================
