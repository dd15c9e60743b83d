--------------------------- MODULE GraphAnalysis ---------------------------
(***************************************************************************)
(* From an utterance to events of the discussion graph.                    *)
(*                                                                         *)
(* prototype/analysis_engine.py: RealAnalyzer turns the answer of a        *)
(* language model into candidate events and checks each against the graph  *)
(* it was given and the candidates before it.  A host then applies them to *)
(* the graph, where the materializer checks them again:                    *)
(*   "replay"   TranscriptReplaySession takes those it can and goes on,    *)
(*   "live"     LiveAnalyzerRuntime takes all or none,                     *)
(*   "service"  ServiceAnalyzerWorker too, and none of an answer in which  *)
(*              the analyzer found a critical error.                       *)
(* prototype/relation_correction.py: the live host first reads an          *)
(* utterance as a correction of a relation.                                *)
(*                                                                         *)
(* A host keeps its copy only if the graph has not moved meanwhile, so the *)
(* steps of one analysis follow each other here and people wait (LiveQueue *)
(* and ServiceJobs show what happens when they do not).  A candidate is    *)
(* applied as soon as it passes the analyzer; the graph it was checked     *)
(* against is kept in the call, to be restored when the answer falls.      *)
(***************************************************************************)
EXTENDS DiscussionGraph

CONSTANTS
    Working,      \* the prompt is one of those for the working graph (v6 and later)
    MaxIntents    \* bound: intents of one answer

ASSUME AnalysisAssumption == Working \in BOOLEAN /\ MaxIntents \in Nat

VARIABLES
    host,      \* who applies the candidates
    heard,     \* utterances that are done with
    call,      \* the analysis under way, None between two
    refused    \* history only: the relation the materializer refused last

analysisVars == <<host, heard, call, refused>>
allVars == <<vars, analysisVars>>

Hosts == {"replay", "live", "service"}

\* A replayed transcript has all its evidence from the start.
AnalysisInit ==
    /\ host \in Hosts
    /\ session = [created |-> FALSE, status |-> "created"]
    /\ revision = 0
    /\ evidence = IF host = "replay" THEN MaxEvidence ELSE 0
    /\ Blank
    /\ heard = {} /\ call = None /\ refused = None

-----------------------------------------------------------------------------
(* The graph the analyzer reads.                                           *)

Snapshot ==
    [revision |-> revision, kind |-> kind, status |-> status, label |-> label,
     action |-> action, edges |-> edges, focus |-> focus, names |-> names,
     undoable |-> undoable]

Rewound(g) ==
    /\ revision' = g.revision /\ kind' = g.kind /\ status' = g.status
    /\ label' = g.label /\ action' = g.action /\ edges' = g.edges
    /\ focus' = g.focus /\ names' = g.names /\ undoable' = g.undoable

Restored(g) == Rewound(g) /\ UNCHANGED <<session, evidence, rejectedAt, answered>>

\* What a prompt for the working graph shows, as far as it goes.
Retrieved(n) == call.base.status[n] \notin {"absent", "archived", "parked"}

\* With the earlier prompts a reference is only looked up in the graph, whatever became
\* of the node.
InContext(n) == IF Working THEN Retrieved(n) ELSE call.base.status[n] # "absent"

\* A reference of a relation: a node of the context, or one a node intent stands for.
Resolves(n) == n \in call.refs \/ InContext(n)

DuplicateTopic(n, l) ==
    /\ call.base.kind[n] = "topic" /\ call.base.status[n] = "active"
    /\ call.base.label[n] = l

\* Mutated: only the edges of the graph are searched, not the candidates so far.
KeepsOrderBug(k) == ~ClosesCycle(call.base.edges, k)

\* Provenance has two ends and closes no circle with the edges and the candidates so far.
KeepsOrder(k) == k[1] # k[2] /\ ~ClosesCycle(edges, k)

\* What _to_candidates lets through of the relations in an answer.
LetsThrough(k) ==
    /\ Resolves(k[1]) /\ Resolves(k[2])
    /\ NewerThanRejection(k, call.about)
    /\ k[3] # IF Working THEN "related_to" ELSE "discussion_provenance"
    /\ <<kind[k[1]], kind[k[2]]>> \in RelationMatrix[k[3]]
    /\ k[3] = "discussion_provenance" => KeepsOrder(k)

\* Mutated: a topic that a person chose is left for the one that is talked about.
MayTurnToBug(n) ==
    /\ kind[n] = "topic" /\ status[n] = "active" /\ n # call.base.focus.topic

\* A choice of a person stands, and the topic in focus is no news.
MayTurnTo(n) ==
    /\ call.base.focus.mode # "human_corrected"
    /\ kind[n] = "topic" /\ status[n] = "active" /\ n # call.base.focus.topic

-----------------------------------------------------------------------------
(* One analysis.                                                           *)

\* A failed item of the live queue may be taken again after later ones; the others
\* take the utterances as they were spoken.
MayHear(e) ==
    /\ e \in 1 .. evidence \ heard
    /\ host # "live" => 1 .. e - 1 \subseteq heard

\* Every host creates and starts its meeting first.
Started == session.created /\ session.status # "created"

Begin(e) ==
    /\ call = None /\ Started /\ MayHear(e)
    /\ revision + MaxIntents <= MaxRevision
    /\ call' = [about |-> e, base |-> Snapshot, refs |-> {}, relating |-> FALSE,
                critical |-> FALSE, intents |-> 0]
    /\ refused' = None
    /\ UNCHANGED <<vars, host, heard>>

Open == call # None /\ call.intents < MaxIntents
NextIntent == [call EXCEPT !.intents = @ + 1]

\* An intent that names a node of the graph with its type.
NameNode(n) ==
    /\ Open /\ ~call.relating
    /\ call.base.status[n] \notin {"absent", "archived"}
    /\ call' = [NextIntent EXCEPT !.refs = @ \cup {n}]
    /\ UNCHANGED <<vars, host, heard, refused>>

IsNew(t, l) == ~(t = "topic" /\ \E m \in Nodes : DuplicateTopic(m, l))

\* Whether an action was spoken of clearly enough is a matter of the words.
DetectNode(n, t, l) ==
    /\ Open /\ ~call.relating /\ IsNew(t, l)
    /\ NodeDetected(n, t, l)
    /\ call' = [NextIntent EXCEPT !.refs = @ \cup {n}]
    /\ UNCHANGED <<host, heard, refused>>

\* The new topic is one that is active under the same label.
MeetDuplicate(n, l) ==
    /\ Open /\ ~call.relating /\ DuplicateTopic(n, l)
    /\ call' = [NextIntent EXCEPT !.refs = @ \cup {n}, !.critical = TRUE]
    /\ UNCHANGED <<vars, host, heard, refused>>

\* An intent that stands for nothing: an invented id, an action nobody took on, a
\* relation that does not fit, an inactive topic.
DropIntent ==
    /\ Open /\ ~call.critical
    /\ call' = [NextIntent EXCEPT !.critical = TRUE]
    /\ UNCHANGED <<vars, host, heard, refused>>

Propose(k) ==
    /\ Open /\ LetsThrough(k) /\ Attachable(k, call.about)
    /\ RelationDetected(k, call.about)
    /\ call' = [NextIntent EXCEPT !.relating = TRUE]
    /\ UNCHANGED <<host, heard, refused>>

\* The analysis comes to nothing: the live queue may retry it.
Lost == heard' = IF host = "live" THEN heard ELSE heard \cup {call.about}

\* The materializer refuses a candidate: a replay notes the error and goes on, the other
\* hosts drop the whole answer.
Refuse(k) ==
    /\ Open /\ LetsThrough(k) /\ ~Attachable(k, call.about)
    /\ refused' = k
    /\ IF host = "replay"
       THEN /\ call' = [NextIntent EXCEPT !.relating = TRUE]
            /\ UNCHANGED <<vars, heard>>
       ELSE /\ Restored(call.base) /\ Lost
            /\ call' = None
    /\ UNCHANGED host

TurnTo(n) ==
    /\ Open /\ MayTurnTo(n)
    /\ TopicFocusChanged(n)
    /\ call' = [NextIntent EXCEPT !.relating = TRUE]
    /\ UNCHANGED <<host, heard, refused>>

\* The provider fails, or its answer is not of the agreed form.
ProviderFails ==
    /\ call # None /\ call.intents = 0
    /\ Lost
    /\ call' = None
    /\ UNCHANGED <<vars, host, refused>>

\* The whole answer was read.
Finish ==
    /\ call # None
    /\ heard' = heard \cup {call.about}
    /\ IF host = "service" /\ call.critical THEN Restored(call.base) ELSE UNCHANGED vars
    /\ call' = None
    /\ UNCHANGED <<host, refused>>

-----------------------------------------------------------------------------
(* What people say and do between two analyses.                            *)

SemanticEdges == {k \in Present(edges) : k[3] \in Semantic}
Flips == {"supports", "opposes"}
Origin(n) == {k \in SemanticEdges : k[3] = "discussion_provenance" /\ k[2] = n}
Only(S) == Cardinality(S) = 1

\* "These two have nothing to do with each other", of the cards that are shown.
TakenApart(shown) ==
    LET seen == {k \in SemanticEdges : {k[1], k[2]} \subseteq shown}
    IN {<<k, None>> : k \in {k \in seen : Only(seen)}}

\* "This is a matter of its own", of the card in focus.
Independent(card) == {<<k, None>> : k \in {k \in Origin(card) : Only(Origin(card))}}

\* "This came from what we said about ...": the origin of the card in focus is
\* replaced, if it has one.
CameFrom(card) ==
    {<<k, <<n, card, "discussion_provenance">>>> :
        k \in IF Origin(card) = {} THEN {None} ELSE {k \in Origin(card) : Only(Origin(card))},
        n \in {n \in Nodes \ {card} : Exists(n) /\ kind[n] # "topic"}}

\* "This concern is not about ... but about ...", of two nodes of one type.
AboutAnother ==
    {<<k, <<k[1], n, k[3]>>>> :
        k \in {k \in SemanticEdges : k[3] \in Flips /\ kind[k[1]] = "concern"}, n \in Nodes}

\* "Not for it but against it", and the other way round.
OtherSide(card) ==
    LET attached == {k \in SemanticEdges : k[3] \in Flips /\ card \in {k[1], k[2]}}
    IN {<<k, <<k[1], k[2], side>>>> : k \in {k \in attached : Only(attached)}, side \in Flips}

\* Which card is in focus and which are shown is for DiscussionMap to say.
Readings ==
    LET cards == {n \in Nodes : Exists(n) /\ kind[n] # "topic"}
    IN (UNION {TakenApart(shown) : shown \in SUBSET cards})
       \cup (UNION {Independent(card) \cup CameFrom(card) \cup OtherSide(card) : card \in cards})
       \cup {r \in AboutAnother : Exists(r[2][2]) /\ kind[r[2][2]] = kind[r[1][2]]}

\* The live host applies a spoken correction as a command; the utterance is done with.
SpeakCorrection(e) ==
    /\ host = "live" /\ call = None /\ Started /\ MayHear(e)
    /\ \E r \in Readings : r[2] \in RelationKey \cup {None} /\ CorrectRelation(r[1], r[2])
    /\ heard' = heard \cup {e}
    /\ UNCHANGED <<host, call, refused>>

\* One that is unclear, or does not fit the graph, becomes a question.
AskBack(e) ==
    /\ host = "live" /\ call = None /\ Started /\ MayHear(e)
    /\ heard' = heard \cup {e}
    /\ UNCHANGED <<vars, host, call, refused>>

\* The commands a person has, one for each HumanCommandHandler builds an event of.
Command ==
    \/ \E n \in Nodes :
        \/ ConfirmDecision(n)
        \/ RevokeDecision(n)
        \/ ResolveOpenItem(n)
        \/ ReopenOpenItem(n)
        \/ ArchiveNode(n)
        \/ MoveToParkingLot(n)
        \/ RestoreFromParkingLot(n)
        \/ SetCurrentTopic(n)
    \/ \E n \in Nodes, l \in Labels : RenameNode(n, l)
    \/ UndoLastCorrection
    \/ \E n \in Nodes, d \in Labels \cup {None}, p \in Progress \cup {None} :
           UpdateAction(n, d, p)
    \/ \E s, t \in Nodes : MergeNodes(s, t)
    \/ \E old, new \in {k \in RelationKey : k[3] \in Semantic} \cup {None} :
           CorrectRelation(old, new)

Between ==
    /\ call = None
    /\ \/ SessionCreated
       \/ session.created /\ SessionStarted
       \/ SessionFinalizing
       \/ SessionEnded
       \/ Started /\ Command
    /\ UNCHANGED analysisVars

\* A final transcript; it may come while another is analysed.
Hear == AcceptEvidence /\ host # "replay" /\ UNCHANGED analysisVars

\* The replay begins anew behind its first two events.
Reset ==
    /\ host = "replay" /\ call = None /\ heard # {}
    /\ Rewound([revision |-> 2, kind |-> [n \in Nodes |-> None],
                status |-> [n \in Nodes |-> "absent"], label |-> [n \in Nodes |-> None],
                action |-> [n \in Nodes |-> [description |-> None, progress |-> None]],
                edges |-> [k \in RelationKey |-> {}], focus |-> NoFocus,
                names |-> [n \in Nodes |-> <<>>], undoable |-> None])
    /\ session' = [session EXCEPT !.status = "active"]
    /\ rejectedAt' = [k \in RelationKey |-> Never] /\ answered' = {}
    /\ heard' = {} /\ refused' = None
    /\ UNCHANGED <<host, evidence, call>>

AnalysisNext ==
    \/ Between
    \/ Hear
    \/ \E e \in 1 .. MaxEvidence : Begin(e) \/ SpeakCorrection(e) \/ AskBack(e)
    \/ \E n \in Nodes : NameNode(n) \/ TurnTo(n)
    \/ \E n \in Nodes, t \in Kinds, l \in Labels : DetectNode(n, t, l)
    \/ \E n \in Nodes, l \in Labels : MeetDuplicate(n, l)
    \/ DropIntent
    \/ \E k \in RelationKey : Propose(k) \/ Refuse(k)
    \/ ProviderFails
    \/ Finish
    \/ Reset

AnalysisSpec == AnalysisInit /\ [][AnalysisNext]_allVars

-----------------------------------------------------------------------------
(* Properties.                                                             *)

\* Every variable has its type.
AnalysisTypeOK ==
    /\ TypeOK
    /\ host \in Hosts
    /\ heard \subseteq 1 .. evidence
    /\ refused \in RelationKey \cup {None}
    /\ call # None =>
           /\ DOMAIN call = {"about", "base", "refs", "relating", "critical", "intents"}
           /\ call.about \in 1 .. evidence \ heard
           /\ call.refs \subseteq Nodes
           /\ call.intents \in 0 .. MaxIntents

\* What the analyzer lets through the materializer takes: the only relation that falls
\* is one of a node to itself, which the analyzer looks for in provenance alone, or,
\* with a prompt that is not for the working graph, one of an archived node.
RefusedOnlyLoops ==
    refused # None =>
        \/ refused[1] = refused[2] /\ refused[3] # "discussion_provenance"
        \/ ~Working /\ "archived" \in {status[refused[1]], status[refused[2]]}

\* The graph an answer is taken back to.
Base == INSTANCE DiscussionGraph WITH
    revision <- call.base.revision, kind <- call.base.kind, status <- call.base.status,
    label <- call.base.label, action <- call.base.action, edges <- call.base.edges,
    focus <- call.base.focus, names <- call.base.names, undoable <- call.base.undoable

\* An answer adds to the graph it was asked about: what was there stays as it is, a node
\* that came into being is the answer's own, and only a derived focus moved.
GrownFromBase ==
    call # None =>
        /\ \A n \in Nodes : IF call.base.status[n] = "absent" THEN Exists(n) => n \in call.refs
                            ELSE status[n] = call.base.status[n]
        /\ \A n \in call.refs : status[n] \notin {"absent", "archived"}
        /\ \/ focus = call.base.focus
           \/ focus.mode = "derived" /\ call.base.focus.mode # "human_corrected"

\* Events of the meeting come first, so no replay begins anew before them.
BegunBefore ==
    /\ session.created => revision >= 1
    /\ session.status # "created" => session.created /\ revision >= 2
    /\ heard # {} \/ call # None => session.status # "created"
    /\ call # None => call.base.revision >= 2

\* The inductive invariant: a graph is sound, and so is the one an answer falls back to.
AnalysisInv ==
    /\ AnalysisTypeOK
    /\ GraphInv
    /\ call # None => Base!GraphInv
    /\ GrownFromBase
    /\ BegunBefore
    /\ RefusedOnlyLoops

\* A topic that a person chose stays the current one until a person lets go of it:
\* no answer of the model, taken by whatever host, moves it.
ChoiceStands ==
    [][focus.mode = "human_corrected" /\ focus' # focus => call = None]_allVars

=============================================================================
