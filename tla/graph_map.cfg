\* What is drawn of three nodes, topics and ideas, while relations are found, corrected,
\* rejected and merged.
CONSTANTS
    Nodes = {n1, n2, n3}
    Kinds = {"topic", "idea"}
    Relations = {"contains", "discussion_provenance"}
    Labels = {a}
    None = None
    MaxEvidence = 1
    MaxRevision = 6
    MaxShared = 2
    MaxFlow = 2
    MaxOverview = 3
    MaxDetail = 2
SPECIFICATION MapSpec
SYMMETRY Symmetry
INVARIANT ProvenanceAcyclic
INVARIANT RejectionHolds
INVARIANT MapInv
PROPERTY ArchivedGainsNoRelation
PROPERTY MergeKeepsSources
PROPERTY SharedCardStays
CHECK_DEADLOCK FALSE
