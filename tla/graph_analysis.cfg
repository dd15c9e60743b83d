\* Two nodes of every kind that has a life of its own, one utterance at a time.
CONSTANTS
    Nodes = {n1, n2}
    Kinds = {"topic", "idea", "decision", "open_item", "action"}
    Relations = {"discussion_provenance", "supports"}
    Labels = {a}
    None = None
    MaxEvidence = 2
    MaxRevision = 8
    Working = TRUE
    MaxIntents = 3
SPECIFICATION AnalysisSpec
SYMMETRY Symmetry
INVARIANT LifecycleKept
INVARIANT AnalysisInv
PROPERTY ChoiceStands
CHECK_DEADLOCK FALSE
