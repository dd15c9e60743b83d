\* Two sockets, one page, two generations to join and two frames for each.
CONSTANTS
    Sockets = {c1, c2}
    Owners = {o1}
    None = None
    MaxGeneration = 2
    MaxFrames = 2
SPECIFICATION FairSpec
INVARIANT AudioIsAccounted
INVARIANT OneSocketPerGeneration
INVARIANT EndStopsListening
INVARIANT VersionTellsState
PROPERTY ClosedIsFrozen
PROPERTY EndIsReached
CHECK_DEADLOCK FALSE
