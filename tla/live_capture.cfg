\* Two frames and two turns, with and without the detection of speech, faults included.
CONSTANTS
    Modes = {"bounded", "server_vad_bounded"}
    MaxTurns = 2
    MaxFrames = 2
SPECIFICATION FairSpec
INVARIANT TurnsInv
INVARIANT FinalsInOrder
CHECK_DEADLOCK FALSE
PROPERTY StopEnds
