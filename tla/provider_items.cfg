\* One connection and the gateway that outlives it, two items, two frames.
CONSTANTS
    MaxConns = 1
    MaxTurns = 2
    MaxFrames = 2
SPECIFICATION Spec
INVARIANT ItemsInv
INVARIANT CompleteEndHeardAll
CHECK_DEADLOCK FALSE
