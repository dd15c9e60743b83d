\* Two meetings, two browser connections, an utterance and a frame in each meeting.
CONSTANTS
    MaxConns = 2
    MaxSessions = 2
    MaxItems = 1
    MaxRetries = 0
    MaxCommands = 0
    MaxFrames = 1
SPECIFICATION Spec
INVARIANT SessionInv
PROPERTY LossesStay
CHECK_DEADLOCK FALSE
