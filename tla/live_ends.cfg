\* Two meetings, recorded, one browser connection, an utterance and a frame in each meeting.
CONSTANTS
    MaxConns = 1
    MaxSessions = 2
    MaxItems = 1
    MaxRetries = 0
    MaxCommands = 0
    MaxFrames = 1
SPECIFICATION FairRecording
INVARIANT RecordingInv
PROPERTY TerminationSeals
PROPERTY LoopComesBack
CHECK_DEADLOCK FALSE
