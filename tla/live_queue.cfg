\* Three utterances, one retry each, two commands of people, two browsers.
CONSTANTS
    MaxItems = 3
    MaxRetries = 1
    MaxCommands = 2
    MaxConns = 2
SPECIFICATION USpec
INVARIANT UtteranceInv
INVARIANT AppendedToWhatWasSeen
PROPERTY HandedOverEnds
PROPERTY KeepsQueuePromise
CHECK_DEADLOCK FALSE
