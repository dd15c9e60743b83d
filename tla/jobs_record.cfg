\* Two workers at the jobs of one meeting, on either store, with takeovers, crashes and
\* corrections; and, within Small, at the jobs of two.
CONSTANTS
    Sessions = {s1, s2}
    Workers = {w1, w2}
    None = None
    MaxEvidence = 2
    MaxHuman = 1
    MaxBatch = 1
    MaxAttempts = 2
    MaxFaults = 1
    Deadlines = TRUE
SPECIFICATION StoreSpec
SYMMETRY Symmetries
CONSTRAINT Small
INVARIANT JobsInv
INVARIANT BatchOnItsBasis
INVARIANT NoSessionPassedOver
PROPERTY KeepsRecord
CHECK_DEADLOCK FALSE
