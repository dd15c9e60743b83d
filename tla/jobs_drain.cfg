\* Two workers at the jobs of one meeting that ends: deadlocks, a crash, leases and the
\* deadline.
CONSTANTS
    Sessions = {s1}
    Workers = {w1, w2}
    None = None
    MaxEvidence = 2
    MaxHuman = 0
    MaxBatch = 1
    MaxAttempts = 2
    MaxFaults = 1
    Deadlines = TRUE
SPECIFICATION ServiceSpec
PROPERTY DrainEnds
PROPERTY NextJobSettles
CHECK_DEADLOCK FALSE
