SPECIFICATION Spec
CONSTANTS
    Job <- MCJob
    Decision = {accept, reject}
    Checkpoint = {c1, c2}
    Report = {r1}
    None = None
    MaxAttempts = 2
    LeaseTime = 2
    RetryBase = 1
    RetryCap = 2
    MaxClock = 4
    MaxClaims = 3
INVARIANTS
    MirrorBackedByLedger
    ResumedOnlyWhenDecided
PROPERTIES
    LeaseFencesPublication
    KeepsPromise
SYMMETRY MCSymmetry
CHECK_DEADLOCK FALSE
