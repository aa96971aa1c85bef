SPECIFICATION FairHostedSpec
CONSTANTS
    Job <- TwoJobs
    Decision = {accept}
    Checkpoint = {c1}
    Report = {r1}
    None = None
    MaxAttempts = 2
    LeaseTime = 2
    RetryBase = 1
    RetryCap = 1
    MaxClock = 12
    MaxClaims = 8
    Worker = {w1}
    CrashAt <- OutsideMarking
    MaxFaults = 1
    Empty = Empty
    Stall = {}
PROPERTIES
    EveryJobSettles
    ReportsDelivered
    LabReleased
CHECK_DEADLOCK FALSE
