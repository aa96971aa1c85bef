SPECIFICATION HostedSpec
CONSTANTS
    Job <- TwoJobs
    Decision = {accept}
    Checkpoint = {c1}
    Report = {r1}
    None = None
    MaxAttempts = 2
    LeaseTime = 1
    RetryBase = 1
    RetryCap = 1
    MaxClock = 12
    MaxClaims = 4
    Worker = {w1, w2}
    CrashAt <- Anywhere
    MaxFaults = 1
    Empty = Empty
    Stall = {1}
INVARIANTS
    ScenarioHeldWhileObserved
    GraphStartedOnce
    ResumeInputsKept
    CompletedIsStored
PROPERTY ImplementsQueue
SYMMETRY MCSymmetry
CHECK_DEADLOCK FALSE
