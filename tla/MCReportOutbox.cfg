SPECIFICATION FairSpec
CONSTANTS
    Job <- TwoJobs
    Worker = {w1, w2}
    MaxAttempts = 2
    LeaseTime = 2
    RetryBase = 1
    RetryCap = 2
    LastRenewal = 1
    None = None
INVARIANTS
    SentIsHandedOff
    DeliveryBudget
PROPERTIES
    OnlyHolderEndsClaim
    EveryReportSettles
CHECK_DEADLOCK FALSE
