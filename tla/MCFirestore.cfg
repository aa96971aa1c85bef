SPECIFICATION Spec
CONSTANTS
    Job <- MCJob
    Key = {k1, k2}
    Decision = {accept, reject}
    Checkpoint = {c1}
    Report = {r1}
    None = None
    Api = {api1}
    Vm = Vm
    MaxAttempts = 2
    MaxDeliveryAttempts = 2
    LeaseTime = 1
    RetryBase = 1
    RetryCap = 2
    MaxClock = 3
    MaxClaims = 3
    MaxFaults = 1
INVARIANT OutboxMatchesJobs
PROPERTIES
    LiveClaimKept
    KeepsPromise
SYMMETRY MCSymmetry
CHECK_DEADLOCK FALSE
