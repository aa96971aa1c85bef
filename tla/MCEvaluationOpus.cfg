SPECIFICATION Spec
CONSTANTS
    ExecutedTools = 3
    None = None
    MaxFaults = 2
    Incidents = 2
    Cause <- MCCause
    Predicated = {1}
    Report <- MCReport
    Repairs = 2
    Ceiling = 57
    Buffer = 1
    PreflightPrice = 2
    CallPrice = 5
    MaxExcess = 1
    AlreadySpent = {0, 28}
    OtherRequests = 10
INVARIANTS
    DoomedBatchRefused
CHECK_DEADLOCK FALSE
