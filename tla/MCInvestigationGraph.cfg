SPECIFICATION FairSpec
CONSTANTS
    diagnostic = diagnostic
    search = search
    search2 = search2
    forbidden = forbidden
    Check <- Checks
    RunbookCheck <- Searches
    InPolicy <- Permitted
    None = None
    ModelCalls = 3
    ExecutedTools = 1
    RunbookSearches = 1
    Repairs = 1
    RecursionLimit = 25
    MaxCrashes = 1
INVARIANTS
    AssessmentFunded
    ModelSpendBounded
    ChecksAccountedFor
    EvidenceMatchesReceipts
    OwnerGate
    ConclusionEarned
    RecursionLimitUnreached
PROPERTY Terminates
CHECK_DEADLOCK FALSE
