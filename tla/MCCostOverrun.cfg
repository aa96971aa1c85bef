SPECIFICATION Spec
CONSTANTS
    Process = {p1}
    Run = {r1, r2}
    Turn = {t1, t2}
    Price = {1, 2}
    MaxError = 1
    Ceiling = 5
    Buffer = 1
    Nobody = Nobody
INVARIANT OverrunOfOneRequest
CHECK_DEADLOCK FALSE
