SPECIFICATION Spec
CONSTANTS
    Requests = {r1, r2}
    FailureThreshold = 2
    SuccessThreshold = 2
    Timeout = 3
    RequestTimeout = 3
    MaxLeaked = 1
    Limit = 3
    Window = 4
INVARIANTS
    TypeOK
    HalfOpenAwaitsProbes
    WindowsHold
PROPERTIES
    Recovers
    RefusalEnds
