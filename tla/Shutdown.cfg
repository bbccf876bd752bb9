SPECIFICATION FairSpec
CONSTANTS
    Requests = {r1, r2, r3}
    NoRequest = NoRequest
    Capacity = 1
CHECK_DEADLOCK FALSE
INVARIANTS
    NoStrandedCaller
    ServesUntilCancelled
    ClosedOnlyWhenUnused
PROPERTIES
    EveryRequestSettled
    ShutdownEnds
