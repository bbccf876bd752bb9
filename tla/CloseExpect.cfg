SPECIFICATION Spec
CONSTANTS
    MaxSessions = 2
    MaxIds = 2
    MaxPages = 3
    MaxCalls = 4
    Env = {}
CHECK_DEADLOCK FALSE
INVARIANT
    CloseExpectHolds
