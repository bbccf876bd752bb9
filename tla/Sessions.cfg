SPECIFICATION Spec
CONSTANTS
    MaxSessions = 2
    MaxIds = 3
    MaxPages = 3
    MaxCalls = 4
    Env = {"fail", "timeout", "crash", "redirect"}
CHECK_DEADLOCK FALSE
INVARIANTS
    CapHolds
    ActiveTabExists
    CallKeepsItsTab
    TabsExpectHolds
    BusyOnlyWhileCalled
