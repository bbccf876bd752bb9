SPECIFICATION Spec
CONSTANTS
    Requests = {"q1", "q2"}
    Binary = {"q2"}
    MaxHops = 2
    MaxEntries = 2
    MaxYields = 1
    MaxResets = 1
CHECK_DEADLOCK FALSE
INVARIANTS
    EntriesSinceReset
    LogAccounts
