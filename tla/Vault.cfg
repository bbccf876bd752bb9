SPECIFICATION VaultSpec
CONSTANTS
    Lanes = {"socket", "bridge"}
    Domains = {"site"}
    Fields = {"password", "totp"}
    MaxRuns = 2
    MaxCalls = 2
CHECK_DEADLOCK FALSE
INVARIANTS
    OneRunPerRef
    AnswersLogged
PROPERTIES
    PendingClears
