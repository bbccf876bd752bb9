SPECIFICATION Spec
CONSTANTS
    Tabs = {"t1", "t2"}
    First = "t1"
    MaxNodes = 2
    NodeId <- MCNodeId
    MaxDocs = 3
    MaxRefs = 5
    MaxCalls = 2
CHECK_DEADLOCK FALSE
INVARIANTS
    RefsNameOneTab
    HintTruthful
    SecretInItsField
PROPERTIES
    FreshAfterNavigate
    StableRefs
