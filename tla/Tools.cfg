CONSTANTS
    c1 = c1
    c2 = c2
    f1 = f1
    f2 = f2
    box = box
    Callers = {c1, c2}
    Elements = {f1, f2, box}
    Box = box
    NoRef = NoRef
    Values <- MCValues
    Absent = Absent
    Setups <- MCSetups
    Scripts <- MCScripts
    MaxDocs = 2
    MaxEntries = 2
    FindCap = 2
    BodyBudget = 4
    CountDefault = 2
    CountCeiling = 3
    Modulus = 8
    SavedLines = 2
    MaxSavedLines = 3
SPECIFICATION Spec
INVARIANTS
    FieldsLand
    EntriesKept
    OpenedSearchesClose
    TextViewsAgree
CHECK_DEADLOCK FALSE
