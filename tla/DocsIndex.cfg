SPECIFICATION Spec
CONSTANTS
    Sources = {s1, s2}
    MaxCalls = 4
    MaxModel = 2
    Env = {"fail", "timeout", "crash"}
SYMMETRY SourceSymmetry
CHECK_DEADLOCK FALSE
INVARIANTS
    OneMutator
    SearchIsFresh
    SearchModelMatches
    ListedIsSearchable
    ManifestAgrees
