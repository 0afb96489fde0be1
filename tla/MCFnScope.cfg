CONSTANTS
    Threads = {t1}
    Sites = {s1}
    Conditions = 2
    MaxItems = 2
    MaxScopes = 2
    MaxCells = 7
SPECIFICATION Spec
INVARIANTS
    NothingReleasedTwice
    ScopesLeaveNothing
    CurrentIsItem
    EvaluatesItsOwn
    CompiledOnce
CHECK_DEADLOCK FALSE
