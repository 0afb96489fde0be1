CONSTANTS
    Threads = {t1, t2}
    Sites = {s1}
    Conditions = 1
    MaxItems = 1
    MaxScopes = 2
    MaxCells = 6
SYMMETRY Symmetry
SPECIFICATION Spec
INVARIANT CompiledOnce
CHECK_DEADLOCK FALSE
