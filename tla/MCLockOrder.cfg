CONSTANTS
    Threads = {1, 2}
    Interps = {0, 1}
    Uses <- UsesDef
    Finalizing = {1}
    Nobody = Nobody
    None = None
    MaxDepth = 3
SPECIFICATION FairSpec
INVARIANTS NoWaitCycle RunsAttached
PROPERTY MutexesAreGivenBack
