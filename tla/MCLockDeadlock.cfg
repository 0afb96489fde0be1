CONSTANTS
    Threads = {1, 2}
    Interps = {0}
    Uses <- UsesDef
    Finalizing = {0}
    Nobody = Nobody
    None = None
    MaxDepth = 1
SPECIFICATION Spec
INVARIANT NoWaitCycle
