CONSTANTS
    Threads = {t1}
    SUHThreads = {t1}
    SingleUseBuffers = TRUE
    NestedErrors = FALSE
    Objects = {o1}
    NoObject = NoObject
    Nobody = Nobody
    MaxHandle = 5
    MaxArgs = 2
SPECIFICATION Spec
INVARIANT NoDeadHandle
CHECK_DEADLOCK FALSE
