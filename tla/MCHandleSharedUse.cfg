CONSTANTS
    Threads = {t1, t2}
    SUHThreads = {t1}
    SingleUseBuffers = FALSE
    NestedErrors = FALSE
    Objects = {o1}
    NoObject = NoObject
    Nobody = Nobody
    MaxHandle = 3
    MaxArgs = 1
SPECIFICATION Spec
INVARIANT NoStalePointer
CHECK_DEADLOCK FALSE
