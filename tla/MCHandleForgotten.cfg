CONSTANTS
    Threads = {t1}
    SUHThreads = {t1}
    SingleUseBuffers = FALSE
    NestedErrors = FALSE
    Objects = {o1}
    NoObject = NoObject
    Nobody = Nobody
    MaxHandle = 4
    MaxArgs = 2
SPECIFICATION Spec
INVARIANT SingleUseIsReleased
CHECK_DEADLOCK FALSE
