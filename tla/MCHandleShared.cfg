CONSTANTS
    Threads = {t1, t2}
    SUHThreads = {t1, t2}
    SingleUseBuffers = FALSE
    NestedErrors = FALSE
    Objects = {o1}
    NoObject = NoObject
    Nobody = Nobody
    MaxHandle = 3
    MaxArgs = 2
SPECIFICATION FairSpec
INVARIANTS
    TypeOK
    NoDeadHandle
    OwnedAreLive
    QueuedOnce
    NothingForgotten
    QuiescentIsExact
PROPERTIES
    InFlightEnds
    ImplementsHandleStore
CHECK_DEADLOCK FALSE
