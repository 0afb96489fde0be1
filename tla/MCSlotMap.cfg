CONSTANTS
    PageSize = 2
    NumPages = 3
    Objects = {o1, o2}
    NoObject = NoObject
SPECIFICATION FairSpec
INVARIANTS
    TypeOK
    ZeroNeverLive
    SlotIsFree
    UnwrappedAhead
    CountsAgree
    EmptyPageIsCurrent
PROPERTIES
    KeepsItsObject
    StaleHandleStaysInvalid
    AddReturns
    ImplementsHandleStore
CHECK_DEADLOCK FALSE
