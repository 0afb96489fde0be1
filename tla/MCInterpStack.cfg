CONSTANTS
    Threads = {t1, t2}
    NumInterps = 3
    Detached = Detached
    AskAnywhere = FALSE
    MaxDepth = 3
SYMMETRY Symmetry
SPECIFICATION Spec
INVARIANTS
    TypeOK
    ScopeHasItsInterpreter
    OnlyTopIsActive
    StackedHaveControllers
    ErrorsStayApart
    IdleControllersAreClean
    AlwaysAnswers
CHECK_DEADLOCK FALSE
