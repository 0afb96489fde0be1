CONSTANTS
    Threads = {t1}
    NumInterps = 2
    Detached = Detached
    AskAnywhere = TRUE
    MaxDepth = 2
SPECIFICATION Spec
INVARIANT AlwaysAnswers
CHECK_DEADLOCK FALSE
