CONSTANTS
    c1 = c1
    c2 = c2
    Clients <- OneClient
    MaxStarts = 2
    FailureStages <- FewStages
    CallbackMayStop = FALSE
    ClosesInTime = FALSE
SPECIFICATION Spec
INVARIANTS
    LateCloseStopsNothing
