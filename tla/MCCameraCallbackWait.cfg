CONSTANTS
    c1 = c1
    c2 = c2
    Clients <- OneClient
    MaxStarts = 2
    FailureStages <- FewStages
    CallbackMayStop = TRUE
    ClosesInTime = FALSE
SPECIFICATION Spec
INVARIANTS
    CallbackThreadNeverWaits
