CONSTANTS
    c1 = c1
    c2 = c2
    Clients <- OneClient
    MaxStarts = 2
    FailureStages <- AllStages
    CallbackMayStop = FALSE
    ClosesInTime = TRUE
SPECIFICATION Spec
INVARIANTS
    CloseAcknowledged
PROPERTIES
    CallsReturn
    KeepsPromise
    EventReleasesCamera
