SPECIFICATION Spec
CONSTANTS
    c1 = c1
    Clients <- OneClient
    Kinds <- AllKinds
    MaxOps = 2
    MaxCancels = 2
    MaxFrames = 3
    ENROLL_REQUIRED_GOOD_FRAMES = 2
    Serial = TRUE
    CameraMayBeLost = FALSE
CHECK_DEADLOCK FALSE
INVARIANTS
    StreamMatchesOperation
PROPERTIES
    CancelIsReported
