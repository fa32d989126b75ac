SPECIFICATION Spec
CONSTANTS
    c1 = c1
    Clients <- OneClient
    Kinds <- AuthAndEnroll
    MaxOps = 2
    MaxCancels = 1
    MaxFrames = 2
    ENROLL_REQUIRED_GOOD_FRAMES = 2
    Serial = FALSE
    CameraMayBeLost = TRUE
CHECK_DEADLOCK FALSE
INVARIANTS
    TypeOK
    FrameFlag
    SettledHasOutcome
PROPERTIES
    OutcomesDelivered
    FrameReleased
