SPECIFICATION Spec
CONSTANTS
    MaxSessions = 2
    MaxOps = 2
    MaxFrames = 2
    FrameworkMayDie = TRUE
INVARIANTS
    TypeOK
    NoDanglingSession
    FrameFindsSession
    FramesReachOperation
    GoneLeavesNothing
PROPERTY DestructionEnds
CHECK_DEADLOCK FALSE
