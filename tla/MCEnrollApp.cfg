SPECIFICATION AppSpec
CONSTANTS
    MaxActivities = 2
    MaxResumes = 2
    Tokenless = {1}
    Cameras = {c1}
    MaxFrames = 2
INVARIANTS
    NoOrphanEnrolment
    NeverStuck
    ResultReachesCaller
    CallbackKept
    OneFrameAtATime
    ClaimHasFrame
    TakesTurns
CHECK_DEADLOCK FALSE
