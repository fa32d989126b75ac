SPECIFICATION Spec
CONSTANTS
    MaxFaces = 1
    MaxSaves = 1
    MaxCrashes = 1
    FailingCalls <- OnlyDecrypt
    DiskMayFill = FALSE
    Overlapping <- Nothing
    OldTemplate = FALSE
PROPERTY OnlyInvalidCleaned
