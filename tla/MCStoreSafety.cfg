SPECIFICATION Spec
CONSTANTS
    MaxFaces = 3
    MaxSaves = 3
    MaxCrashes = 2
    FailingCalls <- SaveCalls
    DiskMayFill = TRUE
    Overlapping <- SaveAndRestore
    OldTemplate = TRUE
INVARIANTS
    TypeOK
    WholeFiles
    CacheMatchesDisk
PROPERTIES
    ImplementsMap
    OnlyDeletionLoses
    SessionStartsClean
