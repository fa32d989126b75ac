CONSTANTS
    c1 = c1
    c2 = c2
    Clients <- TwoClients
    MaxStarts = 2
    FailureStages <- FewStages
    CallbackMayStop = TRUE
    ClosesInTime = FALSE
SPECIFICATION Spec
SYMMETRY ClientSymmetry
INVARIANTS
    TypeOK
    HandlesBalanced
    FreedInOrder
    NobodyWaitsInVain
    ListenerIsCurrent
    StopQuiesces
    TeardownExcludesCallback
CHECK_DEADLOCK FALSE
