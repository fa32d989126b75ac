SPECIFICATION Spec
CONSTANTS
    Reasons <- AidlReasons
    DisplayStates <- AidlDisplayStates
INVARIANTS
    KeyguardOnLockscreen
    ScreenOffOnlyPrompt
    AuthHasReason
