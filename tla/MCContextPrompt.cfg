SPECIFICATION Spec
CONSTANTS
    Reasons <- AidlReasons
    DisplayStates <- AidlDisplayStates
PROPERTY PromptEndsWithItsContext
