\* A client that waits without a timeout: games, front end, Wikipedia.
SPECIFICATION FairSpec
CONSTANTS
    N = 3
    Cancels = FALSE
INVARIANTS
    TypeOK
    NoLostWakeup
    NoStaleWakeup
    ScreenOwnership
    AnswerIsForPrompt
PROPERTIES
    InputHasTaker
    PromptIsShown
    InputIsReturned
    ImplementsPrompting
