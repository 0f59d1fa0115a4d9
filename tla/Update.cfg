\* Firmware of two units; a partition for games that is too short for what is sent.
SPECIFICATION FairSpec
CONSTANTS
    NumTransactions = 4
    QueueSize = 2
    InTime = TRUE
    Data <- MCData
    GameSize = 2
    MaxRecv = 3
INVARIANTS
    TypeOK
    FrameStable
    SuccessIsWhole
PROPERTIES
    ImplementsHandover
    FrameIsSent
    
    FlashOnlyWhenStopped
    UploadGoesAhead
CHECK_DEADLOCK FALSE
