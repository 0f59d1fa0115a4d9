\* An upload comes at any time.
SPECIFICATION FairSpec
CONSTANTS
    NumTransactions = 4
    QueueSize = 2
    InTime = TRUE
    Data <- MCData
    GameSize = 2
    MaxRecv = 3
PROPERTY UploadIsReceived
CHECK_DEADLOCK FALSE
