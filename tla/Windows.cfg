\* Four rows of five columns.
SPECIFICATION Spec
CONSTANTS
    NUM_ROWS = 4
    NUM_COLS = 5
    ShortRun = 2
    MaxPacketSize = 20
    MORE <- MCMore
    MaxSplit = 1
    MaxPrinted = 4
    MaxMoves = 2
    Tidy = TRUE
INVARIANTS
    TypeOK
    FirstPageIsRead
    ShownAsIs
PROPERTIES
    StatusKept
    TextKept
CHECK_DEADLOCK FALSE
