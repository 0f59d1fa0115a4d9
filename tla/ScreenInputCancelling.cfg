\* A client that times out and cancels: TN3270, SSH.
SPECIFICATION FairSpec
CONSTANTS
    N = 2
    Cancels = TRUE
INVARIANTS
    NoLostWakeup
PROPERTIES
    CancelCompletes
