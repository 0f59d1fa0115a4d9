\* The session over a line that loses or damages two frames, of any kind but the
\* two that the code does not recover from, with a client that never withdraws
\* its prompts and one that does.
SPECIFICATION FairSpec
CONSTANTS
    MaxPackets = 2
    Modulus = 4
    FidModulus = 2
    MaxFaults = 2
    Faults = {}
    Clients = {"text", "TN3270"}
INVARIANTS
    TypeOK
    AtMostTwoOutstanding
    NothingAcknowledgedUnread
    InputOnce
PROPERTIES
    ChainInOrder
    BackInStep
    ScreenIsShown
    InputIsDelivered
