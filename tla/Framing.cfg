\* A ring of eight bytes, a queue of one packet, one wrong bit in two frames.
SPECIFICATION Spec
CONSTANTS
    Messages <- MCMessages
    RingSize = 8
    QueueSize = 1
    MaxPacket = 5
    IndexLimit = 32
    StartIndex <- MCStartIndex
    MaxFrames = 2
    MaxErrors = 1
INVARIANTS
    TypeOK
    OnlyDisturbedAreLost
CHECK_DEADLOCK FALSE
