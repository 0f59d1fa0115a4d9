\* No frame is lost, and the client withdraws prompts.
SPECIFICATION FairSpec
CONSTANTS
    MaxPackets = 2
    Modulus = 8
    FidModulus = 4
    MaxFaults = 0
    Faults = {}
    Clients = {"TN3270"}
PROPERTY LastScreenIsShown
