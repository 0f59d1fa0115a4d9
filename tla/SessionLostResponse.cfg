\* The one lost frame may be the response to an input.
SPECIFICATION FairSpec
CONSTANTS
    MaxPackets = 1
    Modulus = 8
    FidModulus = 4
    MaxFaults = 1
    Faults = {"response"}
    Clients = {"text"}
PROPERTY BackInStep
