SPECIFICATION FairSpec
CONSTANTS
    Full = 10
    Rest = 0
    SendWindow = 8
    ReceiveWindow = 8
    MaxSeq = 99
    Faults <- Loopback
    MaxLosses = 2
    MaxInTransit = 0
INVARIANT
    TypeOK
PROPERTY
    Arrives
