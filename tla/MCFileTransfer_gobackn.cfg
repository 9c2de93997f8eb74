SPECIFICATION FairSpec
CONSTANTS
    Full = 3
    Rest = 0
    SendWindow = 3
    ReceiveWindow = 1
    MaxSeq = 99
    Faults <- Internet
    MaxLosses = 2
    MaxInTransit = 4
INVARIANT
    SenderBehindReceiver
    DeliveredAll
    ReceivedAll
PROPERTY
    DeliversInOrder
    Terminates
