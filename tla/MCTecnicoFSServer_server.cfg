SPECIFICATION Spec
CONSTANTS
    c1 = c1
    c2 = c2
    a1 = a1
    a2 = a2
    b1 = b1
    Clients = {c1, c2}
    User <- TwoUsers
    Names = {a1, a2, b1}
    Buckets = {"a", "b"}
    Hash <- FirstLetter
    TableSize = 2
    MaxOpenFiles = 1
    MaxClients = 2
    Requests <- SomeRequests
    MaxRequests = 4
INVARIANT
    FilesMatchInodes
    StaysDefined
PROPERTY
    OnlyOwnersRemove
    EveryRequestIsAnswered
CHECK_DEADLOCK FALSE
