SPECIFICATION FairSpec
CONSTANTS
    Workers = {w1, w2}
    Producer = producer
    a = a
    b = b
    d = d
    Names = {a, b, d}
    Input <- EveryCommand
    MaxCommands = 2
INVARIANT
    TypeOK
    NoOverwrite
    InumbersUnique
PROPERTY
    InOrder
    Terminates
