SPECIFICATION FairSpec
CONSTANTS
    Workers = {w1, w2, w3}
    Producer = producer
    a = a
    b = b
    d = d
    Names = {a, b, d}
    Input <- TwoCommands
    MaxCommands = 10
PROPERTY
    Terminates
CHECK_DEADLOCK FALSE
