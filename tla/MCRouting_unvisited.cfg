SPECIFICATION Spec
CONSTANTS
    N = 4
    CostInfinity = 8
    MaxChanges = 0
    Networks <- OneLine
    Changes <- SomeChanges
INVARIANT
    EveryNodeIsVisited
CHECK_DEADLOCK FALSE
