SPECIFICATION Spec
CONSTANTS
    N = 4
    CostInfinity = 8
    MaxChanges = 2
    Networks <- FiveNetworks
    Changes <- SomeChanges
INVARIANT
    RoutesUseLinks
    DistancesAreShortest
    PathRoutesArrive
    LinkRoutesAreShortest
    CopiesAreOld
PROPERTY
    Settles
CHECK_DEADLOCK FALSE
