SPECIFICATION FairSpec
CONSTANTS
    p = p
    s1 = s1
    Servers <- TwoServers
    Primary = p
    StudentIds <- OneStudent
    Capacities = {1}
    Commands <- EveryCommand
    Restartable = {s1}
    MaxClock = 4
    MaxOutstanding = 1
PROPERTY
    RestartedCatchUp
