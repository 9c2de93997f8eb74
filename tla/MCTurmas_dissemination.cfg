SPECIFICATION FairSpec
CONSTANTS
    p = p
    s1 = s1
    Servers <- TwoServers
    Primary = p
    StudentIds <- TwoStudents
    Capacities = {1, 2}
    Commands <- ClientCommands
    Restartable = {}
    MaxClock = 3
    MaxOutstanding = 2
PROPERTY
    NewsReachesEveryone
    UncontestedConverge
