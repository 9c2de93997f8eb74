SPECIFICATION FairSpec
CONSTANTS
    p = p
    s1 = s1
    Servers <- TwoServers
    Primary = p
    StudentIds <- TwoStudents
    Capacities = {1}
    Commands <- NoClosing
    Restartable = {}
    MaxClock = 4
    MaxOutstanding = 1
PROPERTY
    EnrolledConverge
