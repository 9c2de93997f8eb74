SPECIFICATION Spec
CONSTANTS
    p = p
    s1 = s1
    Servers <- TwoServers
    Primary = p
    StudentIds <- TwoStudents
    Capacities = {0, 1, 2}
    Commands <- ClientCommands
    Restartable = {}
    MaxClock = 4
    MaxOutstanding = 2
INVARIANT
    TypeOK
    NothingThrows
    RecordsAgree
    EnrolledWithinHistory
    CapacityIsCurrent
PROPERTY
    RecordsOnlyAdvance
    TimelineIsShared
