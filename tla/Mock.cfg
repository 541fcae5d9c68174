SPECIFICATION MockSpec
CONSTANTS
    DayLength = 2
    UIDs = {c1}
    Profiles <- MCOpenProfiles
    Requests = {r1}
    MaxUsers = 1
    MaxCards = 1
    MaxOngoing = 1
    MaxFailures = 2
    Window = 2
    Reader = reader
    Simulators = {s1}
    StoreMayFail = TRUE
    DoorMayFail = TRUE
    MaxTime = 0
    MaxReads = 2
    MaxRestarts = 1
    FailSafe = FALSE
    MaxEvents = 4
INVARIANTS
    FailureBound
    OpenedTraced
    FeedTraced
    UnlockedForRead
PROPERTIES
    UnlockedOnce
