SPECIFICATION GSpec
CONSTANTS
    DayLength = 2
    UIDs = {c1}
    Profiles <- MCProfiles
    Requests = {r1}
    MaxUsers = 1
    MaxCards = 1
    MaxOngoing = 1
    MaxFailures = 2
    Window = 2
    Reader = reader
    Simulators = {}
    StoreMayFail = TRUE
    DoorMayFail = TRUE
    MaxTime = 2
    MaxReads = 2
    MaxRestarts = 1
    FailSafe = TRUE
    MaxEvents = 0
INVARIANTS
    TypeOK
    VouchedOpen
    UnlockedForRead
PROPERTIES
    UnlockedOnce
