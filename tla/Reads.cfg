SPECIFICATION HardwareFairSpec
CONSTANTS
    DayLength = 2
    UIDs = {c1}
    Profiles <- MCOpenProfiles
    Requests = {r1}
    MaxUsers = 1
    MaxCards = 1
    MaxOngoing = 1
    MaxFailures = 2
    Window = 2
    Reader = reader
    Simulators = {}
    StoreMayFail = TRUE
    DoorMayFail = TRUE
    MaxTime = 2
    MaxReads = 3
    MaxRestarts = 0
INVARIANTS
    UnlockPromise
PROPERTIES
    OnlyTimeUnlocks
    DecisionsTraced
    ReadsEnd
