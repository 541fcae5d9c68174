SPECIFICATION Spec
CONSTANTS
    DayLength = 2
    UIDs = {c1}
    Profiles <- MCOpenProfiles
    Requests = {r1}
    MaxUsers = 1
    MaxCards = 1
    MaxOngoing = 1
    MaxFailures = 2
    Window = 2
    Reader = reader
    Simulators = {}
    StoreMayFail = FALSE
    DoorMayFail = FALSE
    MaxTime = 1
    MaxReads = 2
    MaxRestarts = 0
INVARIANTS
    OpenedDurably
