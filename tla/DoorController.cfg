SPECIFICATION DoorFairSpec
CONSTANTS
    Callers = {a, b, c}
    MaxEvents = 5
INVARIANTS
    DoorTypeOK
    RelayFollowsPulse
    NeverStuckOpen
PROPERTIES
    CloseRelocks
    EveryCallerServed
    Relocks
