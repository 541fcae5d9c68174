SPECIFICATION DoorFairSpec
CONSTANTS
    Callers = {a}
    MaxEvents = 1
INVARIANTS
    IdleLocked
