SPECIFICATION Spec
CONSTANTS
    UIDs = {c1, c2}
    MaxFailures = 2
    Window = 2
    MaxTime = 4
    MaxRecorded = 4
    DayLength = 4
INVARIANTS
    TypeOK
    LockoutExact
    WindowIsArc
PROPERTIES
    ImplementsWindow
