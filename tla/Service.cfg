SPECIFICATION FairSpec
CONSTANTS
    UIDs = {c1, c2}
    Workers = {t1, t2}
    MaxParts = 2
    FailSafe = FALSE
    MaxCrashes = 1
INVARIANTS
    TypeOK
    ReadsHaveTables
    UnlockedByRead
    FreshRead
PROPERTIES
    Relocked
    HeldCardIsHandled
CHECK_DEADLOCK FALSE
