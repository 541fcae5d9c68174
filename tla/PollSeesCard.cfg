SPECIFICATION FairSpec
CONSTANTS
    UIDs = {c1}
    Workers = {t1, t2}
    MaxParts = 2
    FailSafe = FALSE
    MaxCrashes = 1
PROPERTIES
    PollSeesCard
CHECK_DEADLOCK FALSE
