SPECIFICATION FairSpec
CONSTANTS
    Loggers = {l1, l2}
    Clients = {c1, c2}
    MaxEvents = 3
INVARIANTS
    TypeOK
PROPERTIES
    ImplementsFeed
    FeedIsLive
    LogReturns
    DeadStreamEnds
CHECK_DEADLOCK FALSE
