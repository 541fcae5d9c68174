SPECIFICATION MCSpec
CONSTANTS
    DayLength = 2
    UIDs = {c1, c2}
    Profiles <- MCProfiles
    Requests = {r1, r2}
    MaxUsers = 2
    MaxCards = 2
    MaxOngoing = 2
    MaxAudit = 1
    MaxPersons = 3
SYMMETRY MCSymmetry
INVARIANTS
    DBTypeOK
    ForeignKeysHold
    CardsKeepBearer
    HistoryKeepsPerson
PROPERTIES
    AuditAppendOnly
    NoResurrection
