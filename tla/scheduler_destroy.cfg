SPECIFICATION FairSpec
CONSTANTS
    None = None
    Requests = {r1, r2, r3}
    Workers = {w1, w2}
    Callers = {c1}
    Destroyer = c1
    Content <- Twins
    Abandons <- NeverAbandoned
    ReplyParts = 2
    EagerWrites = FALSE
    MaxResets = 1
    MaxConnectFailures = 0
CHECK_DEADLOCK FALSE
PROPERTY DestructorDrains
