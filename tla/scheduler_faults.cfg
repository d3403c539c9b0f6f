SPECIFICATION Spec
CONSTANTS
    None = None
    Requests = {r1, r2, r3}
    Workers = {w1}
    Callers = {c1}
    Destroyer = None
    Content <- Twins
    Abandons <- AbandonedAnyhow
    ReplyParts = 1
    EagerWrites = FALSE
    MaxResets = 1
    MaxConnectFailures = 1
CHECK_DEADLOCK FALSE
INVARIANTS
    ServedInOrder
    ActiveIsAttended
PROPERTY WorkConserving
