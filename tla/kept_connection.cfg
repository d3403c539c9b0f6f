SPECIFICATION Spec
CONSTANTS
    None = None
    Requests = {r1, r2}
    Workers = {w1}
    Callers = {c1}
    Destroyer = None
    Content <- Distinct
    Abandons <- NeverAbandoned
    ReplyParts = 1
    EagerWrites = TRUE
    MaxResets = 1
    MaxConnectFailures = 0
CHECK_DEADLOCK FALSE
INVARIANTS ConnectionReleased
