SPECIFICATION Spec
CONSTANTS
    None = None
    Requests = {r1, r2}
    Workers = {w1}
    Callers = {c1}
    Destroyer = None
    Content <- Distinct
    Abandons <- DroppedWhenActive
    ReplyParts = 1
    EagerWrites = TRUE
    MaxResets = 0
    MaxConnectFailures = 0
CHECK_DEADLOCK FALSE
INVARIANTS NoForeignReply
