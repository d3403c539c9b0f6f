SPECIFICATION Spec
CONSTANTS
    None = None
    Requests = {r1, r2}
    Workers = {w1, w2}
    Callers = {c1}
    Destroyer = c1
    Content <- Distinct
    Abandons <- AbandonedAnyhow
    ReplyParts = 2
    EagerWrites = FALSE
    MaxResets = 1
    MaxConnectFailures = 1
CHECK_DEADLOCK FALSE
INVARIANTS
    OrderKept
    LateReplyIsOfUnfinished
    ActiveIsAttended
    PendingWereTold
PROPERTIES
    NothingStartsInShutdown
    ImplementsQueue
