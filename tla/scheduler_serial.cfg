SPECIFICATION FairSpec
CONSTANTS
    None = None
    Requests = {r1, r2, r3, r4}
    Workers = {w1}
    Callers = {c1}
    Destroyer = None
    Content <- Distinct
    Abandons <- NeverAbandoned
    ReplyParts = 2
    EagerWrites = FALSE
    MaxResets = 1
    MaxConnectFailures = 0
CHECK_DEADLOCK FALSE
INVARIANTS
    TypeOK
    NoFault
    NoForeignReply
    ReleasedWhileSound
PROPERTIES
    TerminatedIsSilent
    AnsweredOrLost
