SPECIFICATION FairDelivery
CONSTANTS
    None = None
    r1 = r1
    r2 = r2
    Requests = {r1, r2}
    Workers = {w1}
    Callers = {c1}
    Destroyer = None
    Content <- Distinct
    Abandons <- NeverAbandoned
    Follower <- Chain
    FollowOn = {"complete"}
    ReplyParts = 2
    EagerWrites = TRUE
    MaxResets = 1
    MaxConnectFailures = 0
CHECK_DEADLOCK FALSE
INVARIANTS
    DeliveryTypeOK
    ForeignReplyFollowsTimeout
    FaultsAreProvoked
PROPERTIES
    EveryRequestAnswered
    ImplementsExchange
