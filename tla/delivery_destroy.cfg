SPECIFICATION FairDelivery
CONSTANTS
    None = None
    r1 = r1
    r2 = r2
    Requests = {r1, r2}
    Workers = {w1, w2}
    Callers = {c1}
    Destroyer = c1
    Content <- Distinct
    Abandons <- NeverAbandoned
    Follower <- Chain
    FollowOn = {"complete"}
    ReplyParts = 1
    EagerWrites = FALSE
    MaxResets = 0
    MaxConnectFailures = 0
CHECK_DEADLOCK FALSE
PROPERTIES
    DeliverReturns
    EveryRequestAnswered
    ImplementsScheduler
