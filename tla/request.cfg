SPECIFICATION FairSpec
CONSTANTS
    Workers = {w1, w2, w3}
    Dispatcher = a1
    MaxResponses = 4
CHECK_DEADLOCK FALSE
INVARIANTS
    TypeOK
    ReplyEndsOnce
    SilenceIsTimed
    ReleasedOnceAnswered
    FaultsAreRaces
PROPERTY EventuallyAnswered
