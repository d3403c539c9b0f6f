SPECIFICATION Spec
CONSTANTS
    Workers = {w1}
    Dispatcher = w1
    MaxResponses = 3
CHECK_DEADLOCK FALSE
INVARIANTS NothingAfterTheEnd
