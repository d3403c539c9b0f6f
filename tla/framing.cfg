SPECIFICATION Spec
CONSTANTS
    Rests <- Replies
    MaxMessages = 3
    MaxPiece = 8
CHECK_DEADLOCK FALSE
INVARIANTS
    TypeOK
    MessagesIntact
    CodesRecovered
    FirstNotHeldBack
