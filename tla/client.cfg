SPECIFICATION FairSpec
CONSTANTS
    None = None
    Calls = {c1, d1}
    Deletes = {d1}
    Others = {u1, u2, u3}
    Resolutions = {"merge", "null"}
    MaxWrites = 8
    MaxFailures = 1
CHECK_DEADLOCK FALSE
INVARIANTS
    TypeOK
    NoLostUpdate
    ReadsWhatWasTaken
    PutsCoverWhatTheyReplace
PROPERTY
    CallsAnswered
