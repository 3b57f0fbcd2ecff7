SPECIFICATION FairSpec
CONSTANTS
    Items = {a, b}
    Addressed = {a, b}
    Big = {b}
    Capacity = 1
    MaxConcurrent = 1
    MaxBytes = 2
    InlineTotal = 1
    MaxAttempts = 2
    Threshold = 1
    MaxCrashes = 1
INVARIANTS
    TypeOK
    NothingLost
    CountersAreExact
    MarkHasOwner
    NoStrayFiles
PROPERTIES
    EveryCallerAnswered
    EveryShutdownEnds
CHECK_DEADLOCK FALSE
