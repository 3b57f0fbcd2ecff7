SPECIFICATION FairSpec
CONSTANTS
    Procs = {p, q, r}
    Sessions = {s, t}
    None = None
    Torn = Torn
    MaxOpens = 2
INVARIANTS
    TypeOK
    EntryAccounted
PROPERTIES
    ImplementsRegistry
    EveryOperationEnds
CHECK_DEADLOCK FALSE
