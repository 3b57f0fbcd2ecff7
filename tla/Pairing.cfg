SPECIFICATION FairSpec
CONSTANTS
    Windows = {v, w}
    MaxAuths = 2
    MaxIds = 4
    MaxFaults = 1
    Torn = Torn
INVARIANTS
    PairingHolds
PROPERTIES
    IdentityKept
    EveryWindowReturns
CHECK_DEADLOCK FALSE
