SPECIFICATION Spec
CONSTANTS
    Instances = {w1}
    Pages = {p1}
    None = None
    ByCode = {}
    AgentConns = 1
    TabConns = 2
    OUTBOUND_CAP = 8
    MaxList = 2
    MaxText = 1
    MaxInputs = 0
    MaxBusy = 1
    MaxDrops = 2
INVARIANTS
    ViewIsLastPushed
    SelectionIsMirrored
    MirrorsOnlyWatched
CHECK_DEADLOCK FALSE
