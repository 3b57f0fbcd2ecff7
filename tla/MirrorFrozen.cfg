SPECIFICATION Spec
CONSTANTS
    Instances = {w1}
    Pages = {p1}
    None = None
    ByCode = {}
    AgentConns = 2
    TabConns = 1
    OUTBOUND_CAP = 8
    MaxList = 1
    MaxText = 0
    MaxInputs = 0
    MaxBusy = 1
    MaxDrops = 1
INVARIANTS
    SelectionIsMirrored
CHECK_DEADLOCK FALSE
