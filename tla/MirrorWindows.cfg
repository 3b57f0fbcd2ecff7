SPECIFICATION Spec
CONSTANTS
    Instances = {w1, w2}
    Pages = {p1}
    None = None
    ByCode = {}
    AgentConns = 2
    TabConns = 1
    OUTBOUND_CAP = 8
    MaxList = 1
    MaxText = 0
    MaxInputs = 2
    MaxBusy = 1
    MaxDrops = 0
INVARIANTS
    PromptReachesSelection
    ViewOfSelection
SYMMETRY WindowSymmetry
CHECK_DEADLOCK FALSE
