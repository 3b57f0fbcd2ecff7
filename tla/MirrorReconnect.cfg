SPECIFICATION Spec
CONSTANTS
    Instances = {w1}
    Pages = {p1}
    None = None
    ByCode = {w1}
    AgentConns = 2
    TabConns = 1
    OUTBOUND_CAP = 8
    MaxList = 2
    MaxText = 0
    MaxInputs = 0
    MaxBusy = 1
    MaxDrops = 1
INVARIANTS
    TypeOK
    CatalogMatchesSockets
    PageAgrees
    CatalogIsLastPushed
CHECK_DEADLOCK FALSE
