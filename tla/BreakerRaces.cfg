SPECIFICATION Spec
CONSTANTS
    Callers = {c1, c2}
    MIN_SAMPLES = 1
    HALF_OPEN_PROBES = 1
    OPEN_MILLIS = 1
    WORD = 8
    MaxTime = 2
    MaxChecks = 5
INVARIANTS
    TypeOK
    MirrorIsExact
PROPERTIES
    LoneCheckAdmitted
    CoolDownKept
SYMMETRY CallerSymmetry
CHECK_DEADLOCK FALSE
