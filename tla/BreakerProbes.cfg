SPECIFICATION ChecksOnly
CONSTANTS
    Callers = {c1, c2}
    MIN_SAMPLES = 1
    HALF_OPEN_PROBES = 1
    OPEN_MILLIS = 1
    WORD = 8
    MaxTime = 1
    MaxChecks = 2
INVARIANTS
    ProbesLimited
SYMMETRY CallerSymmetry
CHECK_DEADLOCK FALSE
