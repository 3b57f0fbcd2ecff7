SPECIFICATION Spec
CONSTANTS
    Users = {u1}
    Resumes = {r1}
    Msgs = {m1}
    NoPrompt = NoPrompt
    MaxSlots = 1
    MaxAdmits = 1
INVARIANTS
    GateHasOwner
CHECK_DEADLOCK FALSE
