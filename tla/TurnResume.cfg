SPECIFICATION Spec
CONSTANTS
    Users = {u1}
    Resumes = {r1}
    Msgs = {m1}
    NoPrompt = NoPrompt
    MaxSlots = 1
    MaxAdmits = 2
INVARIANTS
    FrontIsRunning
    NoStrandedPrompt
PROPERTIES
    ImplementsReceipt
CHECK_DEADLOCK FALSE
