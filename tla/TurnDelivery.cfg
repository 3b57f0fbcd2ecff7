SPECIFICATION FairSpec
CONSTANTS
    Users = {u1}
    Resumes = {}
    Msgs = {m1, m2}
    NoPrompt = NoPrompt
    MaxSlots = 2
    MaxAdmits = 1
INVARIANTS
    TypeOK
    SlotsBelongToRunningTurn
    ReceiptOwnedOnce
    ShownAtMostOnce
    DeliveryOrder
    SignalIsExact
    MarkIsLiveTurns
    GateHasOwner
PROPERTIES
    EveryReceiptAnswered
    ImplementsReceipt
CHECK_DEADLOCK FALSE
