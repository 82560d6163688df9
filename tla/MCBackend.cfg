SPECIFICATION MCSpec
CONSTANTS
    Batch = {b1, b2}
    Root = {x1, x2}
    NoRoot = NoRoot
    Worker = {w1}
    MaxTx = 5
    MaxFaults = 1
    User = {a, b}
    Role = {"admin", "operator"}
    Request = {r1, r2}
    Admins = {a}
    NoUser = NoUser
    Free = Free
INVARIANTS
    MCTypeOK
    AnchorsConfirmed
    OneSuccess
    NoNeedlessFee
PROPERTIES
    AnchorsFrozen
    SealedIsAnchored
    UpdateKeepsAnAdmin
    EveryRequestEnds
CHECK_DEADLOCK FALSE
