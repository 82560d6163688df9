SPECIFICATION MCSpec
CONSTANTS
    b1 = b1
    b2 = b2
    r1 = r1
    r2 = r2
    Batch = {b1, b2}
    Event = {1, 2, 3}
    Reader = {r1, r2}
    NoRoot = NoRoot
    MaxTx = 2
    MaxRestarts = 1
    Address = {a1, a2}
    NoAdmin = NoAdmin
    BatchId = {i1}
    Root = {x1}
    Weight = {0, 7}
    NoRecord = NoRecord
    MaxPublished = 6
    MaxLedger = 2
INVARIANTS
    MCTypeOK
    VerdictsAreTrue
    VerifiedIsProof
    NoFalseAlarm
    LogRebuildsRegistry
CHECK_DEADLOCK FALSE
