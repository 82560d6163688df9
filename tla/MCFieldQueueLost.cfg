SPECIFICATION Spec
CONSTANTS
    Record = {r1, r2}
    Bad = {}
    Doubtful = {}
    Unfit = {}
    Sender = {p1}
    Nobody = Nobody
    NoRecord = NoRecord
    WholeQueue = TRUE
    MaxFaults = 0
INVARIANT
    NothingLost
CHECK_DEADLOCK FALSE
