SPECIFICATION Spec
CONSTANTS
    Record = {r1}
    Bad = {}
    Doubtful = {}
    Unfit = {}
    Sender = {p1, p2}
    Nobody = Nobody
    NoRecord = NoRecord
    WholeQueue = FALSE
    MaxFaults = 2
SYMMETRY PassSymmetry
INVARIANTS
    TypeOK
    OneEventPerWeighIn
    NothingLost
    ClaimsAreTrue
CHECK_DEADLOCK FALSE
