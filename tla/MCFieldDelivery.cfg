SPECIFICATION FairSpec
CONSTANTS
    Record = {r1, r2}
    Bad = {r2}
    Doubtful = {r1}
    Unfit = {r2}
    Sender = {p1}
    Nobody = Nobody
    NoRecord = NoRecord
    WholeQueue = FALSE
    MaxFaults = 2
PROPERTIES
    EveryWeighInArrives
    EveryPhotoArrives
CHECK_DEADLOCK FALSE
