SPECIFICATION MCSpec
CONSTANTS
    Code = {pet, hdpe}
    Managed = {pet}
    Request = {r1, r2}
    Seeds = {hdpe}
    Elsewhere = {hdpe}
    MaxFetches = 1
    Nothing = Nothing
    MaxBuilds = 3
    Hub = {h1, h2, h3}
    FirstHubs = {h1, h2}
    Collector = {c1, c2}
    Attempt = {t1, t2}
    NoHub = NoHub
    NoProvisioning = NoProvisioning
    NoSelection = NoSelection
    MaxSacks = 2
    MaxShots = 2
    MaxOps = 2
    MaxPulls = 2
    MaxFaults = 1
CONSTRAINT OneThingAtATime
SYMMETRY PhoneSymmetry
INVARIANTS
    MCTypeOK
    OfferedIsOurs
    NewBuildReachesPhone
    RecordWhole
    AssignedHubListed
    ScreenShowsHub
    GuardIsReleased
PROPERTIES
    FieldWorkKept
    EnrolledAsSaved
CHECK_DEADLOCK FALSE
