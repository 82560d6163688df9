SPECIFICATION ScreenSpec
CONSTANTS
    Hub = {h1}
    FirstHubs = {h1}
    Collector = {c1}
    Attempt = {t1}
    NoHub = NoHub
    NoProvisioning = NoProvisioning
    NoSelection = NoSelection
    MaxSacks = 2
    MaxShots = 2
    MaxOps = 2
    MaxPulls = 0
    MaxFaults = 0
INVARIANT
    CommittedWeightGone
CHECK_DEADLOCK FALSE
