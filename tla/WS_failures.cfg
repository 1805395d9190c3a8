SPECIFICATION FairSpec
CONSTANTS
    j1 = j1
    api = api
    sa = sa
    None = None
    Jobs = {j1}
    Workers = {api, sa}
    Standalone = {sa}
    Timely = TRUE
    Serial = FALSE
    Interruptible = TRUE
    MaxCrashes = 1
    MaxStops = 1
    MaxMarks = 1
    MaxFaults = 1
INVARIANTS
    OrphanVisible
PROPERTIES
    EveryJobSettles
