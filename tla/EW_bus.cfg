SPECIFICATION FairSpec
CONSTANTS
    j1 = j1
    api = api
    worker = worker
    None = None
    Jobs = {j1}
    Procs = {api, worker}
    Api = {api}
    MaxRuns = 2
    MaxEvents = 3
    MaxCrashes = 1
INVARIANTS
    NoLostWake
    ParkedIsReachable
PROPERTIES
    DriversEnd
CHECK_DEADLOCK FALSE
