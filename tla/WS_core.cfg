SPECIFICATION Spec
CONSTANTS
    j1 = j1
    j2 = j2
    api = api
    sa = sa
    sb = sb
    None = None
    Jobs = {j1, j2}
    Workers = {api, sa, sb}
    Standalone = {sa, sb}
    Timely = TRUE
    Serial = TRUE
    Interruptible = FALSE
    MaxCrashes = 0
    MaxStops = 1
    MaxMarks = 0
    MaxFaults = 1
INVARIANTS
    RowMatchesExecutor
PROPERTIES
    OnlyExecutorOverwrites
    LeaseSpec
