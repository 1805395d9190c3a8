SPECIFICATION FairToolSpec
CONSTANTS
    j1 = j1
    j2 = j2
    Jobs = {j1, j2}
    Orders <- MCOrders
    Disk <- MCDisk
    MaxCalls = 2
    MaxFaults = 1
INVARIANTS
    WorkIsKept
    RunsItsOwnCode
PROPERTIES
    CallsReturn
CHECK_DEADLOCK FALSE
