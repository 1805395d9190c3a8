SPECIFICATION Spec
CONSTANTS
    w1 = w1
    w2 = w2
    w3 = w3
    w4 = w4
    o1 = o1
    o2 = o2
    o3 = o3
    o4 = o4
    o5 = o5
    o6 = o6
    o7 = o7
    o8 = o8
    o9 = o9
    o10 = o10
    o11 = o11
    o12 = o12
    o13 = o13
    Workspaces = {w1, w2, w3, w4}
    App = {w1}
    Ssh = {w2, w4}
    Existing = {w2}
    Ops = {o1, o2, o3, o4, o5, o6, o7, o8, o9, o10, o11, o12, o13}
    Kind <- AllKinds
    Target <- AllTargets
    MaxOps = 3
    FaultKinds = {"refused", "lost", "silent", "stuck"}
    MaxTrouble = 2
    MaxCrashes = 1
INVARIANTS
    RowHasDir
    CreateAllOrNothing
    Consistent
CHECK_DEADLOCK FALSE
