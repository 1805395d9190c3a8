SPECIFICATION Spec
CONSTANTS
    Deliveries = {1, 2}
    Kinds = {"created", "suspend", "unsuspend", "deleted", "added", "removed", "renamed"}
    MaxPosts = 2
    MaxOpen = 2
    MaxFaults = 1
    MaxCrashes = 1
    FirstCount = 1
INVARIANTS
    AckIsHonest
    ReplaySkipped
    RowFollowsLedger
CHECK_DEADLOCK FALSE
