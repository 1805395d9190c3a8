SPECIFICATION FairTokenSpec
CONSTANTS
    api = api
    g1 = g1
    g2 = g2
    u1 = u1
    u2 = u2
    None = None
    Procs = {api}
    Api = {api}
    Getters = {g1, g2}
    Purgers = {u1}
    Lifetime = 3
    Leeway = 1
    MaxTries = 2
    MaxClock = 3
    MaxEpoch = 2
INVARIANTS
    SingleFlight
    GivenTokenIsGood
PROPERTIES
    CallsEnd
CHECK_DEADLOCK FALSE
