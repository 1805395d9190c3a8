SPECIFICATION FairSpec
CONSTANTS
    w1 = w1
    pa = pa
    None = None
    Procs = {pa, pb}
    Workspaces = {w1, w2, w3}
    Ports = {1, 2}
    Clients = {c1, c2}
    Site <- MCSite
    Gate <- MCGate
    Concurrency = 1
    MaxTrouble = 1
INVARIANTS
    NoStrangerAnswers
    PoolIsSound
PROPERTIES
    AnsweredAgain
CHECK_DEADLOCK FALSE
