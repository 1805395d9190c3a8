SPECIFICATION FairSpec
CONSTANTS
    j1 = j1
    j2 = j2
    w1 = w1
    w2 = w2
    t = t
    u = u
    Jobs = {j1, j2}
    Workspaces = {w1, w2}
    Tasks = {t, u}
    Casts <- MCCasts
    Original <- MCOriginal
    Answers <- MCAnswers
    Attempts = 2
    MaxTrouble = 1
INVARIANTS
    OneAsker
    NoLostEdit
    SuccessIsAChange
PROPERTIES
    JobsEnd
CHECK_DEADLOCK FALSE
