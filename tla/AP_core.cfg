SPECIFICATION Spec
CONSTANTS
    MaxPlan = 2
    MaxTries = 3
    Toolset <- MCTools
    MaxRetries = 2
    MaxLost = 2
    Modules = {m1}
    Objectives <- MCObjectives
INVARIANTS
    SuccessIsEarned
    GatedStepsWait
    ProgramIsWhole
    OutcomeIsTold
PROPERTIES
    RunsEnd
