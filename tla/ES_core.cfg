SPECIFICATION FairStreamSpec
CONSTANTS
    pipeline = pipeline
    worker = worker
    v1 = v1
    Pubs = {pipeline, worker}
    Viewers = {v1}
    Plan <- MCPlan
    Here = {pipeline}
    MaxItems = 2
    MaxFaults = 1
INVARIANTS
    OrderKept
    OnlyTheGapIsMissed
PROPERTIES
    StreamsEnd
CHECK_DEADLOCK FALSE
