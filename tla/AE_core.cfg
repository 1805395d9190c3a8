SPECIFICATION FairSpec
CONSTANTS
    Requests = {1, 2, 3, 4}
    Nobody = Nobody
    Casts <- MCCasts
    MaxFaults = 1
    MaxCrashes = 1
    MaxNights = 1
INVARIANTS
    KilledStaysKilled
    OnceWhenAlone
    RejectionHolds
PROPERTIES
    RegisterSpec
    RequestsEnd
CHECK_DEADLOCK FALSE
