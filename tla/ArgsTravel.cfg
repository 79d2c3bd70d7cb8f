SPECIFICATION Spec
CONSTANTS
    PageSize = 4
    MaxTrips = 3
    Given <- MCGiven
INVARIANTS
    TypeOK
    TravelKeepsBytes
    ThrowsOnlyForCause
    FormatsAgree
CHECK_DEADLOCK FALSE
