SPECIFICATION Spec
CONSTANTS
    ClockSteps <- MCClockSteps
    Overrides = {0, 10, 999}
    MaxClock = 5616000
    Amounts <- MCAmounts
    CreatedAt <- MCCreatedAt
    None = None
INVARIANTS
    TypeOK
    CountdownAgrees
    RoundingFavorsUser
PROPERTIES
    RateNeverRises
CONSTRAINT
    NearBoundary
