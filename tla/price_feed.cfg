SPECIFICATION Spec
CONSTANTS
    Coins = {BTC}
    Ttl = 2
    MaxStale = 5
    MaxFetch = 1
    Offsets <- MCOffsets
    MaxTime = 9
    MaxCorrection = 4
    None = None
INVARIANTS
    TypeOK
    NoStalePrice
    IInv
PROPERTIES
    PricesMoveForward
    RefusesOnlyWhenStale
