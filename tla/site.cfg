SPECIFICATION Spec
CONSTANTS
    Users = {ann, bob}
    Browsers = {b1, b2}
    Tokens = {t1, t2}
    SessionTTL = 1
    Offsets = {0, 2}
    MaxTime = 2
    None = None
    Owner = ann
    Amounts = {1, 2}
    WindowSeconds = 1
    WallLimit = 2
    Bounds <- MCBounds
INVARIANTS
    TypeOK
    SessionsIInv
    SessionEnds
    SessionLasts
    WallOrder
PROPERTY
    ReadOnce
SYMMETRY Symmetry
CHECK_DEADLOCK FALSE
