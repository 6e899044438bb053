SPECIFICATION Spec
CONSTANTS
    Workers = {w1}
    Users = {u1, u2}
    Donations = {d1, d2, d3}
    Fees = {0, 2, 3}
    None = None
    MaxAborts = 2
    MaxSettlements = 2
INVARIANTS
    TypeOK
    CreditedOnce
    OwedAtMostEarned
    IInv
PROPERTIES
    NothingForgiven
SYMMETRY Symmetry
CHECK_DEADLOCK FALSE
