SPECIFICATION FairSpec
CONSTANTS
    Workers = {w1}
    Users = {u1, u2}
    Donations = {d1, d2, d3}
    Fees = {0, 2, 3}
    None = None
    MaxAborts = 0
    MaxSettlements = 2
INVARIANTS
    FeesAccounted
    EarnedIsSum
PROPERTIES
    EventuallyCredited
    ImplementsFeeAccounts
CHECK_DEADLOCK FALSE
