SPECIFICATION Spec
CONSTANTS
    Workers = {w1}
    Users = {u1}
    Donations = {d1, d2}
    Fees = {2}
    None = None
    MaxAborts = 0
    MaxSettlements = 1
INVARIANTS
    RecordsWhatWasPaid
CHECK_DEADLOCK FALSE
