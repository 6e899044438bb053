SPECIFICATION Spec
CONSTANTS
    Users = {u1}
    Xpubs = {x1}
    Donations = {d1, d2}
    Amounts = {100}
    Payments = {100}
    Others = {}
    FeeRate = 35
    MaxPayments = 1
    None = None
    Programs <- MCPrograms
INVARIANTS
    ConfirmedByOwnPayment
CHECK_DEADLOCK FALSE
