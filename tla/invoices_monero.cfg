SPECIFICATION FairSpec
CONSTANTS
    Users = {u1}
    Xpubs = {x1}
    Donations = {d1}
    Amounts = {100}
    Payments = {100}
    Others = {}
    FeeRate = 35
    MaxPayments = 1
    None = None
    Programs <- MCPrograms
PROPERTIES
    EventuallyConfirmedMonero
CHECK_DEADLOCK FALSE
