SPECIFICATION FairSpec
CONSTANTS
    Users = {u1}
    Xpubs = {x1}
    Donations = {d1, d2}
    Amounts = {0, 200}
    Payments = {100, 200}
    Others = {100}
    FeeRate = 35
    MaxPayments = 2
    None = None
    Programs <- MCPrograms
INVARIANTS
    TypeOK
    ConfirmedWasPaid
    SatsOnly
    IInv
    AddressesEncode
    SlipsDetected
PROPERTIES
    EventuallyConfirmed
    ImplementsFeeAccounts
CHECK_DEADLOCK FALSE
