SPECIFICATION Spec
CONSTANTS
    Calls = {c1, c2}
    NoCall = NoCall
    MaxRequests = 2
    Amounts <- MCAmounts
    Fee = 1
    AdminThreshold = 20
    MaxRetries = 2
    InitialAvailable = 31
INVARIANTS
    TypeOK
    LockedIsHeld
    FundsConserved
    LedgerCountsPaidTwice
    OpenIsHeld
    PaidIsSent
    SomeCallGoesOn
PROPERTY
    ImplementsReservation
CHECK_DEADLOCK FALSE
