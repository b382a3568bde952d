SPECIFICATION FairSpec
CONSTANTS
    Calls = {c1, c2, c3}
    NoCall = NoCall
    MaxRequests = 2
    Amounts <- MCAmounts
    MinWithdrawal = 100
    MaxWithdrawal = 50000
    Fee = 5
    DailyLimit = 1
    InitialAvailable = 310
    MaxDay = 1
INVARIANTS
    TypeOK
    LockedIsHeld
    FundsConserved
    LedgerExplainsAvailable
    LedgerMatchesStatus
PROPERTIES
    RefundIsCancellation
    EveryCallReturns
    ImplementsReservation
