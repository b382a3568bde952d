SPECIFICATION Spec
CONSTANTS
    Calls = {c1, c2}
    NoCall = NoCall
    MaxRequests = 1
    Amounts <- MCAmounts
    MinWithdrawal = 100
    MaxWithdrawal = 50000
    Fee = 5
    DailyLimit = 5
    InitialAvailable = 310
    MaxDay = 0
INVARIANT
    ApprovedIsHeld
