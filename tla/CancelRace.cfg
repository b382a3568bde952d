SPECIFICATION Spec
CONSTANTS
    Calls = {c1, c2}
    NoCall = NoCall
    MaxRequests = 1
    Amounts <- MCAmounts
    Fee = 1
    AdminThreshold = 20
    MaxRetries = 2
    InitialAvailable = 32
INVARIANT
    CancelledIsNotSent
CHECK_DEADLOCK FALSE
