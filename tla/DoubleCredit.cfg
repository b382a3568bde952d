SPECIFICATION Spec
CONSTANTS
    Calls = {c1, c2}
    NoCall = NoCall
    h1 = h1
    h2 = h2
    Hashes <- MCHashes
    AmountOf <- MCAmountOf
    Required = 1
    first = 2
    second = 0
    MaxDeliveries <- MCMaxDeliveries
INVARIANT
    CreditedOnce
CHECK_DEADLOCK FALSE
