SPECIFICATION FairNoFailure
CONSTANTS
    Calls = {c1, c2}
    NoCall = NoCall
    h1 = h1
    h2 = h2
    Hashes <- MCHashes
    AmountOf <- MCAmountOf
    Required = 1
    first = 1
    second = 1
    MaxDeliveries <- MCMaxDeliveries
PROPERTY
    ConfirmedIsCredited
CHECK_DEADLOCK FALSE
