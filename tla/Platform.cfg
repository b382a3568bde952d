SPECIFICATION PlatformSpec
CONSTANTS
    Calls = {c1, c2}
    c1 = c1
    c2 = c2
    c3 = c3
    NoCall = NoCall
    h1 = h1
    h2 = h2
    Hashes <- MCHashes
    AmountOf <- MCAmountOf
    Required = 1
    first = 2
    second = 1
    MaxDeliveries <- MCMaxDeliveries
    Life = 2
    MaxDelay = 1
    MaxTime = 4
    CacheScenarios <- MCCacheScenarios
    FiatCalls = {c1, c2, c3}
    Ibans = {"TR1", "TR2"}
    FiatScenarios <- MCFiatScenarios
    Numbers <- MCNumbers
    KycScenarios <- MCKycScenarios
    Users = {"u1", "u2"}
    MaxCalls = 4
    Withdrawals = {1, 2}
    Amounts = {1, 2, 3, 4}
    Minimum = 2
    Maximum = 3
    Coarse = 2
    MaxRetries = 3
    WalletScenarios <- MCWalletScenarios
    Tabs = {1, 2}
    Accounts = {"a", "b"}
    ClientScenarios <- MCClientScenarios
INVARIANTS
    PlatformTypeOK
    NoEarlyCredit
    LedgerExplainsBalance
    CreditedIsPaid
    ServedIsRecent
    PendingHasAccount
    SubmissionsAreSound
    AddressHasOneOwner
    SentIsOwed
    SpinnersEnd
    SignedInIsStored
CHECK_DEADLOCK FALSE
