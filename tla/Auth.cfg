SPECIFICATION AuthSpec
CONSTANTS
    Calls = {c1, c2}
    c1 = c1
    c2 = c2
    Passwords = {"old", "new"}
    MaxAttempts = 2
    AccessLife = 1
    LockLife = 1
    ResetLife = 1
    VerifyLife = 1
    Month = 9
    MaxTime = 2
    Scenarios <- MCScenarios
    Codes = {1}
    MaxFailed = 2
    FactorScenarios <- MC2FAScenarios
    Limit = 2
    RateWindow = 2
    RateTime = 4
    MaxRequests = 5
    MaxWithdrawalAttempts = 2
    AttemptWindow = 1
    WithdrawalTime = 4
INVARIANTS
    AuthTypeOK
    RevokedIsRefused
    SessionsAreRevoked
    RowIsHistory
    GuessesBounded
    PassedOnce
    LimitsHold
CHECK_DEADLOCK FALSE
