SPECIFICATION Spec
CONSTANTS
    Calls = {c1}
    c1 = c1
    Codes = {1}
    MaxFailed = 2
    Scenarios <- MCScenarios
INVARIANT
    BackupCodesAreSingleUse
CHECK_DEADLOCK FALSE
