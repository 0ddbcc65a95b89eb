CONSTANTS
    Login = {l1, l2}
    Code = {v1, v2}
    maxRetry = 2
    MaxRight = 1
    MaxCrashes = 1
SPECIFICATION FairSpec
INVARIANTS LoginTypeOK AttemptsAreBounded CountIsEarned CodeIsSpent
PROPERTY LockEnds
CHECK_DEADLOCK FALSE
