CONSTANTS
    Login = {l1, l2}
    Code = {v1, v2}
    maxRetry = 2
    MaxRight = 2
    MaxCrashes = 0
SPECIFICATION Spec
INVARIANT EveryLoginIsCounted
CHECK_DEADLOCK FALSE
