CONSTANTS
    Workers = {w1, w2, w3}
    Limits <- MCLimits
    Lags = {0, 1}
    MaxTime = 2
    MaxRequests = 4
    MaxCrashes = 1
SPECIFICATION Spec
CHECK_DEADLOCK FALSE
INVARIANTS
    AdmittedTwiceAtMost
    FreshSecondAdmits
PROPERTIES
    ChecksEnd
