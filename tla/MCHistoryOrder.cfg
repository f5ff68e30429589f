CONSTANTS
    HistoryMax = 4
    Confs <- MCReload
    MaxSamples = 5
    MaxReloads = 1
    MaxReads = 0
    Workers = {"w1", "w2", "w3"}
    Stagger <- MCStagger
    Refresh = 3
    Resolution = 4
    Scale = 100
    Wrap = 65536
    Lags = {0}
    MaxTime = 2
    MaxRequests = 2
SPECIFICATION MCSpec
CHECK_DEADLOCK FALSE
INVARIANTS
    WindowOrdered
