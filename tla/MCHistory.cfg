CONSTANTS
    HistoryMax = 4
    Confs <- MCConfs
    MaxSamples = 8
    MaxReloads = 1
    MaxReads = 1
    Workers = {"w1", "w2", "w3"}
    Stagger <- MCStagger
    Refresh = 3
    Resolution = 4
    Scale = 100
    Wrap = 65536
    Lags = {0, 1}
    MaxTime = 13
    MaxRequests = 2
SPECIFICATION MCSpec
CHECK_DEADLOCK FALSE
INVARIANTS
    WindowExact
    ReaderFresh
    ReloadHeals
    Paced
    RequestsAccounted
    EwmaWithinPeak
PROPERTIES
    ImplementsLog
