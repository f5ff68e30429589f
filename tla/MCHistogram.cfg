CONSTANTS
    w1 = w1
    w2 = w2
    Workers <- MCWorkers
    SlotOf <- OneSlot
    Methods <- MCMethods
    LatencyBounds <- MCLatencyBounds
    SizeBounds <- MCSizeBounds
    Requests <- MCRequests
    Earlier <- MCEarlier
    Percentiles = {95}
    MaxRequests = 2
    MaxReads = 1
    MaxViews = 1
    MaxViewEvents = 2
    MaxCrashes = 1
SPECIFICATION ViewSpec
SYMMETRY Alike
CHECK_DEADLOCK FALSE
INVARIANTS
    HistogramsCumulative
