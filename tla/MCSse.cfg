CONSTANTS
    Workers = {"w1", "w2"}
    Clients = {"c1", "c2"}
    MaxEvents = 3
    MaxCrashes = 1
SPECIFICATION Spec
CHECK_DEADLOCK FALSE
INVARIANTS
    BuffersIntact
    GaugeExact
    NoTimerAfterFree
    StreamAlive
PROPERTIES
    QuitCompletes
