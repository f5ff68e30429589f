CONSTANTS
    Procs <- MCProcs
    Layouts <- MCLayouts
    Pids <- MCPids
    WorkersMax = 2
    GenSize = 3
    MaxMissed = 1
    MaxStops = 0
    MaxCrashes = 1
SPECIFICATION Spec
PROPERTIES
    CollectionGoesOn
