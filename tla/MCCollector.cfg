CONSTANTS
    Procs <- MCProcs
    Layouts <- MCLayouts
    Pids <- MCPids
    WorkersMax = 2
    GenSize = 3
    MaxMissed = 1
    MaxStops = 1
    MaxCrashes = 1
SPECIFICATION Spec
INVARIANTS
    TypeOK
    MutualExclusion
    NoLostGeneration
    SnapshotWhole
    RowsTruthful
    TimerKept
PROPERTIES
    CollectsOrOrphaned
    QuitCompletes
    RowsHeal
