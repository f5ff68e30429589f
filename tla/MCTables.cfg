CONSTANTS
    Names = {"loop0", "a", "b"}
    Hidden = {"loop0"}
    FirstNames <- MCThree
    TableMax = 2
    Boot = 1
    MaxTraffic = 1
    MaxTurns = 4
    MaxReads = 1
    Word = 65536
    Full = 100
    MaxSize = 2
    MaxShifts = 2
    MaxPasses = 3
SPECIFICATION MCSpec
CHECK_DEADLOCK FALSE
INVARIANTS
    ResponseComplete
    NoPhantomTraffic
    UsageHonest
    SharesHonest
