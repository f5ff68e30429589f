CONSTANTS
    Workers = {w1, w2}
    Keys <- MCKeys
    HashOf <- MCHash
    NameOf <- MCName
    Kinds = {"top", "upstream"}
    Statuses = {500}
    Capacity = 2
    Rooms <- MCRooms
    Starts <- MCStarts
    MaxCalls = 3
    MaxCrashes = 1
    MaxViews = 1
    MaxViewCalls = 2
SPECIFICATION ViewSpec
CHECK_DEADLOCK FALSE
INVARIANTS
    RowsWhole
    KeysUnique
    NeverCountedTwice
    FailuresCountedAlone
    ViewHonest
PROPERTIES
    EvictsFewest
    CallsEnd
