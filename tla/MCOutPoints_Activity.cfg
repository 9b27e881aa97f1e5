\* The id of a coin in the activity feed.
SPECIFICATION OutPointsSpec
CONSTANTS
    Base = 5
    HashSize = 4
    VoutSize = 2
    IdSize = 1
    Wires <- MCWires
    NULL = NULL
INVARIANT ActivityKeepsTxid
CHECK_DEADLOCK FALSE
