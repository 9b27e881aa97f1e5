\* Two faults while the database is opened; then one while it is written, two moves of
\* the node's mempool and two blocks.
SPECIFICATION DatabaseSpec
CONSTANTS
    Opener <- MCOpener
    Names <- MCNames
    Wanted <- MCWanted
    MaxFaults = 2
    NoChain = NoChain
    Txid <- MCPending
    Rows <- MCRows
    Bodies <- MCBodies
    MaxMoves = 2
    MaxBreaks = 1
    NULL = NULL
INVARIANTS
    DatabaseTypeOK
    MigratedInOrder
    OpenIsReady
    OwnedThroughout
    KeysFree
PROPERTIES
    EventuallyOpen
    Settles
