\* A replacement beside a block, with transactions that compete for no coin.
SPECIFICATION WritersSpec
CONSTANTS
    Txid <- MCPair
    Rows <- MCRows
    Bodies <- MCBodies
    MaxMoves = 2
    MaxBreaks = 1
    NULL = NULL
INVARIANT NoHalfSnapshot
