\* A walk through the pages of an index that does not change.
SPECIFICATION QuietSpec
CONSTANTS
    BlockHash <- MCPagingBlocks
    Txid <- MCTxid
    OutPoint <- MCOutPoint
    Write <- MCPagingWrite
    TxWrite <- MCTxWrite
    Value <- MCValue
    Owner <- MCPagingOwner
    Rank <- MCPagingRank
    Body <- MCPagingBody
    MaxHeight = 2
    PageSize = 1
    Clock = {1}
    NULL = NULL
INVARIANT PagesCover
CHECK_DEADLOCK FALSE
