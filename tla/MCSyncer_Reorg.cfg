\* One reorganization in the middle of a pass.
SPECIFICATION SyncerSpec
CONSTANTS
    BlockHash <- OneGenesis
    Txid <- MCTxid
    OutPoint <- MCOutPoint
    Write <- MCWrite
    TxWrite <- MCTxWrite
    Value <- MCValue
    MaxHeight = 2
    Clock = {1}
    NULL = NULL
    BackfillPerPass = 1
    MaxMoves = 2
    MaxFaults = 0
PROPERTY EventuallyLevel
