\* A node that may reorganize at any time, to another genesis block too.
SPECIFICATION SyncerSpec
CONSTANTS
    BlockHash <- TwoGeneses
    Txid <- MCTxid
    OutPoint <- MCOutPoint
    Write <- MCWrite
    TxWrite <- MCTxWrite
    Value <- MCValue
    MaxHeight = 2
    Clock = {1}
    NULL = NULL
    BackfillPerPass = 2
    MaxMoves = 4
    MaxFaults = 1
INVARIANTS
    SyncerTypeOK
    TipIsTop
    OutputsExact
    TxsExact
    SpentSound
    MainHeightsExact
PROPERTIES StoreSpec EventuallyMainHeights
