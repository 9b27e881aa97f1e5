\* The node moves its chain and its pool up to four times and fails once.
SPECIFICATION MempoolSyncSpec
CONSTANTS
    BlockHash <- MCBlockHash
    Txid <- MCTxid
    OutPoint <- MCOutPoint
    Write <- MCWrite
    TxWrite <- MCTxWrite
    Value <- MCValue
    MaxHeight = 2
    Clock = {1, 2}
    NULL = NULL
    BackfillPerPass = 1
    MaxMoves = 4
    MaxFaults = 1
PROPERTIES
    LinkedSpec
    RollsBackStaleOnly
    FirstSeenStable
    EventuallyLevel
    EventuallySnapshot
