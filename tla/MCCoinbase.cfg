\* Blocks of identical contents, one on top of the other.
SPECIFICATION LinkedSpec
CONSTANTS
    BlockHash <- MCBlockHash
    Txid <- MCTxid
    OutPoint <- MCOutPoint
    Write <- MCWrite
    TxWrite <- MCTxWrite
    Value <- MCValue
    MaxHeight = 2
    Clock = {1}
    NULL = NULL
INVARIANT CoinbaseRowsKept
