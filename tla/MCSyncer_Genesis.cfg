\* A node that comes back with another genesis block.
SPECIFICATION CalmSpec
CONSTANTS
    BlockHash <- TwoGeneses
    Txid <- MCTxid
    OutPoint <- MCOutPoint
    Write <- MCWrite
    TxWrite <- MCTxWrite
    Value <- MCValue
    MaxHeight = 2
    Clock = {1}
    NULL = NULL
    BackfillPerPass = 1
    MaxMoves = 2
    MaxFaults = 0
PROPERTY NothingSurvivesGenesis
