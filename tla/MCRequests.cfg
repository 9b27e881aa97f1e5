\* Requests, and a walk through the pages of an address, beside the syncers.
SPECIFICATION RequestsSpec
CONSTANTS
    BlockHash <- MCBlockHash
    Txid <- MCTxid
    OutPoint <- MCOutPoint
    Write <- MCApiWrite
    TxWrite <- MCTxWrite
    Value <- MCValue
    Owner <- MCOwner
    Rank <- MCRank
    Body <- MCBody
    PageSize = 2
    ListSize = 3
    MaxHeight = 2
    Clock = {1}
    NULL = NULL
INVARIANTS
    SpentExact
    FeesExact
    MempoolOwned
    BalancesAgree
    NothingSteadyLost
    LateOnlyByBlock
    AnswersOfOneBlock
    FeedLosesNothing
    NoRowTwice
PROPERTY WalkEnds
