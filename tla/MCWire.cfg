\* Every combination of the parts of a block, with up to two withdrawal bundles; an
\* int64 of three bits; bytes below 5.  A content is decoded once, and a pair of names
\* stored once.
SPECIFICATION WireSpec
CONSTANTS
    Decode <- MCDecode
    CoinbaseTxid <- MCCoinbaseTxid
    RawBlocks <- MCRawBlocks
    Hash = "hash"
    MaxInt64 = 3
    Inputs <- MCContents
    Base = 5
    HashSize = 4
    VoutSize = 2
    IdSize = 1
    Wires <- MCWires
    NULL = NULL
INVARIANTS
    RowKeysDistinct
    BatchMatchesLedger
    AuthorizationsPartition
    ExactOrRefused
    KeysTellApart
    ReadsBack
    TxidKept
CHECK_DEADLOCK FALSE
