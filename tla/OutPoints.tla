------------------------------ MODULE OutPoints ------------------------------
(***************************************************************************)
(* internal/chain/outpoint.go and hash.go: the forms of an outpoint.  The  *)
(* node names an output in JSON, the store keys a coin on its bytes and    *)
(* keeps the parts in columns, and the API renders a coin that was read.   *)
(*                                                                         *)
(* A byte is a number below Base, a hash a sequence of HashSize bytes, and *)
(* its hexadecimal text the sequence of the bytes in the order they are    *)
(* written.  A wire object maps the variants that are not nil to their     *)
(* fields; a field that is left out is NULL.                               *)
(***************************************************************************)
EXTENDS Kinds, Integers, Sequences

CONSTANTS
    Base,       \* 256
    HashSize,   \* 32
    VoutSize,   \* 4: the bytes of a uint32
    IdSize,     \* 6: the bytes of a market id
    Wires,      \* the objects that are read
    NULL

ASSUME OutPointsAssumption ==
    /\ Base \in Nat /\ Base > 4
    /\ {HashSize, VoutSize, IdSize} \subseteq Nat \ {0}
    /\ HashSize > IdSize + VoutSize

\* Base ^ n.
Power[n \in Nat] == IF n = 0 THEN 1 ELSE Base * Power[n - 1]

MaxUint == Power[VoutSize]

\* The bytes of n, the lowest first: each is cut off what the one before leaves.
PutUint(n) ==
    LET rest[i \in 0..VoutSize] == IF i = 0 THEN n ELSE rest[i - 1] \div Base
    IN  [i \in 1..VoutSize |-> rest[i - 1] % Base]

\* Fault variant: the bytes are read the other way round.
Uint_BigEndian(s) ==
    LET first[i \in 0..Len(s)] == IF i = 0 THEN 0 ELSE first[i - 1] * Base + s[i]
    IN  first[Len(s)]

Uint(s) ==
    LET last[i \in 0..Len(s)] == IF i = 0 THEN 0 ELSE last[i - 1] * Base + s[Len(s) - i + 1]
    IN  last[Len(s)]

\* Hash.parse, and BitcoinHash.String with its inverse.
IsHash(text) == text \in [1..HashSize -> 0..(Base - 1)]
BitcoinString(h) == [i \in 1..Len(h) |-> h[(Len(h) - i) + 1]]

\* A number that json.Unmarshal reads is not negative, a market id has its size, and
\* what is left out is no hash.  A Regular or Payout object holds its hash: one without
\* the field, which a node does not send, would be read with the zero hash.
ASSUME WiresAssumption ==
    /\ ~IsHash(NULL)
    /\ \A w \in Wires :
          /\ "Regular" \in DOMAIN w => w.Regular.vout \in Nat
          /\ "Coinbase" \in DOMAIN w => w.Coinbase.vout \in Nat
          /\ "Deposit" \in DOMAIN w => w.Deposit.vout \in Nat
          /\ "Payout" \in DOMAIN w => w.Payout.vout \in Nat
          /\ "MarketFunds" \in DOMAIN w =>
                w.MarketFunds \in [market_id : [1..IdSize -> 0..(Base - 1)],
                                   block_height : Nat, is_fee : BOOLEAN]

Refused == [ok |-> FALSE]
Read(o) == [ok |-> TRUE, point |-> o]

-----------------------------------------------------------------------------
Key(o) == <<o.kind>> \o o.source \o PutUint(o.vout)

OutPointFromKey(key) ==
    IF key[1] > KindPayout THEN Refused
    ELSE Read(OutPointOf(key[1], SubSeq(key, 2, HashSize + 1),
                         Uint(SubSeq(key, HashSize + 2, Len(key)))))

\* Fault variant: the fee flag is packed over the last byte of the height.
MarketFundsOutPoint_Overlap(m) ==
    OutPointOf(KindMarketFunds,
               m.market_id \o [PutUint(m.block_height) EXCEPT ![VoutSize] = IF m.is_fee THEN 1 ELSE 0]
               \o [i \in 1..(HashSize - IdSize - VoutSize) |-> 0], 0)

\* The market id, the height and the fee flag packed into the source.
MarketFundsOutPoint(m) ==
    OutPointOf(KindMarketFunds,
               m.market_id \o PutUint(m.block_height)
               \o [i \in 1..(HashSize - IdSize - VoutSize) |-> IF i = 1 /\ m.is_fee THEN 1 ELSE 0],
               0)

MarketFunds(o) ==
    [market_id    |-> SubSeq(o.source, 1, IdSize),
     block_height |-> Uint(SubSeq(o.source, IdSize + 1, IdSize + VoutSize)),
     is_fee       |-> o.source[IdSize + VoutSize + 1] = 1]

-----------------------------------------------------------------------------
\* A hash of another length, or a number beyond uint32, fails to decode.
Plain(kind, text, vout) ==
    IF IsHash(text) /\ vout < MaxUint THEN Read(OutPointOf(kind, text, vout)) ELSE Refused

coinbaseSource(c) == IF c.txid # NULL THEN c.txid ELSE c.merkle_root

\* json.Unmarshal reads every variant that is there, before the switch takes one.
Decodable(w) ==
    /\ "Regular" \in DOMAIN w => Plain(0, w.Regular.txid, w.Regular.vout).ok
    /\ "Coinbase" \in DOMAIN w =>
          /\ w.Coinbase.vout < MaxUint
          /\ \A h \in {w.Coinbase.txid, w.Coinbase.merkle_root} \ {NULL} : IsHash(h)
    /\ "Payout" \in DOMAIN w => Plain(0, w.Payout.hash, w.Payout.vout).ok
    /\ "MarketFunds" \in DOMAIN w => w.MarketFunds.block_height < MaxUint

\* The "txid:vout" text of a mainchain outpoint, which is parsed in its turn only.
parseBitcoinOutPoint(d) ==
    IF ~d.colon THEN Refused
    ELSE LET p == Plain(KindDeposit, d.txid, d.vout) IN
         IF p.ok THEN Read(OutPointOf(KindDeposit, BitcoinString(d.txid), d.vout)) ELSE Refused

UnmarshalJSON(w) ==
    IF ~Decodable(w) THEN Refused
    ELSE IF "Regular" \in DOMAIN w THEN Plain(KindRegular, w.Regular.txid, w.Regular.vout)
    ELSE IF "Coinbase" \in DOMAIN w
         THEN IF coinbaseSource(w.Coinbase) = NULL THEN Refused
              ELSE Plain(KindCoinbase, coinbaseSource(w.Coinbase), w.Coinbase.vout)
    ELSE IF "Deposit" \in DOMAIN w THEN parseBitcoinOutPoint(w.Deposit)
    ELSE IF "MarketFunds" \in DOMAIN w THEN Read(MarketFundsOutPoint(w.MarketFunds))
    ELSE IF "Payout" \in DOMAIN w THEN Plain(KindPayout, w.Payout.hash, w.Payout.vout)
    ELSE Refused

MarshalJSON(o) ==
    CASE o.kind = KindRegular -> [Regular |-> [txid |-> o.source, vout |-> o.vout]]
      [] o.kind = KindCoinbase ->
            [Coinbase |-> [txid |-> o.source, merkle_root |-> NULL, vout |-> o.vout]]
      [] o.kind = KindDeposit ->
            [Deposit |-> [txid |-> BitcoinString(o.source), colon |-> TRUE, vout |-> o.vout]]
      [] o.kind = KindMarketFunds -> [MarketFunds |-> MarketFunds(o)]
      [] o.kind = KindPayout -> [Payout |-> [hash |-> o.source, vout |-> o.vout]]

-----------------------------------------------------------------------------
(***************************************************************************)
(* The row of a coin, and what the queries and the handlers make of it.    *)
(***************************************************************************)

\* int32(v) into an INTEGER column, and uint32 of what is read from it.
Signed(v) == IF 2 * v >= MaxUint THEN v - MaxUint ELSE v
Unsigned(v) == v % MaxUint

\* The columns that insertOutputs writes.
Row(o) == [outpoint |-> Key(o), kind |-> o.kind, source_id |-> o.source, vout |-> Signed(o.vout)]

\* The outpoint that Store.coins builds from them.
FromRow(row) == OutPointOf(row.kind, row.source_id, Unsigned(row.vout))

\* Fault variant: every source in the chain's own byte order.
sourceString_Plain(o) == o.source

\* The txid of a coin in /address/{a}/utxo and in the inputs of /tx/{txid}.
sourceString(o) == IF o.kind = KindDeposit THEN BitcoinString(o.source) ELSE o.source

\* The id of a row in /txs/recent and /block/{hash}/activity; the feed has the
\* source_id of a deposit.
newActivity(row) == row.source_id

-----------------------------------------------------------------------------
VARIABLES
    wires,   \* two outputs, as the node names them
    coins    \* their rows, or NULL where the name is refused; <<>> before

outPointsVars == <<wires, coins>>

RowOf(w) == LET r == UnmarshalJSON(w) IN IF r.ok THEN Row(r.point) ELSE NULL

OutPointsInit == wires \in Wires \X Wires /\ coins = <<>>

StoreCoins ==
    /\ coins = <<>>
    /\ coins' = [i \in 1..2 |-> RowOf(wires[i])]
    /\ UNCHANGED wires

OutPointsSpec == OutPointsInit /\ [][StoreCoins]_outPointsVars

-----------------------------------------------------------------------------
\* The output that an object names: its variant, its hash in the bytes of the chain
\* it comes from, and its position.
Name(w) ==
    IF "Regular" \in DOMAIN w THEN <<"regular", w.Regular.txid, w.Regular.vout>>
    ELSE IF "Coinbase" \in DOMAIN w
         THEN <<"coinbase", coinbaseSource(w.Coinbase), w.Coinbase.vout>>
    ELSE IF "Deposit" \in DOMAIN w THEN <<"deposit", w.Deposit.txid, w.Deposit.vout>>
    ELSE IF "MarketFunds" \in DOMAIN w THEN <<"market", w.MarketFunds>>
    ELSE <<"payout", w.Payout.hash, w.Payout.vout>>

Stored == {i \in DOMAIN coins : coins[i] # NULL}

\* Two outputs share the primary key of outputs only if they are the same one: no
\* packing, byte order or number that does not fit makes ON CONFLICT DO NOTHING drop
\* a coin, or a spend mark another coin than the one it names.
KeysTellApart ==
    \A i, j \in Stored : coins[i].outpoint = coins[j].outpoint <=> Name(wires[i]) = Name(wires[j])

\* A coin that is read from its columns has the key it was written under, which is
\* what addressUTXOs compares with the keys in mempool_spends, and both reverses
\* ("OutPointFromKey reverses Key", "MarketFunds reads the fields MarketFundsOutPoint
\* packed") give the outpoint back.
ReadsBack ==
    \A i \in Stored :
        LET o == FromRow(coins[i]) IN
        /\ Key(o) = coins[i].outpoint
        /\ OutPointFromKey(coins[i].outpoint) = Read(o)
        /\ UnmarshalJSON(MarshalJSON(o)) = Read(o)

\* The txid text that the node sent for a coin that a transaction made.
SentTxid(w) == Name(w)[2]
ByTransaction == {i \in Stored : coins[i].kind # KindMarketFunds}

\* "A deposit names a mainchain txid, so it keeps mainchain byte order. Everything
\* else keeps the chain's own order" (sourceString): a client reads the txid that the
\* node wrote, whichever way its bytes are stored.
TxidKept ==
    \A i \in ByTransaction : sourceString(FromRow(coins[i])) = SentTxid(wires[i])

\* "ID is the txid. A deposit carries its mainchain txid." (Activity)
ActivityKeepsTxid ==
    \A i \in Stored : coins[i].kind \in {KindRegular, KindDeposit} =>
        newActivity(coins[i]) = SentTxid(wires[i])
=============================================================================
