------------------------------- MODULE Prepare -------------------------------
(***************************************************************************)
(* internal/index/prepare.go: what one block of the node becomes in the    *)
(* index.  A block is [header, body] and its index [txs, deposits,         *)
(* bundle_spends, market_creates, market_deletes], as chain.Block and      *)
(* chain.BlockIndex have them.  An output is [content], and what a chain's *)
(* decoder makes of a content is the parameter Decode: [ok, value].        *)
(* CoinbaseTxid is the digest of a header; it tells any two headers apart. *)
(* Lists are sequences, and positions count from 0 as in the code.         *)
(***************************************************************************)
EXTENDS Kinds, Integers, Sequences, Functions

CONSTANTS Decode(_), CoinbaseTxid(_)

\* An older node keys the coinbase on the merkle root.
CoinbaseSource(block) ==
    IF block.body.coinbase.keyed_by_txid THEN CoinbaseTxid(block.header)
                                         ELSE block.header.merkle_root

newOutput(outpoint, output) ==
    [outpoint |-> outpoint, value |-> Decode(output.content).value]

Decodes(output) == Decode(output.content).ok

Spend(outpoint, source, kind, vin) ==
    [outpoint |-> outpoint, source |-> source, kind |-> kind, vin |-> vin]

\* Fault variant: every output of the list at position 0.
Numbered_AllZero(kind, source, outs) ==
    [i \in DOMAIN outs |-> newOutput(OutPointOf(kind, source, 0), outs[i])]

\* The rows of the outputs of one list, numbered by their position.
Numbered(kind, source, outs) ==
    [i \in DOMAIN outs |-> newOutput(OutPointOf(kind, source, i - 1), outs[i])]

prepareTx(txid, tx) ==
    [spends  |-> [i \in DOMAIN tx.inputs |->
                     Spend(tx.inputs[i], txid, SpendRegular, i - 1)],
     creates |-> Numbered(KindRegular, txid, tx.outputs)]

-----------------------------------------------------------------------------
\* Fault variant: a skipped trade counts like any other transaction.
BodyRows_NoSkip(block, index) ==
    [i \in DOMAIN block.body.transactions |->
        prepareTx(index.txs[i].txid, block.body.transactions[i])]

\* The rows of each transaction of the body, in body order; a trade that was
\* skipped has none.
BodyRows(block, index) ==
    [i \in DOMAIN block.body.transactions |->
        IF index.txs[i].skipped
        THEN [spends |-> <<>>, creates |-> <<>>]
        ELSE prepareTx(index.txs[i].txid, block.body.transactions[i])]

\* append in a loop: the lists one after another.
Appended(lists) ==
    LET upTo[n \in 0..Len(lists)] == IF n = 0 THEN <<>> ELSE upTo[n - 1] \o lists[n]
    IN  upTo[Len(lists)]

\* The error returns: a body and an index of different lengths, a content that
\* does not decode, a deposit under another kind of outpoint.
Prepares(block, index) ==
    /\ Len(index.txs) = Len(block.body.transactions)
    /\ \A i \in DOMAIN block.body.coinbase.outputs : Decodes(block.body.coinbase.outputs[i])
    /\ \A i \in DOMAIN index.txs :
          ~index.txs[i].skipped =>
             \A j \in DOMAIN block.body.transactions[i].outputs :
                 Decodes(block.body.transactions[i].outputs[j])
    /\ \A i \in DOMAIN index.deposits :
          index.deposits[i].outpoint.kind = KindDeposit /\ Decodes(index.deposits[i].output)
    /\ \A i \in DOMAIN index.market_creates : Decodes(index.market_creates[i].output)

Named(list) == [i \in DOMAIN list |-> newOutput(list[i].outpoint, list[i].output)]

BundleSpendRows(list) ==
    [i \in DOMAIN list |-> Spend(list[i].outpoint, list[i].m6id, SpendWithdrawal, i - 1)]

MarketDeleteRows(list, hash) ==
    [i \in DOMAIN list |-> Spend(list[i].outpoint, hash, SpendMarket, i - 1)]

\* The store.Block that Prepare returns when it returns no error.
PrepareBlock(hash, block, index) ==
    LET rows == BodyRows(block, index) IN
    [txs     |-> [i \in DOMAIN index.txs |-> index.txs[i].txid],
     creates |-> Numbered(KindCoinbase, CoinbaseSource(block), block.body.coinbase.outputs)
                 \o Appended([i \in DOMAIN rows |-> rows[i].creates])
                 \o Named(index.deposits)
                 \o Named(index.market_creates),
     spends  |-> Appended([i \in DOMAIN rows |-> rows[i].spends])
                 \o BundleSpendRows(index.bundle_spends)
                 \o MarketDeleteRows(index.market_deletes, hash)]

\* Prepare itself: an error leaves nothing to write.
Prepared(hash, block, index) ==
    IF Prepares(block, index) THEN PrepareBlock(hash, block, index)
                              ELSE [txs |-> <<>>, creates |-> <<>>, spends |-> <<>>]

\* What the store keeps of it: sets of keys, and each spend by its outpoint.
StoreBlock(height, header, p) ==
    LET RowOf(o) == CHOOSE s \in Range(p.spends) : s.outpoint = o IN
    [height      |-> height,
     prev_hash   |-> header.prev_side_hash,
     txs         |-> Range(p.txs),
     creates     |-> {c.outpoint : c \in Range(p.creates)},
     spends      |-> [o \in {s.outpoint : s \in Range(p.spends)} |->
                         [source |-> RowOf(o).source, kind |-> RowOf(o).kind]]]

\* PrepareMempool: the rows of every transaction list_mempool names.
PrepareMempool(entries) ==
    LET rows == [i \in DOMAIN entries |-> prepareTx(entries[i].txid, entries[i].tx)] IN
    [txs     |-> [i \in DOMAIN entries |-> entries[i].txid],
     creates |-> Appended([i \in DOMAIN rows |-> rows[i].creates]),
     spends  |-> Appended([i \in DOMAIN rows |-> rows[i].spends])]

-----------------------------------------------------------------------------
(***************************************************************************)
(* Body.AuthorizationsFor: the body holds one flat list of signatures, one *)
(* per input, and a transaction finds its own by counting the inputs of    *)
(* the transactions before it.                                             *)
(***************************************************************************)
InputsBefore(body, i) ==
    LET start[n \in 0..i] ==
            IF n = 0 THEN 0 ELSE start[n - 1] + Len(body.transactions[n].inputs)
    IN  start[i]

\* Fault variant: the count of the inputs before leaves the first transaction out.
AuthorizationsFor_SkipsFirst(body, i) ==
    LET n == Len(body.transactions[i + 1].inputs)
        start == InputsBefore(body, i) - (IF i = 0 THEN 0 ELSE Len(body.transactions[1].inputs))
    IN  SubSeq(body.authorizations, start + 1, start + n)

AuthorizationsFor(body, i) ==
    SubSeq(body.authorizations, InputsBefore(body, i) + 1, InputsBefore(body, i + 1))

\* The error returns of AuthorizationsFor.
HasAuthorizations(body, i) ==
    /\ i \in 0..(Len(body.transactions) - 1)
    /\ InputsBefore(body, i + 1) <= Len(body.authorizations)
=============================================================================
