----------------------------- MODULE MCCoinbase -----------------------------
(***************************************************************************)
(* Three blocks of an older node, which keys a coinbase on the merkle      *)
(* root: genesis and its child e1 pay one address the same sum and carry   *)
(* nothing else, so that their merkle roots agree, and e2 spends the coin. *)
(***************************************************************************)
EXTENDS Store, TLC

DecodeValue(content) == [ok |-> TRUE, value |-> content]
HeaderDigest(header) == header.id

P == INSTANCE Prepare WITH Decode <- DecodeValue, CoinbaseTxid <- HeaderDigest

Coinbase == P!OutPointOf(P!KindCoinbase, "empty", 0)
Made == P!OutPointOf(P!KindRegular, "t", 0)
MCOutPoint == {Coinbase, Made}
MCValue == (Coinbase :> 5 @@ Made :> 4)
MCTxid == {"t"}

Move == [inputs |-> <<Coinbase>>, outputs |-> <<[content |-> 4]>>]

Raw(id, h, prev, root, outs, ts) ==
    [height |-> h,
     block  |-> [header |-> [id |-> id, prev_side_hash |-> prev, merkle_root |-> root],
                 body   |-> [coinbase     |-> [outputs |-> outs, keyed_by_txid |-> FALSE],
                             transactions |-> [i \in DOMAIN ts |-> Move]]],
     index  |-> [txs |-> [i \in DOMAIN ts |-> [txid |-> ts[i], skipped |-> FALSE]],
                 deposits |-> <<>>, bundle_spends |-> <<>>,
                 market_creates |-> <<>>, market_deletes |-> <<>>]]

Pay == <<[content |-> 5]>>

RawBlock ==
    ("e0" :> Raw("e0", 0, NULL, "empty", Pay, <<>>) @@
     "e1" :> Raw("e1", 1, "e0", "empty", Pay, <<>>) @@
     "e2" :> Raw("e2", 2, "e1", "moved", <<>>, <<"t">>))

MCBlockHash == {"e0", "e1", "e2"}

MCWrite ==
    [b \in MCBlockHash |->
        P!StoreBlock(RawBlock[b].height, RawBlock[b].block.header,
                     P!PrepareBlock(b, RawBlock[b].block, RawBlock[b].index))
        @@ [main_height |-> NULL]]

MCTxWrite == [t \in MCTxid |-> [creates |-> {Made}, spends |-> {Coinbase}]]
=============================================================================
