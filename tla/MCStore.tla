------------------------------ MODULE MCStore ------------------------------
(***************************************************************************)
(* A small instance of Store, with the rows that Prepare makes of raw      *)
(* blocks: one genesis block and two branches.  Branch a and branch b      *)
(* carry the same transactions in different blocks, a1 and a2 both carry   *)
(* the input-less transaction r, b1 spends a coin it creates and carries a *)
(* skipped trade s of the coin that t1 then spends, and b2 spends a coin   *)
(* through a withdrawal bundle.                                            *)
(***************************************************************************)
EXTENDS Store, TLC

DecodeValue(content) == [ok |-> TRUE, value |-> content]
HeaderDigest(header) == header.id

P == INSTANCE Prepare WITH Decode <- DecodeValue, CoinbaseTxid <- HeaderDigest

Out(v) == [content |-> v]
Made(k, s) == P!OutPointOf(k, s, 0)

CG == Made(P!KindCoinbase, "g")
D  == Made(P!KindDeposit, "d")
T1 == Made(P!KindRegular, "t1")
T2 == Made(P!KindRegular, "t2")
R  == Made(P!KindRegular, "r")
S  == Made(P!KindRegular, "s")

MCOutPoint == {CG, D, T1, T2, R, S}
MCTxid == {"t1", "t2", "r", "s"}
MCBlockHash == {"g", "a1", "b1", "a2", "b2"}

RawTx ==
    ("t1" :> [inputs |-> <<CG>>, outputs |-> <<Out(4)>>] @@
     "t2" :> [inputs |-> <<T1>>, outputs |-> <<Out(2)>>] @@
     "r"  :> [inputs |-> <<>>,   outputs |-> <<Out(0)>>] @@
     "s"  :> [inputs |-> <<CG>>, outputs |-> <<Out(3)>>])

BlockBody(cb, ts) ==
    [coinbase     |-> [outputs |-> cb, keyed_by_txid |-> TRUE],
     transactions |-> [i \in DOMAIN ts |-> RawTx[ts[i]]]]

Raw(id, h, prev, main, body, ts, deposits, bundle) ==
    [height |-> h, main |-> main,
     block  |-> [header |-> [id |-> id, prev_side_hash |-> prev], body |-> body],
     index  |-> [txs |-> [i \in DOMAIN ts |-> [txid |-> ts[i], skipped |-> ts[i] = "s"]],
                 deposits |-> deposits, bundle_spends |-> bundle,
                 market_creates |-> <<>>, market_deletes |-> <<>>]]

Deposit == <<[outpoint |-> D, output |-> Out(3)]>>

RawBlock ==
    ("g"  :> Raw("g", 0, NULL, 10, BlockBody(<<Out(5)>>, <<>>), <<>>, <<>>, <<>>) @@
     "a1" :> Raw("a1", 1, "g", 11, BlockBody(<<>>, <<"t1", "r">>), <<"t1", "r">>, <<>>, <<>>) @@
     "b1" :> Raw("b1", 1, "g", 12, BlockBody(<<>>, <<"s", "t1", "t2">>),
                 <<"s", "t1", "t2">>, <<>>, <<>>) @@
     "a2" :> Raw("a2", 2, "a1", 13, BlockBody(<<>>, <<"t2", "r">>), <<"t2", "r">>, Deposit, <<>>) @@
     "b2" :> Raw("b2", 2, "b1", 14, BlockBody(<<>>, <<"r">>), <<"r">>, Deposit,
                 <<[outpoint |-> T2, m6id |-> "m6"]>>))

MCPrepared == [b \in MCBlockHash |-> P!PrepareBlock(b, RawBlock[b].block, RawBlock[b].index)]

MCWrite ==
    [b \in MCBlockHash |->
        P!StoreBlock(RawBlock[b].height, RawBlock[b].block.header, MCPrepared[b])
        @@ [main_height |-> RawBlock[b].main]]

MCMempoolRows ==
    [t \in MCTxid |->
        LET m == P!PrepareMempool(<<[txid |-> t, tx |-> RawTx[t]]>>) IN
        [creates |-> {c.outpoint : c \in Range(m.creates)},
         spends  |-> {s.outpoint : s \in Range(m.spends)}]]

\* TLC evaluates the rows once when the constant names a definition that it has.
MCTxWrite == [t \in MCTxid |-> MCMempoolRows[t]]

MCValue ==
    (CG :> 5 @@ D :> 3 @@ T1 :> 4 @@ T2 :> 2 @@ R :> 0 @@ S :> 3)

\* The instance has the coin values that its blocks decode to, no block fails to
\* prepare, and its chains keep to the rules that the theorems name.
ASSUME MCAssumption ==
    /\ \A b \in MCBlockHash : P!Prepares(RawBlock[b].block, RawBlock[b].index)
    /\ \A b \in MCBlockHash : \A c \in Range(MCPrepared[b].creates) :
           MCValue[c.outpoint] = c.value
    /\ NoDoubleSpend /\ CoinsOfTxs /\ BundlesApart /\ CoinsExist /\ RepeatsAddNothing
=============================================================================
