------------------------------ MODULE MCPrepare -----------------------------
(***************************************************************************)
(* The blocks that Preparing runs on: every combination of a body, its     *)
(* coinbase, deposits, bundle spends and market changes.                   *)
(***************************************************************************)
EXTENDS Preparing, SequencesExt

MCDecode(content) == [ok |-> content # "bad", value |-> 1]
MCCoinbaseTxid(header) == "coinbase"

Out == [content |-> "coin"]
Bad == [content |-> "bad"]

Old(n) == OutPointOf(KindRegular, "old", n)
Fund(n) == OutPointOf(KindMarketFunds, "market", n)

T1 == [inputs |-> <<Old(0), Old(1)>>, outputs |-> <<Out, Out>>]
T2 == [inputs |-> <<OutPointOf(KindRegular, "t1", 0)>>, outputs |-> <<Out>>]
T3 == [inputs |-> <<>>, outputs |-> <<Out, Bad>>]

Entry(tx, txid, skipped) == [tx |-> tx, txid |-> txid, skipped |-> skipped]

\* A skipped T3 is never decoded; T2 spends what T1 creates before it.
Bodies == {<<>>,
           <<Entry(T1, "t1", FALSE)>>,
           <<Entry(T1, "t1", TRUE)>>,
           <<Entry(T1, "t1", FALSE), Entry(T2, "t2", FALSE)>>,
           <<Entry(T3, "t3", TRUE), Entry(T1, "t1", FALSE), Entry(T2, "t2", TRUE)>>,
           <<Entry(T1, "t1", FALSE), Entry(T3, "t3", FALSE)>>}

Coinbases == {<<>>, <<Out, Out>>, <<Out, Bad>>}

Coin(o) == [outpoint |-> o, output |-> Out]
Deposits == {<<>>, <<Coin(OutPointOf(KindDeposit, "main", 0))>>, <<Coin(Old(5))>>}

BundleSpend(o, m) == [outpoint |-> o, m6id |-> m]
Bundles == {<<>>,
            <<BundleSpend(Old(2), "m1"), BundleSpend(Old(3), "m1")>>,
            <<BundleSpend(Old(2), "m1"), BundleSpend(Old(3), "m2")>>}

\* A settlement creates a treasury, and removes an old one and the new one.
MarketChanges ==
    {[creates |-> <<>>, deletes |-> <<>>],
     [creates |-> <<Coin(Fund(0))>>, deletes |-> <<Coin(Fund(1))>>],
     [creates |-> <<Coin(Fund(0)), Coin(OutPointOf(KindPayout, "p", 0))>>,
      deletes |-> <<Coin(Fund(1)), Coin(Fund(0))>>]}

\* short: how many entries the index, or the authorizations, miss at the end.
Input(body, cb, keyed, deps, bundle, market, shortIndex, shortAuth) ==
    LET txs == [i \in DOMAIN body |-> body[i].tx]
        sigs == FoldLeft(LAMBDA n, tx : n + Len(tx.inputs), 0, txs)
    IN  [block |-> [header |-> [merkle_root |-> "root"],
                    body |-> [coinbase |-> [outputs |-> cb, keyed_by_txid |-> keyed],
                              transactions |-> txs,
                              authorizations |-> [i \in 1..(sigs - shortAuth) |-> i]]],
         index |-> [txs |-> [i \in 1..(Len(body) - shortIndex) |->
                                [txid |-> body[i].txid, skipped |-> body[i].skipped]],
                    deposits |-> deps, bundle_spends |-> bundle,
                    market_creates |-> market.creates,
                    market_deletes |-> market.deletes]]

Whole ==
    {Input(b, cb, k, d, w, m, 0, 0) :
        b \in Bodies, cb \in Coinbases, k \in BOOLEAN, d \in Deposits,
        w \in Bundles, m \in MarketChanges}

Ragged ==
    {Input(b, <<Out>>, TRUE, <<>>, <<>>, [creates |-> <<>>, deletes |-> <<>>], s, 1 - s) :
        b \in Bodies \ {<<>>}, s \in {0, 1}}

MCRawBlocks == Whole \cup Ragged

ASSUME MCRawBlocksAssumption ==
    \A r \in MCRawBlocks :
        NamesApart(r.index) /\ (Prepares(r.block, r.index) => SpentInTurn(r.block, r.index))
=============================================================================
