---------------------------- MODULE MCOutPoints ----------------------------
(***************************************************************************)
(* Names of outputs with bytes below 5 and numbers below 25: hashes that   *)
(* are not their own reverse, one of them the packing of a market, both    *)
(* ends of every number, texts of the wrong length, a deposit without a    *)
(* vout, and objects with two variants and with none.                      *)
(***************************************************************************)
EXTENDS OutPoints, TLC

Texts == {<<1, 0, 0, 0>>, <<0, 0, 0, 1>>, <<1, 2, 1, 0>>, <<4, 1, 0, 0>>, <<1, 0, 0>>}
Vouts == {0, 1, 5, 12, 13, 24, 25}
Optional == {NULL, <<1, 0, 0, 0>>, <<4, 1, 0, 0>>}

RegularNames == {[Regular |-> [txid |-> t, vout |-> v]] : t \in Texts, v \in Vouts}
CoinbaseNames ==
    {[Coinbase |-> [txid |-> t, merkle_root |-> m, vout |-> v]] :
        t \in Optional, m \in Optional, v \in {0, 24}}
DepositNames ==
    {[Deposit |-> [txid |-> t, colon |-> c, vout |-> v]] :
        t \in Texts, c \in BOOLEAN, v \in {1, 5, 25}}
MarketNames ==
    {[MarketFunds |-> [market_id |-> <<id>>, block_height |-> h, is_fee |-> f]] :
        id \in {0, 1, 4}, h \in {0, 1, 5, 24, 25}, f \in BOOLEAN}
PayoutNames == {[Payout |-> [hash |-> t, vout |-> v]] : t \in Texts, v \in {0, 24}}
TwoNames == {[Payout  |-> [hash |-> <<1, 0, 0, 0>>, vout |-> v],
              Regular |-> [txid |-> <<4, 1, 0, 0>>, vout |-> 1]] : v \in {1, 25}}
NoNames == {[x \in {} |-> 0]}

MCWires == RegularNames \cup CoinbaseNames \cup DepositNames \cup MarketNames
           \cup PayoutNames \cup TwoNames \cup NoNames
=============================================================================
