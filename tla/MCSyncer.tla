------------------------------ MODULE MCSyncer ------------------------------
(***************************************************************************)
(* A small block tree for Syncer: genesis g, branches a and b, and, for    *)
(* the runs that need it, a second genesis block z with a child.           *)
(***************************************************************************)
EXTENDS Syncer, TLC

Coin(s) == [kind |-> 0, source |-> s, vout |-> 0]

\* g and b1 have the same contents, and an older node keys their coinbase alike.
Coinbase == [kind |-> 1, source |-> "root", vout |-> 0]

MCTxid == {"t", "u"}
MCOutPoint == {Coinbase, Coin("t"), Coin("u")}
MCValue == [o \in MCOutPoint |-> 1]
MCTxWrite == ("t" :> [creates |-> {Coin("t")}, spends |-> {Coinbase}] @@
              "u" :> [creates |-> {Coin("u")}, spends |-> {Coin("t")}])

Row(h, main, prev, ts, creates, spends) ==
    [height |-> h, prev_hash |-> prev, main_height |-> main, txs |-> ts,
     creates |-> creates, spends |-> spends]

By(t) == [source |-> t, kind |-> 0]

MCWrite ==
    ("g"  :> Row(0, 10, NULL, {}, {Coinbase}, EmptyTable) @@
     "a1" :> Row(1, 11, "g", {"t"}, {Coin("t")}, Coinbase :> By("t")) @@
     "a2" :> Row(2, 13, "a1", {"u"}, {Coin("u")}, Coin("t") :> By("u")) @@
     "b1" :> Row(1, NULL, "g", {}, {Coinbase}, EmptyTable) @@
     "b2" :> Row(2, 14, "b1", {"t"}, {Coin("t")}, Coinbase :> By("t")) @@
     "z"  :> Row(0, 9, NULL, {}, {}, EmptyTable) @@
     "z1" :> Row(1, 15, "z", {}, {}, EmptyTable))

OneGenesis == {"g", "a1", "a2", "b1", "b2"}
TwoGeneses == OneGenesis \cup {"z", "z1"}
=============================================================================
