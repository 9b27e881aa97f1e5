--------------------------- MODULE MCMempoolSync ---------------------------
(***************************************************************************)
(* A short tree for MempoolSync: t moves the coin of genesis and u the     *)
(* coin of t; branch a mines t, branch b mines it one block later.         *)
(***************************************************************************)
EXTENDS MempoolSync, TLC

Coin(s) == [kind |-> 0, source |-> s, vout |-> 0]

MCTxid == {"t", "u"}
MCOutPoint == {Coin("c"), Coin("t"), Coin("u")}
MCValue == (Coin("c") :> 5 @@ Coin("t") :> 4 @@ Coin("u") :> 2)
MCTxWrite == ("t" :> [creates |-> {Coin("t")}, spends |-> {Coin("c")}] @@
              "u" :> [creates |-> {Coin("u")}, spends |-> {Coin("t")}])

Row(h, prev, ts) ==
    [height |-> h, prev_hash |-> prev, main_height |-> NULL, txs |-> ts,
     creates |-> IF h = 0 THEN {Coin("c")} ELSE UNION {MCTxWrite[t].creates : t \in ts},
     spends  |-> [o \in UNION {MCTxWrite[t].spends : t \in ts} |->
                     [kind |-> 0, source |-> CHOOSE t \in ts : o \in MCTxWrite[t].spends]]]

MCWrite == ("g" :> Row(0, NULL, {}) @@ "a1" :> Row(1, "g", {"t"}) @@
            "b1" :> Row(1, "g", {}) @@ "b2" :> Row(2, "b1", {"t", "u"}))

MCBlockHash == {"g", "a1", "b1", "b2"}
=============================================================================
