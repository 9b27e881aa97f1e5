----------------------------- MODULE MCWriters -----------------------------
(***************************************************************************)
(* Three transactions: one that a block executes, one that a block skips,  *)
(* and one that competes with the first of them.                           *)
(***************************************************************************)
EXTENDS Writers, TLC

RowsOf(t, made, taken) ==
    {[table |-> "mempool_txs", key |-> t], [table |-> "mempool_outputs", key |-> made],
     [table |-> "mempool_spends", key |-> taken]}

\* u spends the coin of t, and v the coin that t spends.
MCRows == ("t" :> RowsOf("t", "ct", "c0") @@ "u" :> RowsOf("u", "cu", "ct") @@
           "v" :> RowsOf("v", "cv", "c0"))
MCPending == {"t", "u", "v"}

\* Two that no block takes rows from but the one that carries them.
MCPair == {"t", "u"}

\* The first block executes t.  The second carries u, a trade that it skips.
MCBodies == <<[txs |-> {"t"}, skipped |-> {}], [txs |-> {"u"}, skipped |-> {"u"}]>>
=============================================================================
