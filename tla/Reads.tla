-------------------------------- MODULE Reads --------------------------------
(***************************************************************************)
(* The queries of internal/store (read.go, tx.go, mempool.go, activity.go).*)
(* A query is one SQL statement, so it sees the tables of one moment; a    *)
(* handler of the API runs several (modules Api and Paging).  address and  *)
(* scripthash key a query in the same way, and Owner[o] is either of coin  *)
(* o.                                                                      *)
(***************************************************************************)
EXTENDS Store, Sequences

CONSTANTS
    Owner,   \* Owner[o]: the address that coin o pays
    Rank,    \* Rank[id]: the order of the bytes of txids and m6ids
    Body,    \* Body[b]: the txids of block b in body order
    PageSize \* the confirmed transactions in one answer

\* A block is prepared from its body, which holds no transaction twice.
ASSUME ReadsAssumption ==
    /\ IsFiniteSet(OutPoint) /\ IsFiniteSet(Txid)
    /\ \A o \in OutPoint : Value[o] \in Nat
    /\ \A b \in BlockHash :
          /\ Body[b] \in Seq(Txid)
          /\ Range(Body[b]) = Write[b].txs
          /\ IsInjective(Body[b])

\* ORDER BY: the rows one after another, in any order where Precedes leaves them level.
OrderBy(rows, Precedes(_, _)) ==
    {p \in Injection(1..Cardinality(rows), rows) :
        \A i, j \in DOMAIN p : i < j => ~Precedes(p[j], p[i])}

Addresses == {Owner[o] : o \in OutPoint}

Mine(a) == {o \in DOMAIN outputs : Owner[o] = a}

SpentOf(coins) == coins \cap DOMAIN spent

\* Fault variant: only the spends by transactions count.
Stats_TxOnly(a) ==
    [funded |-> ValueSum(Mine(a)),
     spent  |-> ValueSum({o \in SpentOf(Mine(a)) : spent[o].kind = 0}),
     txs    |-> Cardinality({o.source : o \in Mine(a)})]

\* The sums and the number of transactions; the counts go with the sums.
Stats(a) ==
    [funded |-> ValueSum(Mine(a)),
     spent  |-> ValueSum(SpentOf(Mine(a))),
     txs    |-> Cardinality({o.source : o \in Mine(a)}
                            \cup {spent[o].source : o \in SpentOf(Mine(a))})]

\* JOIN blocks ON height: a coin without its block would be left out.
UTXOs(a) == {o \in Mine(a) \ DOMAIN spent : outputs[o].height \in DOMAIN blocks}

MempoolMine(a) == {o \in mempool_outputs : Owner[o] = a}

\* The coins of a that the mempool spends, from outputs and from mempool_outputs.
MempoolSpends(a) ==
    {o \in DOMAIN mempool_spends : o \in Mine(a) \/ o \in MempoolMine(a)}

\* UNION ALL: a coin that both tables hold counts twice.
MempoolStats(a) ==
    [funded |-> ValueSum(MempoolMine(a)),
     spent  |-> ValueSum(MempoolSpends(a) \cap Mine(a))
              + ValueSum(MempoolSpends(a) \cap MempoolMine(a)),
     txs    |-> Cardinality({o.source : o \in MempoolMine(a)}
                            \cup {mempool_spends[o] : o \in MempoolSpends(a)})]

MempoolSpentOutpoints == DOMAIN mempool_spends

MempoolUTXOs(a) == MempoolMine(a) \ DOMAIN mempool_spends

\* ORDER BY first_seen DESC.
MempoolTxidsFor(a) ==
    OrderBy({t \in DOMAIN mempool_txs :
                \/ \E o \in MempoolMine(a) : o.source = t
                \/ \E o \in MempoolSpends(a) : mempool_spends[o] = t},
            LAMBDA t, u : mempool_txs[t] > mempool_txs[u])

\* The rows of one address: the transactions that created a coin of it, and
\* whatever spent one.
HistoryRows(a) ==
    {[id |-> o.source, height |-> outputs[o].height] : o \in {c \in Mine(a) : c.kind = 0}}
    \cup {[id |-> spent[o].source, height |-> spent[o].height] : o \in SpentOf(Mine(a))}

\* ORDER BY height DESC, id.
Above(x, y) == x.height > y.height \/ (x.height = y.height /\ Rank[x.id] < Rank[y.id])

History(a, before, limit) ==
    {SubSeq(p, 1, Min({limit, Len(p)})) :
        p \in OrderBy({x \in HistoryRows(a) : x.height <= before}, Above)}

\* The statements of Store.Tx after the one for the row, txs[t]: its block, and the
\* coins on both sides.

BlockAtHeight(h) == IF h \in DOMAIN blocks THEN blocks[h] ELSE NULL

TxVin(t) == {o \in DOMAIN spent : spent[o].source = t /\ spent[o].kind = 0}
TxVout(t) == {o \in DOMAIN outputs : o.source = t /\ o.kind = 0}

\* Those of Store.MempoolTxRow: an input is found in either table.
MempoolVin(t) ==
    {o \in DOMAIN mempool_spends : mempool_spends[o] = t
                                 /\ (o \in DOMAIN outputs \/ o \in mempool_outputs)}
MempoolVout(t) == {o \in mempool_outputs : o.source = t /\ o.kind = 0}

\* BlockByHash: the hash of blocks is unique.
BlockByHash(b) == {h \in DOMAIN blocks : blocks[h] = b}

\* tx_index.
Ordinal(t) ==
    LET body == Body[blocks[txs[t]]] IN (CHOOSE i \in DOMAIN body : body[i] = t) - 1

\* BlockTxids: JOIN blocks ON height, in body order.
BlockTxids(b) ==
    OrderBy({t \in DOMAIN txs : BlockAtHeight(txs[t]) = b},
            LAMBDA t, u : Ordinal(t) < Ordinal(u))

\* The outputs of t, each with its spent_* columns or NULL.
Outspends(t) ==
    {[coin |-> o, height |-> outputs[o].height,
      spend |-> IF o \in DOMAIN spent THEN spent[o] ELSE NULL] : o \in TxVout(t)}

\* ORDER BY ... DESC LIMIT n, for an order that may leave rows level: the results
\* that the database may give.  newer[x] are the rows that come before x.
Newest(rows, n, newer) ==
    {S \in kSubset(Min({n, Cardinality(rows)}), rows) : \A x \in S : newer[x] \subseteq S}

MempoolRecent(n) ==
    LET rows == DOMAIN mempool_txs
    IN  Newest(rows, n, [t \in rows |-> {u \in rows : mempool_txs[u] > mempool_txs[t]}])

\* activityQuery: the transactions, and each deposit at its height after them.
Feed ==
    {x \in {[id |-> t, height |-> txs[t], ordinal |-> Ordinal(t)] : t \in DOMAIN txs}
           \cup {[id |-> o.source, height |-> outputs[o].height, ordinal |-> -1] :
                    o \in {c \in DOMAIN outputs : c.kind = 2}} :
        x.height \in DOMAIN blocks}

Activity(n) ==
    Newest(Feed, n, [x \in Feed |-> {y \in Feed : \/ y.height > x.height
                                                  \/ y.height = x.height /\ y.ordinal > x.ordinal}])

-----------------------------------------------------------------------------
\* What a holds, in one read: the coins of the chain that the mempool does not
\* spend, and its own coins of the mempool.
Holdings(a) == (UTXOs(a) \ MempoolSpentOutpoints) \cup MempoolUTXOs(a)

\* The snapshot is ahead of the chain: no coin of it is mined, and none that it
\* spends is spent there.
SnapshotAhead ==
    /\ mempool_outputs \cap DOMAIN outputs = {}
    /\ DOMAIN mempool_spends \cap DOMAIN spent = {}

\* /address and /address/utxo give an address the same balance: while the snapshot
\* is ahead of the chain, what Stats and MempoolStats fund less what they spend is
\* what the listed coins are worth.  Stats counts every coin and every kind of
\* spend; UTXOs joins blocks, and loses a coin whose block has no row.
BalancesAgree ==
    SnapshotAhead =>
        \A a \in Addresses :
            LET mined == Stats(a)
                pending == MempoolStats(a)
            IN  (mined.funded - mined.spent) + (pending.funded - pending.spent)
                    = ValueSum(Holdings(a))
=============================================================================
