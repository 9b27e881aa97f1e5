--------------------------------- MODULE Api ---------------------------------
(***************************************************************************)
(* The handlers of internal/api that run several queries for one answer,   *)
(* while the syncers write: addressUTXOs, tx, blockStatus, blockTxs,       *)
(* outspends and recentActivity.  A step of a request is one SQL statement *)
(* (the coins that blockTxs reads for each row are those of tx, and left   *)
(* to it).  What would have been right since the request came is kept      *)
(* beside it: ever holds what belonged to the answer at some moment,       *)
(* always what belonged to it at each, and rolled whether the index was    *)
(* rolled back meanwhile.                                                  *)
(***************************************************************************)
EXTENDS Reads

CONSTANT ListSize   \* activityListSize

ASSUME ApiAssumption == {PageSize, ListSize} \subseteq Nat \ {0}

VARIABLES
    route,   \* the handler that runs, or "none"
    key,     \* the address, the txid or the hash it is asked for
    step,    \* the statement that comes next
    got,     \* what the statements before it returned
    reply,   \* the answer on its way out, or NULL
    ever, always, rolled

asked == <<route, key, step, got>>
seen == <<reply, ever, always, rolled>>
apiVars == <<storeVars, asked, seen>>

ApiInit ==
    /\ StoreInit
    /\ route = "none" /\ key = NULL /\ step = "none" /\ got = NULL
    /\ reply = NULL /\ ever = {} /\ always = {} /\ rolled = FALSE

Possible(r, k) == IF r = "utxo" THEN Holdings(k) ELSE {}

Certain(r, k) ==
    CASE r = "utxo" -> UTXOs(k) \ MempoolSpentOutpoints
      [] r = "tx" -> {table \in {"txs", "mempool_txs"} :
                         k \in IF table = "txs" THEN DOMAIN txs ELSE DOMAIN mempool_txs}
      [] r = "recent" -> DOMAIN txs \cup DOMAIN mempool_txs
      [] OTHER -> {}

\* A write of the syncers, while a request runs or none does.
Beside(write, rollback) ==
    /\ reply = NULL
    /\ write
    /\ UNCHANGED <<asked, reply>>
    /\ ever' = ever \cup Possible(route, key)'
    /\ always' = always \cap Certain(route, key)'
    /\ rolled' = (rolled \/ (route # "none" /\ rollback))

Request(r, k, first) ==
    /\ route = "none" /\ reply = NULL
    /\ route' = r /\ key' = k /\ step' = first
    /\ ever' = Possible(r, k) /\ always' = Certain(r, k)
    /\ UNCHANGED <<storeVars, got, reply, rolled>>

Continue(next, result) ==
    /\ step' = next /\ got' = result
    /\ UNCHANGED <<storeVars, route, key, seen>>

Answer(result) ==
    /\ reply' = [route |-> route, body |-> result]
    /\ route' = "none" /\ step' = "none" /\ got' = NULL
    /\ UNCHANGED <<storeVars, key, ever, always, rolled>>

\* The answer is out, and what was kept for it goes.
Deliver ==
    /\ reply # NULL
    /\ key' = NULL /\ reply' = NULL /\ ever' = {} /\ always' = {} /\ rolled' = FALSE
    /\ UNCHANGED <<storeVars, route, step, got>>

-----------------------------------------------------------------------------
(***************************************************************************)
(* addressUTXOs.                                                           *)
(***************************************************************************)

\* Fault variant: the spent rows stay.
withoutSpent_Keeps(rows, keys) == rows

withoutSpent(rows, keys) == rows \ keys

ReadUTXOs ==
    /\ step = "utxos"
    /\ Continue("spent", [rows |-> UTXOs(key)])

ReadSpent ==
    /\ step = "spent"
    /\ Continue("pending", [rows |-> got.rows, keys |-> MempoolSpentOutpoints])

ReadPending ==
    /\ step = "pending"
    /\ Answer(withoutSpent(got.rows, got.keys) \cup MempoolUTXOs(key))

(***************************************************************************)
(* tx: Store.Tx, and Store.MempoolTxRow when that finds nothing.  A row    *)
(* whose block is gone by the second statement counts as not found.        *)
(***************************************************************************)
NotFound == [found |-> FALSE]
Failed == [found |-> FALSE, failed |-> TRUE]

ReadTx ==
    /\ step = "tx"
    /\ IF key \in DOMAIN txs THEN Continue("block", [height |-> txs[key]])
                             ELSE Continue("mempool_tx", NULL)

\* Fault variant: a row whose block is gone ends the request.
ReadBlock_NoFallback ==
    /\ step = "block"
    /\ IF BlockAtHeight(got.height) = NULL
       THEN Answer(NotFound)
       ELSE Continue("vin", [block |-> BlockAtHeight(got.height)])

ReadBlock ==
    /\ step = "block"
    /\ IF BlockAtHeight(got.height) = NULL
       THEN Continue("mempool_tx", NULL)
       ELSE Continue("vin", [block |-> BlockAtHeight(got.height)])

ReadVin ==
    /\ step = "vin"
    /\ Continue("vout", [block |-> got.block, vin |-> TxVin(key)])

ReadVout ==
    /\ step = "vout"
    /\ Answer([found |-> TRUE, confirmed |-> TRUE, block |-> got.block,
               vin |-> got.vin, vout |-> TxVout(key)])

ReadMempoolTx ==
    /\ step = "mempool_tx"
    /\ IF key \in DOMAIN mempool_txs THEN Continue("mempool_vin", NULL)
                                     ELSE Answer(NotFound)

ReadMempoolVin ==
    /\ step = "mempool_vin"
    /\ Continue("mempool_vout", [vin |-> MempoolVin(key)])

ReadMempoolVout ==
    /\ step = "mempool_vout"
    /\ Answer([found |-> TRUE, confirmed |-> FALSE, vin |-> got.vin,
               vout |-> MempoolVout(key)])

(***************************************************************************)
(* blockStatus and blockTxs begin with blockByHash.                        *)
(***************************************************************************)
ReadHeader ==
    /\ step = "header"
    /\ IF BlockByHash(key) = {}
       THEN Answer(NotFound)
       ELSE \E h \in BlockByHash(key) :
               Continue(IF route = "status" THEN "next_best" ELSE "txids", [height |-> h])

ReadNextBest ==
    /\ step = "next_best"
    /\ Answer([found |-> TRUE, next |-> BlockAtHeight(got.height + 1)])

\* The txids from start_index on; an index beyond the end is the end.
ReadTxids ==
    /\ step = "txids"
    /\ \E ids \in BlockTxids(key) : \E start \in 0..Len(ids) :
          Continue("row", [from |-> start, rows |-> <<>>,
                           todo |-> SubSeq(ids, start + 1, Min({start + PageSize, Len(ids)}))])

\* Store.Tx of each, its row and then its block; one that is gone fails the request.
ReadRow ==
    /\ step = "row"
    /\ IF got.todo = <<>>
       THEN Answer([found |-> TRUE, from |-> got.from, rows |-> got.rows])
       ELSE IF Head(got.todo) \in DOMAIN txs
       THEN Continue("row_block", [from |-> got.from, rows |-> got.rows, todo |-> got.todo,
                                  height |-> txs[Head(got.todo)]])
       ELSE Answer(Failed)

ReadRowBlock ==
    /\ step = "row_block"
    /\ LET row == [id |-> Head(got.todo), block |-> BlockAtHeight(got.height)] IN
       IF row.block = NULL THEN Answer(Failed)
       ELSE Continue("row", [from |-> got.from, todo |-> Tail(got.todo),
                             rows |-> Append(got.rows, row)])

(***************************************************************************)
(* outspends: the coins of a transaction, then a block for each spend.  An *)
(* unspent coin needs none, and a spend whose block is gone has no status. *)
(***************************************************************************)
ReadOutspends ==
    /\ step = "outspends"
    /\ Continue("spend", [todo |-> Outspends(key), out |-> {}])

\* Fault variant: the status is that of the coin's own block.
newOutspend_OwnBlock(c) ==
    [coin |-> c.coin, by |-> c.spend,
     block |-> IF c.spend = NULL THEN NULL ELSE BlockAtHeight(c.height)]

newOutspend(c) ==
    [coin |-> c.coin, by |-> c.spend,
     block |-> IF c.spend = NULL THEN NULL ELSE BlockAtHeight(c.spend.height)]

\* In vout order.
ReadSpend ==
    /\ step = "spend"
    /\ IF got.todo = {}
       THEN Answer(got.out)
       ELSE \E c \in got.todo :
               /\ \A d \in got.todo : c.coin.vout <= d.coin.vout
               /\ Continue("spend", [todo |-> got.todo \ {c},
                                     out |-> got.out \cup {newOutspend(c)}])

(***************************************************************************)
(* recentActivity: what the mempool holds, then the rest from the chain.   *)
(***************************************************************************)
PendingRows(n) ==
    {{[id |-> t, height |-> -1, ordinal |-> 0] : t \in S} : S \in MempoolRecent(n)}

\* Fault variant: the chain first.
RecentQuery_ChainFirst(query, n) == IF query = "recent" THEN Activity(n) ELSE PendingRows(n)

RecentQuery(query, n) == IF query = "recent" THEN PendingRows(n) ELSE Activity(n)

ReadRecent ==
    /\ step = "recent"
    /\ \E rows \in RecentQuery(step, ListSize) : Continue("feed", rows)

ReadFeed ==
    /\ step = "feed"
    /\ \E rows \in RecentQuery(step, ListSize - Cardinality(got)) : Answer(got \cup rows)

-----------------------------------------------------------------------------
RequestStep ==
    \/ \E a \in Addresses : Request("utxo", a, "utxos")
    \/ ReadUTXOs \/ ReadSpent \/ ReadPending
    \/ \E t \in Txid : Request("tx", t, "tx")
    \/ ReadTx \/ ReadBlock \/ ReadVin \/ ReadVout
    \/ ReadMempoolTx \/ ReadMempoolVin \/ ReadMempoolVout
    \/ \E b \in BlockHash : Request("status", b, "header")
    \/ \E b \in BlockHash : Request("txs", b, "header")
    \/ ReadHeader \/ ReadNextBest \/ ReadTxids \/ ReadRow \/ ReadRowBlock
    \/ \E t \in Txid : Request("outspends", t, "outspends")
    \/ ReadOutspends \/ ReadSpend
    \/ Request("recent", NULL, "recent")
    \/ ReadRecent \/ ReadFeed
    \/ Deliver

Shrinks == \E h \in Height : RollbackHeld(h)

ApiNext == RequestStep \/ Beside(Grows, FALSE) \/ Beside(Shrinks, TRUE)

ApiSpec == ApiInit /\ [][ApiNext]_apiVars

-----------------------------------------------------------------------------
Answered(r) == reply # NULL /\ reply.route = r

\* The chain only grew while the answer was put together.
AnsweredWhileGrowing(r) == Answered(r) /\ ~rolled

\* A coin that stays in the chain unspent while a request runs, and that the
\* mempool does not spend meanwhile, is in the answer of addressUTXOs, whatever
\* lands between its three queries.
SteadyCoinsListed == Answered("utxo") => always \subseteq reply.body

\* "A coin the mempool spends leaves the balance at once, rather than at the next
\* block" (addressUTXOs): a coin that is listed, though the mempool or the chain spent
\* it all through the request, was spent by a block that came between the queries.
LateOnlyByBlock ==
    AnsweredWhileGrowing("utxo") => reply.body \ ever \subseteq DOMAIN spent

\* txRow looks in txs and then in mempool_txs: a transaction that is in one of the
\* two tables all the time is found, through every rollback and every block.
SteadyTxFound == Answered("tx") /\ always # {} => reply.body.found

\* What the index holds all through a request is in the answer of addressUTXOs and
\* of tx, whatever the syncers write between their queries.
NothingSteadyLost == SteadyCoinsListed /\ SteadyTxFound

\* The four queries of Store.Tx tell of one block: when the chain only grows while
\* the request runs, the block of a mined answer carries the transaction, and its
\* coins are those that the block took and made for it.
MinedTxWhole ==
    AnsweredWhileGrowing("tx") /\ reply.body.found /\ reply.body.confirmed =>
        /\ key \in Write[reply.body.block].txs
        /\ reply.body.vin = SpentBy(reply.body.block, key)
        /\ reply.body.vout = MadeBy(reply.body.block, key)

\* The next_best of blockStatus is a child of the block that was asked for, though
\* the two are read apart.
NextBestIsChild ==
    AnsweredWhileGrowing("status") /\ reply.body.found /\ reply.body.next # NULL =>
        Write[reply.body.next].prev_hash = key

\* The transactions that block b was the first to carry, in the order of its body.
Listings(b) ==
    LET first == {t \in Range(Body[b]) : BlockAtHeight(txs[t]) = b}
    IN  {ids \in Injection(1..Cardinality(first), first) :
            \A k, l \in DOMAIN ids : k < l =>
                \E i, j \in DOMAIN Body[b] : i < j /\ Body[b][i] = ids[k] /\ Body[b][j] = ids[l]}

\* A page of blockTxs holds the transactions of the block and of no other, in body
\* order, from the index on that was asked for, and no request for one fails: the
\* list and its rows are read one after another.
PageOfBlock ==
    AnsweredWhileGrowing("txs") /\ reply.body # NotFound =>
        /\ reply.body # Failed
        /\ \A row \in Range(reply.body.rows) : row.block = key
        /\ \E ids \in Listings(key) :
              [i \in DOMAIN reply.body.rows |-> reply.body.rows[i].id] =
                  SubSeq(ids, reply.body.from + 1, Min({reply.body.from + PageSize, Len(ids)}))

\* The status of an outspend names the block that spent the coin, the way the row
\* says: newOutspend reads the block by the height of the spend.
OutspendInItsBlock ==
    AnsweredWhileGrowing("outspends") =>
        \A x \in {y \in reply.body : y.by # NULL} :
            /\ x.coin \in DOMAIN Write[x.block].spends
            /\ x.by = SpendRow(x.block, x.coin)

\* The answers of tx, blockStatus, blockTxs and outspends find a block by a height or a
\* txid that an earlier query read.  While the chain only grows they find the right one.
AnswersOfOneBlock ==
    /\ MinedTxWhole
    /\ NextBestIsChild
    /\ PageOfBlock
    /\ OutspendInItsBlock

\* /txs/recent shows each transaction that is in the index all the time, also one
\* that a block takes out of the mempool between the two queries, unless the list is
\* full: the mempool is read first.
FeedLosesNothing ==
    AnsweredWhileGrowing("recent") =>
        \/ always \subseteq {x.id : x \in reply.body}
        \/ Cardinality(reply.body) = ListSize
=============================================================================
