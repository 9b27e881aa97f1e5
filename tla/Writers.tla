------------------------------- MODULE Writers -------------------------------
(***************************************************************************)
(* The two transactions that write the mempool tables, statement by        *)
(* statement: Store.ReplaceMempool of the poller and clearMempool, which   *)
(* Store.Apply runs for a block.  inTx opens them at Postgres' default     *)
(* level, READ COMMITTED: a statement sees what was committed when it      *)
(* began, and its own transaction's writes.  A DELETE takes the rows it    *)
(* saw one by one.  It waits for a row that another transaction has        *)
(* deleted, passes over it once that has committed, and does not look for  *)
(* a row of the same key that came in its place.                           *)
(***************************************************************************)
EXTENDS Naturals, Sequences, FiniteSets

CONSTANTS
    Txid,        \* transactions
    Rows,        \* Rows[t]: the [table, key] that ReplaceMempool writes for t
    Bodies,      \* the blocks the node mines: the txs of each, and those it skipped
    MaxMoves,    \* bound: transactions that come to the node's mempool or leave it
    MaxBreaks,   \* bound: transactions that fail for another reason
    NULL

Writer == {"block", "poll"}
Other(w) == IF w = "block" THEN "poll" ELSE "block"
Table == {"mempool_txs", "mempool_outputs", "mempool_spends"}
TxRow(t) == [table |-> "mempool_txs", key |-> t]
KeysOf(S) == UNION {Rows[t] : t \in S}

ASSUME WritersAssumption ==
    /\ \A t \in Txid : \A r \in Rows[t] : r.table \in Table
    \* A transaction has one row in mempool_txs, under its id.
    /\ \A t \in Txid : TxRow(t) \in Rows[t]
    /\ \A t \in Txid : \A r \in Rows[t] : r.table = "mempool_txs" => r = TxRow(t)
    /\ Bodies \in Seq([txs : SUBSET Txid, skipped : SUBSET Txid])
    /\ \A i \in DOMAIN Bodies : Bodies[i].skipped \subseteq Bodies[i].txs
    /\ \A S \in SUBSET KeysOf(Txid) : NULL # S
    /\ MaxMoves \in Nat /\ MaxBreaks \in Nat

VARIABLES
    pool,       \* the node's mempool
    mined,      \* how many of Bodies the node has mined
    applied,    \* how many of them the block syncer has applied
    swept,      \* how many it had applied when a replacement last committed
    moves, faults,
    live,       \* the committed rows, each a [table, key]
    stmt,       \* the statement each writer is at; 0 while it has no transaction
    todo,       \* the rows its DELETE has still to take, NULL before it looks
    gone,       \* the rows its transaction has deleted, which it holds locked
    added,      \* the rows its transaction has inserted
    listed      \* what list_mempool returned to the poller

nodeVars == <<pool, mined, moves>>
txVars == <<stmt, todo, gone, added, listed>>
writersVars == <<nodeVars, applied, swept, faults, live, txVars>>

WritersInit ==
    /\ pool = {} /\ mined = 0 /\ applied = 0 /\ swept = 0 /\ moves = 0 /\ faults = 0
    /\ live = {} /\ listed = {}
    /\ stmt = [w \in Writer |-> 0]
    /\ todo = [w \in Writer |-> NULL]
    /\ gone = [w \in Writer |-> {}]
    /\ added = [w \in Writer |-> {}]

-----------------------------------------------------------------------------
\* A block carries a trade that failed its price limit, which spends nothing and
\* creates nothing.
Executed(i) == Bodies[i].txs \ Bodies[i].skipped

Spends(t) == {r \in Rows[t] : r.table = "mempool_spends"}

\* Transactions that spend one coin are not in the mempool together.
Compatible(S) == \A t, u \in S : t # u => Spends(t) \cap Spends(u) = {}

PoolMoves ==
    /\ moves < MaxMoves /\ moves' = moves + 1
    /\ \E t \in Txid \ UNION {Executed(i) : i \in 1..mined} :
          pool' = IF t \in pool THEN pool \ {t} ELSE pool \cup {t}
    /\ Compatible(pool')
    /\ UNCHANGED <<mined, applied, swept, faults, live, txVars>>

\* The node takes a block: what it carries or spends leaves the mempool.
NodeMines ==
    /\ mined < Len(Bodies) /\ mined' = mined + 1
    /\ pool' = {t \in pool \ Bodies[mined'].txs :
                   \A u \in Executed(mined') : Spends(t) \cap Spends(u) = {}}
    /\ UNCHANGED <<moves, applied, swept, faults, live, txVars>>

-----------------------------------------------------------------------------
Delete(table) == [do |-> "delete", table |-> table]
Insert(table) == [do |-> "insert", table |-> table]

\* Fault variant: the transaction rows go last.
clearMempool_TxsLast == <<Delete("mempool_spends"), Delete("mempool_outputs"),
                          Delete("mempool_txs")>>

clearMempool == <<Delete("mempool_txs"), Delete("mempool_outputs"),
                  Delete("mempool_spends")>>

\* Fault variant: the old spends are left to the blocks that clear them.
ReplaceMempool_NoSpends ==
    <<Delete("mempool_outputs"), Delete("mempool_txs"),
      Insert("mempool_txs"), Insert("mempool_outputs"), Insert("mempool_spends")>>

\* first_seen is read before them, and the fees come last, in an UPDATE of the rows
\* just inserted.
ReplaceMempool ==
    <<Delete("mempool_spends"), Delete("mempool_outputs"), Delete("mempool_txs"),
      Insert("mempool_txs"), Insert("mempool_outputs"), Insert("mempool_spends")>>

Plan(w) == IF w = "block" THEN clearMempool ELSE ReplaceMempool
Statement(w) == Plan(w)[stmt[w]]
Runs(w, what) == stmt[w] \in DOMAIN Plan(w) /\ Statement(w).do = what

\* The keys of a block: the ids of all its transactions, and the coins that the
\* executed ones create and spend.
Cleared(i) == {TxRow(t) : t \in Bodies[i].txs} \cup KeysOf(Executed(i))

\* Fault variant: the poller deletes only the rows that it is about to write.
Matches_Listed(w, r) ==
    /\ r.table = Statement(w).table
    /\ r \in IF w = "block" THEN Cleared(applied + 1) ELSE KeysOf(listed)

\* The WHERE clause: the keys of the block, and every row for the poller.
Matches(w, r) ==
    /\ r.table = Statement(w).table
    /\ w = "block" => r \in Cleared(applied + 1)

\* list_mempool is read before the transaction begins.
Begin(w) ==
    /\ stmt[w] = 0
    /\ w = "block" => applied < mined
    /\ stmt' = [stmt EXCEPT ![w] = 1]
    /\ listed' = IF w = "poll" THEN pool ELSE listed
    /\ UNCHANGED <<nodeVars, applied, swept, faults, live, todo, gone, added>>

Look(w) ==
    /\ Runs(w, "delete") /\ todo[w] = NULL
    /\ todo' = [todo EXCEPT ![w] = {r \in live \ gone[w] : Matches(w, r)}]
    /\ UNCHANGED <<nodeVars, applied, swept, faults, live, stmt, gone, added, listed>>

DeleteRow(w) ==
    /\ todo[w] # NULL
    /\ \E r \in todo[w] \ gone[Other(w)] :
          /\ gone' = [gone EXCEPT ![w] = @ \cup {r}]
          /\ todo' = [todo EXCEPT ![w] = @ \ {r}]
    /\ UNCHANGED <<nodeVars, applied, swept, faults, live, stmt, added, listed>>

Deleted(w) ==
    /\ todo[w] = {}
    /\ todo' = [todo EXCEPT ![w] = NULL]
    /\ stmt' = [stmt EXCEPT ![w] = @ + 1]
    /\ UNCHANGED <<nodeVars, applied, swept, faults, live, gone, added, listed>>

InsertRows(w) ==
    /\ Runs(w, "insert")
    /\ added' = [added EXCEPT ![w] =
                    @ \cup {r \in KeysOf(listed) : r.table = Statement(w).table}]
    /\ stmt' = [stmt EXCEPT ![w] = @ + 1]
    /\ UNCHANGED <<nodeVars, applied, swept, faults, live, todo, gone, listed>>

\* The transaction of w is over, and its locks with it.
Ends(w) ==
    /\ stmt' = [stmt EXCEPT ![w] = 0]
    /\ gone' = [gone EXCEPT ![w] = {}]
    /\ added' = [added EXCEPT ![w] = {}]
    /\ listed' = IF w = "poll" THEN {} ELSE listed

\* A DELETE that waits for rows of w passes over them.
Commit(w) ==
    /\ stmt[w] = Len(Plan(w)) + 1
    /\ live' = (live \ gone[w]) \cup added[w]
    /\ todo' = [todo EXCEPT ![Other(w)] = IF @ = NULL THEN NULL ELSE @ \ gone[w]]
    /\ applied' = IF w = "block" THEN applied + 1 ELSE applied
    /\ swept' = IF w = "poll" THEN applied ELSE swept
    /\ Ends(w)
    /\ UNCHANGED <<nodeVars, faults>>

Rollback(w) ==
    /\ todo' = [todo EXCEPT ![w] = NULL]
    /\ Ends(w)
    /\ UNCHANGED <<nodeVars, applied, swept, live>>

Waits(w) == todo[w] \notin {NULL, {}} /\ todo[w] \subseteq gone[Other(w)]

\* Postgres finds that the two wait for one another, and fails one of them.
Deadlock(w) ==
    /\ \A v \in Writer : Waits(v)
    /\ Rollback(w)
    /\ UNCHANGED faults

\* The connection fails or the process dies: the next pass begins anew.
Fails(w) ==
    /\ stmt[w] # 0 /\ faults < MaxBreaks
    /\ faults' = faults + 1
    /\ Rollback(w)

WriterStep(w) ==
    \/ Begin(w) \/ Look(w) \/ DeleteRow(w) \/ Deleted(w)
    \/ InsertRows(w) \/ Commit(w)

WritersNext ==
    \/ PoolMoves \/ NodeMines
    \/ \E w \in Writer : WriterStep(w) \/ Deadlock(w) \/ Fails(w)

\* Both syncers start a pass again and again.  Postgres breaks a deadlock, and a
\* transaction that waits for a row is next in the queue for it.
WritersSpec ==
    /\ WritersInit /\ [][WritersNext]_writersVars
    /\ \A w \in Writer : WF_writersVars(WriterStep(w)) /\ SF_writersVars(DeleteRow(w))
    /\ WF_writersVars(\E w \in Writer : Deadlock(w))

-----------------------------------------------------------------------------
Listed(t) == TxRow(t) \in live

\* What a transaction holds, or has still to take, is what it may hold there: only
\* the poller inserts, and no row is deleted by both.
WritersTypeOK ==
    /\ pool \subseteq Txid /\ listed \subseteq Txid
    /\ swept <= applied /\ applied <= mined /\ mined <= Len(Bodies)
    /\ \A w \in Writer : /\ stmt[w] \in 0..(Len(Plan(w)) + 1)
                         /\ gone[w] \subseteq live
                         /\ stmt[w] = 0 => todo[w] = NULL /\ gone[w] = {} /\ added[w] = {}
    /\ gone["block"] \cap gone["poll"] = {}
    /\ added["block"] = {}

\* The trades that a block has skipped since a replacement last committed.
Skipped == UNION {Bodies[i].skipped : i \in (swept + 1)..applied}

\* No reader sees an unconfirmed coin, or an unconfirmed spend, whose transaction
\* the snapshot does not list, however the statements of a block and of a
\* replacement interleave: clearMempool deletes the transaction first, and holds
\* its row until the rest is gone.  Only a trade that the block skipped loses its
\* row in mempool_txs and keeps the others, and it does so no longer than until the
\* next replacement commits.
OwnedThroughout ==
    \A r \in live : \E t \in Txid : r \in Rows[t] /\ (Listed(t) \/ t \in Skipped)

\* The INSERTs of ReplaceMempool find every key free, though a block may be deleting
\* the same rows: a key that is taken fails the pass in mempool_txs, and keeps the old
\* row without a word in the other two.
KeysFree == added["poll"] \cap (live \ gone["poll"]) = {}

\* The two come to rest on the node's mempool once the node does, unless the
\* database makes the block's transaction the victim of a deadlock for ever.
Settles ==
    \/ <>[](applied = mined /\ live = KeysOf(pool))
    \/ []<><<Deadlock("block")>>_writersVars

\* ReplaceMempool works "in a single transaction. A reader therefore never sees half
\* a snapshot": a listed transaction has all its rows.
NoHalfSnapshot == \A t \in Txid : Listed(t) => Rows[t] \subseteq live
=============================================================================
