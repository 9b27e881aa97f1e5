------------------------------- MODULE Paging -------------------------------
(***************************************************************************)
(* A client that reads the history of an address page by page, with        *)
(* addressTxs of internal/api/address.go: the first page is /address/{a}/  *)
(* txs, and each later one /address/{a}/txs/chain/{last_seen} with the     *)
(* last txid of the page before.  A step of a request is one SQL           *)
(* statement; Store.Tx of a listed row is one step, since the pages        *)
(* compare no more of a row than its txid.  The client stops at an empty   *)
(* page and at an error.                                                   *)
(***************************************************************************)
EXTENDS Reads

ASSUME PagingAssumption == PageSize \in Nat \ {0} /\ NULL \notin Txid

VARIABLES
    walk,     \* "none", the statement of the page that comes next, or "done"
    address,
    cursor,   \* last_seen, or NULL on the first page
    before,   \* the height the page starts at
    pending,  \* the unconfirmed txids that are still to be read
    refs,     \* the rows of History that are still to be read
    page,     \* the txids of the page so far
    listed    \* the mined txids of all the pages, in the order of the answers

walkVars == <<walk, address, cursor, before, pending, refs, page, listed>>
pagingVars == <<storeVars, walkVars>>

PagingInit ==
    /\ StoreInit
    /\ walk = "none" /\ address = NULL /\ cursor = NULL /\ before = 0
    /\ pending = <<>> /\ refs = <<>> /\ page = <<>> /\ listed = <<>>

StartWalk(a) ==
    /\ walk = "none"
    /\ walk' = "start" /\ address' = a
    /\ UNCHANGED <<storeVars, pending, cursor, before, refs, page, listed>>

\* startHeight: the tip, or 0 on an empty index.
ReadStart ==
    /\ walk = "start"
    /\ before' = IF tip = NoTip THEN 0 ELSE tip.height
    /\ walk' = IF cursor = NULL THEN "history" ELSE "cursor"
    /\ UNCHANGED <<storeVars, pending, address, cursor, refs, page, listed>>

\* Fault variant: the next page starts at the block of the cursor.
below_Same(h) == h

below(h) == h - 1

\* Fault variant: a cursor that is not mined asks for the first page.
ReadCursor_FirstPage ==
    /\ walk = "cursor"
    /\ IF cursor \in DOMAIN txs
       THEN /\ walk' = IF txs[cursor] > 0 THEN "history" ELSE "done"
            /\ before' = below(txs[cursor])
            /\ UNCHANGED cursor
       ELSE walk' = "history" /\ cursor' = NULL /\ UNCHANGED before
    /\ UNCHANGED <<storeVars, pending, address, refs, page, listed>>

\* The page of a cursor at height 0 is empty; a cursor that is not mined is an error.
ReadCursor ==
    /\ walk = "cursor"
    /\ IF cursor \in DOMAIN txs /\ txs[cursor] > 0
       THEN before' = below(txs[cursor]) /\ walk' = "history"
       ELSE walk' = "done" /\ UNCHANGED before
    /\ UNCHANGED <<storeVars, pending, address, cursor, refs, page, listed>>

ReadHistory ==
    /\ walk = "history"
    /\ refs' \in History(address, before, PageSize)
    /\ walk' = IF cursor = NULL THEN "pending" ELSE "rows"
    /\ UNCHANGED <<storeVars, pending, address, cursor, before, page, listed>>

ReadPendingTxids ==
    /\ walk = "pending"
    /\ pending' \in MempoolTxidsFor(address)
    /\ walk' = "pending_rows"
    /\ UNCHANGED <<storeVars, address, cursor, before, refs, page, listed>>

\* mempoolTxs: a transaction that a block took meanwhile drops out.
ReadPendingRow ==
    /\ walk = "pending_rows"
    /\ IF pending = <<>>
       THEN walk' = "rows" /\ UNCHANGED <<pending, page>>
       ELSE /\ page' = IF Head(pending) \in DOMAIN mempool_txs
                       THEN Append(page, Head(pending)) ELSE page
            /\ pending' = Tail(pending)
            /\ UNCHANGED walk
    /\ UNCHANGED <<storeVars, address, cursor, before, refs, listed>>

\* A bundle spend names no transaction, and its row is left out.
ReadHistoryRow ==
    /\ walk = "rows" /\ refs # <<>>
    /\ IF Head(refs).id \in DOMAIN txs
       THEN page' = Append(page, Head(refs).id) /\ listed' = Append(listed, Head(refs).id)
       ELSE UNCHANGED <<page, listed>>
    /\ refs' = Tail(refs)
    /\ UNCHANGED <<storeVars, pending, walk, address, cursor, before>>

\* The answer is written, and the client asks for the page after it.
TakePage ==
    /\ walk = "rows" /\ refs = <<>>
    /\ IF page = <<>>
       THEN walk' = "done" /\ UNCHANGED cursor
       ELSE walk' = "start" /\ cursor' = page[Len(page)]
    /\ page' = <<>>
    /\ UNCHANGED <<storeVars, pending, address, before, refs, listed>>

WalkStep ==
    \/ ReadStart \/ ReadCursor \/ ReadHistory \/ ReadPendingTxids \/ ReadPendingRow
    \/ ReadHistoryRow \/ TakePage

\* The index grows all through a walk; it is rolled back only before one.  A
\* handler that runs goes on to its answer, and the client asks on.
PagingNext ==
    \/ Grows /\ UNCHANGED walkVars
    \/ walk = "none" /\ (\E h \in Height : RollbackHeld(h)) /\ UNCHANGED walkVars
    \/ \E a \in Addresses : StartWalk(a)
    \/ WalkStep

PagingSpec == PagingInit /\ [][PagingNext]_pagingVars /\ WF_pagingVars(WalkStep)

\* Nothing is written while a walk runs.
QuietSpec ==
    PagingInit /\ [][\/ walk = "none" /\ Grows /\ UNCHANGED walkVars
                     \/ \E a \in Addresses : StartWalk(a)
                     \/ WalkStep]_pagingVars

-----------------------------------------------------------------------------
\* No mined transaction is on two pages: a page starts below the block of the row
\* that the cursor names, whatever was mined since the page before.
NoRowTwice == \A i, j \in DOMAIN listed : i # j => listed[i] # listed[j]

\* A client that follows the cursor comes to the end of the history, however the
\* chain grows meanwhile.
WalkEnds == (walk # "none") ~> (walk = "done")

\* "addressTxs pages an address history, newest first. A client reads the last txid
\* of a page and passes it back to get the next one": when nothing changes
\* meanwhile, the pages together hold every mined transaction of the address.
PagesCover ==
    walk = "done" =>
        {x.id : x \in HistoryRows(address)} \cap DOMAIN txs \subseteq Range(listed)
=============================================================================
