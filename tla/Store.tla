-------------------------------- MODULE Store --------------------------------
(***************************************************************************)
(* The Postgres tables of internal/store and the transactions that write   *)
(* them.  Every write of the store package runs inside one database        *)
(* transaction (Store.inTx), so each is one action here.  Two of them that *)
(* run at once on the mempool tables are the subject of module Writers.    *)
(* An operator whose comment begins with "Fault variant" is a mistake the  *)
(* code does not make; no specification uses it.                           *)
(*                                                                         *)
(* A table is a function from its primary key to its row, and a key that   *)
(* is not in the function's domain has no row.  The spent_* columns of     *)
(* outputs are the function spent, defined where they are not NULL, and    *)
(* blocks.main_height is the function main_height in the same way.         *)
(***************************************************************************)
EXTENDS Integers, FiniteSets, FiniteSetsExt, Functions

CONSTANTS
    BlockHash,   \* the blocks the node can serve
    Txid,        \* the transactions they carry
    OutPoint,    \* the coins: records [kind, source, vout] (chain.OutPoint)
    Write,       \* Write[b]: the store.Block that index.Prepare makes of b
    TxWrite,     \* TxWrite[t]: the rows prepareTx makes of t alone
    Value,       \* Value[o]: value_sats of coin o; the outpoint commits to it
    MaxHeight,   \* bound on heights; an INTEGER column holds no more than 2^31 - 1
    Clock,       \* the unix seconds time.Now can return
    NULL

Height == 0..MaxHeight

(***************************************************************************)
(* The shape of a prepared block.  spends maps each outpoint the block     *)
(* spends to the source and the kind of the spend.                         *)
(***************************************************************************)
ASSUME WriteAssumption ==
    /\ MaxHeight \in Nat
    /\ NULL \notin BlockHash
    /\ \A b \in BlockHash :
          /\ Write[b].height \in Height
          /\ Write[b].prev_hash \in BlockHash \cup {NULL}
          /\ Write[b].txs \subseteq Txid
          /\ Write[b].creates \subseteq OutPoint
          /\ DOMAIN Write[b].spends \subseteq OutPoint
    /\ \A t \in Txid : /\ TxWrite[t].creates \subseteq OutPoint
                       /\ TxWrite[t].spends \subseteq OutPoint

VARIABLES
    blocks,           \* height -> hash
    main_height,      \* height -> height of the mainchain block, where known
    txs,              \* txid -> height
    fee,              \* txid -> fee_sats
    outputs,          \* outpoint -> [height, block_hash]
    spent,            \* outpoint -> [source, kind, height]
    tip,              \* sync_state.tip_height and tip_hash
    mempool_txs,      \* txid -> first_seen
    mempool_fee,      \* txid -> fee_sats
    mempool_outputs,  \* set of outpoints
    mempool_spends    \* outpoint -> txid that spends it

chainVars == <<blocks, main_height, txs, fee, outputs, spent, tip>>
mempoolVars == <<mempool_txs, mempool_fee, mempool_outputs, mempool_spends>>
storeVars == <<chainVars, mempoolVars>>

EmptyTable == [k \in {} |-> NULL]

\* sync_state with both tip columns NULL.
NoTip == [height |-> -1, hash |-> NULL]

StoreInit ==
    /\ blocks = EmptyTable
    /\ main_height = EmptyTable
    /\ txs = EmptyTable
    /\ fee = EmptyTable
    /\ outputs = EmptyTable
    /\ spent = EmptyTable
    /\ tip = NoTip
    /\ mempool_txs = EmptyTable
    /\ mempool_fee = EmptyTable
    /\ mempool_outputs = {}
    /\ mempool_spends = EmptyTable

-----------------------------------------------------------------------------
(***************************************************************************)
(* The statements of Apply, as the tables they leave behind.               *)
(***************************************************************************)

\* INSERT INTO blocks: the primary key and the unique hash must both be free.
CanInsertBlock(b) ==
    /\ Write[b].height \notin DOMAIN blocks
    /\ \A h \in DOMAIN blocks : blocks[h] # b

insertBlock(b) ==
    [h \in DOMAIN blocks \cup {Write[b].height} |->
        IF h = Write[b].height THEN b ELSE blocks[h]]

\* Fault variant: ON CONFLICT DO UPDATE, the last block that carries it keeps it.
insertTxs_LastWins(b) ==
    [t \in DOMAIN txs \cup Write[b].txs |->
        IF t \in Write[b].txs THEN Write[b].height ELSE txs[t]]

\* ON CONFLICT (txid) DO NOTHING: the first block that carried it keeps it.
insertTxs(b) ==
    [t \in DOMAIN txs \cup Write[b].txs |->
        IF t \in DOMAIN txs THEN txs[t] ELSE Write[b].height]

\* Fault variant: ON CONFLICT DO UPDATE.
insertOutputs_LastWins(b) ==
    [o \in DOMAIN outputs \cup Write[b].creates |->
        IF o \in Write[b].creates THEN [height |-> Write[b].height, block_hash |-> b]
                                  ELSE outputs[o]]

\* ON CONFLICT (outpoint) DO NOTHING.
insertOutputs(b) ==
    [o \in DOMAIN outputs \cup Write[b].creates |->
        IF o \in DOMAIN outputs THEN outputs[o]
                                ELSE [height |-> Write[b].height, block_hash |-> b]]

\* The unique index outputs_coinbase_block_idx: no two coinbase rows of one block have
\* one vout.
CoinbaseIndex(outs) ==
    \A o, p \in DOMAIN outs :
        /\ o.kind = 1 /\ p.kind = 1 /\ o.vout = p.vout
        /\ outs[o].block_hash = outs[p].block_hash
        => o = p

\* The columns a spend at block b fills in.
SpendRow(b, o) == [source |-> Write[b].spends[o].source,
                   kind   |-> Write[b].spends[o].kind,
                   height |-> Write[b].height]

\* UPDATE outputs: a spend of a coin without a row matches nothing, and a coin
\* that is spent already is marked again.
applySpends(b, outs) ==
    LET matched == DOMAIN Write[b].spends \cap DOMAIN outs
    IN  [o \in DOMAIN spent \cup matched |->
            IF o \in matched THEN SpendRow(b, o) ELSE spent[o]]

ValueSum(coins) == MapThenSumSet(LAMBDA o : Value[o], coins)

AtLeastZero(n) == IF n < 0 THEN 0 ELSE n

\* The fee of transaction t at height h: what it spends less what it creates.
FeeAt(t, h, outs, sp) ==
    AtLeastZero(
        ValueSum({o \in DOMAIN sp : sp[o].source = t /\ sp[o].kind = 0
                                                     /\ sp[o].height = h})
      - ValueSum({o \in DOMAIN outs : o.source = t /\ o.kind = 0
                                                   /\ outs[o].height = h}))

\* Fault variant: the fees are computed before the spends are marked.
setFees_BeforeSpends(ts, h, outs, sp) ==
    [t \in DOMAIN ts |-> IF ts[t] = h THEN FeeAt(t, h, outs, spent) ELSE fee[t]]

setFees(ts, h, outs, sp) ==
    [t \in DOMAIN ts |-> IF ts[t] = h THEN FeeAt(t, h, outs, sp) ELSE fee[t]]

\* Fault variant: only the transaction rows are cleared.
clearMempool_TxsOnly(b) ==
    /\ mempool_txs' = Restrict(mempool_txs, DOMAIN mempool_txs \ Write[b].txs)
    /\ mempool_fee' = Restrict(mempool_fee, DOMAIN mempool_fee \ Write[b].txs)
    /\ UNCHANGED <<mempool_outputs, mempool_spends>>

clearMempool(b) ==
    /\ mempool_txs' = Restrict(mempool_txs, DOMAIN mempool_txs \ Write[b].txs)
    /\ mempool_fee' = Restrict(mempool_fee, DOMAIN mempool_fee \ Write[b].txs)
    /\ mempool_outputs' = mempool_outputs \ Write[b].creates
    /\ mempool_spends' = Restrict(mempool_spends,
                                  DOMAIN mempool_spends \ DOMAIN Write[b].spends)

(***************************************************************************)
(* Store.Apply.  m is the mainchain height the syncer resolved, or NULL.   *)
(***************************************************************************)
Apply(b, m) ==
    LET h == Write[b].height IN
    /\ CanInsertBlock(b)
    /\ blocks' = insertBlock(b)
    /\ main_height' = IF m = NULL THEN main_height
                      ELSE [k \in DOMAIN main_height \cup {h} |->
                               IF k = h THEN m ELSE main_height[k]]
    /\ outputs' = insertOutputs(b) /\ CoinbaseIndex(outputs')
    /\ spent' = applySpends(b, outputs')
    /\ txs' = insertTxs(b)
    /\ fee' = setFees(txs', h, outputs', spent')
    /\ clearMempool(b)
    /\ tip' = [height |-> h, hash |-> b]

(***************************************************************************)
(* Store.Rollback.  Deleting a block cascades to its transactions.         *)
(***************************************************************************)

\* Fault variant: the coins above h go, the spends above h stay.
unspendAbove_Forgotten(h) ==
    Restrict(spent, {o \in DOMAIN spent : outputs[o].height <= h})

\* UPDATE outputs ... WHERE spent_height > h; the spends of deleted coins go too.
unspendAbove(h) ==
    Restrict(spent, {o \in DOMAIN spent :
                        spent[o].height <= h /\ outputs[o].height <= h})

\* Fault variant: the tip is not recorded again.
tipAt_Stale(h) == tip

\* The re-read of the tip after the deletes.
tipAt(h) == IF h \in DOMAIN blocks THEN [height |-> h, hash |-> blocks[h]] ELSE NoTip

Rollback(h) ==
    /\ spent' = unspendAbove(h)
    /\ outputs' = Restrict(outputs, {o \in DOMAIN outputs : outputs[o].height <= h})
    /\ blocks' = Restrict(blocks, {k \in DOMAIN blocks : k <= h})
    /\ main_height' = Restrict(main_height, {k \in DOMAIN main_height : k <= h})
    /\ txs' = Restrict(txs, {t \in DOMAIN txs : txs[t] <= h})
    /\ fee' = Restrict(fee, {t \in DOMAIN txs : txs[t] <= h})
    /\ tip' = tipAt(h)
    /\ UNCHANGED mempoolVars

\* Store.SetMainHeight: an UPDATE by height, which matches nothing without a row.
SetMainHeight(h, m) ==
    /\ main_height' = IF h \in DOMAIN blocks
                      THEN [k \in DOMAIN main_height \cup {h} |->
                               IF k = h THEN m ELSE main_height[k]]
                      ELSE main_height
    /\ UNCHANGED <<blocks, txs, fee, outputs, spent, tip, mempoolVars>>

(***************************************************************************)
(* The fee setMempoolFees gives t.  A coin takes its value from outputs    *)
(* and from mempool_outputs, and from both when both hold it.              *)
(***************************************************************************)
MempoolFeeOf(t, outs, mouts, mspends) ==
    LET ins == {o \in DOMAIN mspends : mspends[o] = t}
    IN  AtLeastZero(ValueSum(ins \cap DOMAIN outs) + ValueSum(ins \cap mouts)
                    - ValueSum({o \in mouts : o.source = t /\ o.kind = 0}))

\* Fault variant: every pass stamps every transaction anew.
firstSeen_Now(t, now) == now

firstSeen(t, now) == IF t \in DOMAIN mempool_txs THEN mempool_txs[t] ELSE now

(***************************************************************************)
(* Store.ReplaceMempool with the set S of transactions list_mempool        *)
(* returned.  A transaction both snapshots hold keeps its first_seen.      *)
(***************************************************************************)
ReplaceMempool(S, now) ==
    LET taken == UNION {TxWrite[t].spends : t \in S} IN
    /\ mempool_txs' = [t \in S |-> firstSeen(t, now)]
    /\ mempool_outputs' = UNION {TxWrite[t].creates : t \in S}
    /\ mempool_spends' = [o \in taken |-> CHOOSE t \in S : o \in TxWrite[t].spends]
    /\ mempool_fee' = [t \in S |-> MempoolFeeOf(t, outputs, mempool_outputs',
                                                mempool_spends')]
    /\ UNCHANGED chainVars

-----------------------------------------------------------------------------
(***************************************************************************)
(* What the syncers ask of the store.  Syncer.Once applies heights one     *)
(* after the other, from the tip on; findFork only names heights the index *)
(* holds, below the tip or 0.  The node's mempool holds no two             *)
(* transactions that spend the same coin.                                  *)
(***************************************************************************)
ApplyNext(b) ==
    /\ Write[b].height = tip.height + 1
    /\ \E m \in {NULL, Write[b].main_height} : Apply(b, m)

RollbackHeld(h) ==
    /\ h <= tip.height
    /\ Rollback(h)

Backfill(h) ==
    /\ h \in DOMAIN blocks \ DOMAIN main_height
    /\ Write[blocks[h]].main_height # NULL
    /\ SetMainHeight(h, Write[blocks[h]].main_height)

Pools == {S \in SUBSET Txid : \A t, u \in S :
             t # u => TxWrite[t].spends \cap TxWrite[u].spends = {}}

StoreNext ==
    \/ \E b \in BlockHash : ApplyNext(b)
    \/ \E h \in Height : RollbackHeld(h)
    \/ \E h \in Height : Backfill(h)
    \/ \E S \in Pools, now \in Clock : ReplaceMempool(S, now)

StoreSpec == StoreInit /\ [][StoreNext]_storeVars

\* A node that does not reorganize during a pass hands over only children of
\* the tip, and the genesis block first.
LinkedApply(b) ==
    /\ Write[b].prev_hash = tip.hash
    /\ ApplyNext(b)

\* The chain goes on, or the mempool syncer stores a snapshot.
Grows ==
    \/ \E b \in BlockHash : LinkedApply(b)
    \/ \E S \in Pools, now \in Clock : ReplaceMempool(S, now)

LinkedNext ==
    \/ \E b \in BlockHash : LinkedApply(b)
    \/ \E h \in Height : RollbackHeld(h)
    \/ \E h \in Height : Backfill(h)
    \/ \E S \in Pools, now \in Clock : ReplaceMempool(S, now)

LinkedSpec == StoreInit /\ [][LinkedNext]_storeVars

-----------------------------------------------------------------------------
(***************************************************************************)
(* Properties of the tables, whatever block the node hands over.           *)
(***************************************************************************)

\* Every table holds keys and rows of its columns' types.
TypeOK ==
    /\ DOMAIN blocks \subseteq Height
    /\ \A h \in DOMAIN blocks : blocks[h] \in BlockHash
    /\ DOMAIN main_height \subseteq Height
    /\ DOMAIN txs \subseteq Txid
    /\ \A t \in DOMAIN txs : txs[t] \in Height
    /\ DOMAIN fee = DOMAIN txs
    /\ DOMAIN outputs \subseteq OutPoint
    /\ \A o \in DOMAIN outputs : /\ outputs[o].height \in Height
                                 /\ outputs[o].block_hash \in BlockHash
    /\ DOMAIN spent \subseteq DOMAIN outputs
    /\ \A o \in DOMAIN spent : spent[o].height \in Height
    /\ tip.height \in Height \cup {-1}
    /\ tip.hash \in BlockHash \cup {NULL}
    /\ DOMAIN mempool_txs \subseteq Txid
    /\ DOMAIN mempool_fee = DOMAIN mempool_txs
    /\ mempool_outputs \subseteq OutPoint
    /\ DOMAIN mempool_spends \subseteq OutPoint

\* The block row at height h carries what Prepare made of the block.
Held(h) == Write[blocks[h]]

\* sync_state names the highest block row, and there is a row for every height
\* up to it: setTip in Apply and the re-read in Rollback keep the two together.
TipIsTop ==
    /\ DOMAIN blocks = 0..tip.height
    /\ tip.hash = IF tip.height = -1 THEN NULL ELSE blocks[tip.height]
    /\ \A h \in DOMAIN blocks : Held(h).height = h

\* A coin has a row exactly when a block of the index creates it, and the row
\* names the first such block: insertOutputs skips a coin that has a row, and
\* Rollback deletes by height.  Two blocks of identical contents, whose coinbase an
\* older node keys on the merkle root, share their coinbase coins, and the row of
\* the second is lost (CoinbaseRowsKept says otherwise).
OutputsExact ==
    /\ \A o \in OutPoint :
          o \in DOMAIN outputs <=> \E h \in DOMAIN blocks : o \in Held(h).creates
    /\ \A o \in DOMAIN outputs :
          LET first == outputs[o].height IN
          /\ first \in DOMAIN blocks
          /\ o \in Held(first).creates
          /\ outputs[o].block_hash = blocks[first]
          /\ \A h \in DOMAIN blocks : o \in Held(h).creates => first <= h

\* "A coinbase outpoint keys on the merkle root, which two blocks with identical
\* contents would share. This catches that collision instead of losing a row": each
\* block of the index has a row for each coinbase output of its own.
CoinbaseRowsKept ==
    \A h \in DOMAIN blocks : \A o \in Held(h).creates :
        o.kind = 1 => outputs[o].block_hash = blocks[h]

\* What PrepareBlock gives: the coinbase outputs of a block name one source.
CoinbaseOfOneSource ==
    \A b \in BlockHash : \A o, p \in Write[b].creates :
        o.kind = 1 /\ p.kind = 1 => o.source = p.source

\* outputs_coinbase_block_idx refuses no row that insertOutputs may come to write: it
\* compares rows of one block, where no two coinbase rows meet.
IndexRefusesNothing ==
    \A b \in BlockHash : CanInsertBlock(b) => CoinbaseIndex(insertOutputs(b))

\* The same for transactions: insertTxs keeps the first block that carried one,
\* and deleting a block cascades to exactly its own transactions.
TxsExact ==
    /\ \A t \in Txid :
          t \in DOMAIN txs <=> \E h \in DOMAIN blocks : t \in Held(h).txs
    /\ \A t \in DOMAIN txs :
          /\ txs[t] \in DOMAIN blocks
          /\ t \in Held(txs[t]).txs
          /\ \A h \in DOMAIN blocks : t \in Held(h).txs => txs[t] <= h

\* The spent_* columns of o are those of its spend by the block at height h.
IsSpendAt(o, h) ==
    /\ o \in DOMAIN Held(h).spends
    /\ spent[o] = [source |-> Held(h).spends[o].source,
                   kind   |-> Held(h).spends[o].kind,
                   height |-> h]

\* A coin that reads as spent was spent by a block the index holds, at or above
\* the coin's own height, and the row says how that block spent it: applySpends
\* marks, and Rollback unmarks by height.
SpentSound ==
    \A o \in DOMAIN spent :
        \E h \in DOMAIN blocks : h >= outputs[o].height /\ IsSpendAt(o, h)

\* A mainchain height is recorded only for a block of the index, and it is the
\* height of the block that header names: Rollback takes it along, so a block
\* that replaces another never inherits it.
MainHeightsExact ==
    \A h \in DOMAIN main_height :
        h \in DOMAIN blocks /\ main_height[h] = Held(h).main_height

-----------------------------------------------------------------------------
(***************************************************************************)
(* Properties that need the blocks of the index to form one chain.         *)
(***************************************************************************)

\* The blocks of the index form one chain from genesis: what LinkedApply gives,
\* and Rollback keeps.
Linked ==
    \A h \in DOMAIN blocks :
        Held(h).prev_hash = IF h = 0 THEN NULL ELSE blocks[h - 1]

IsChain(c, n) ==
    \A i \in 0..n : /\ Write[c[i]].height = i
                    /\ Write[c[i]].prev_hash = IF i = 0 THEN NULL ELSE c[i - 1]

\* What the sidechain's consensus rules give: no chain spends a coin twice.
NoDoubleSpend ==
    \A n \in Height : \A c \in [0..n -> BlockHash] :
        IsChain(c, n) =>
            \A i, j \in 0..n :
                i # j => DOMAIN Write[c[i]].spends \cap DOMAIN Write[c[j]].spends = {}

\* The coins that block b takes and makes for transaction t.
SpentBy(b, t) == {o \in DOMAIN Write[b].spends : /\ Write[b].spends[o].source = t
                                                /\ Write[b].spends[o].kind = 0}
MadeBy(b, t) == {o \in Write[b].creates : o.source = t /\ o.kind = 0}

\* What prepareTx gives: the coins of transactions are those of the block's own.
CoinsOfTxs ==
    \A b \in BlockHash :
        /\ \A o \in DOMAIN Write[b].spends :
              Write[b].spends[o].kind = 0 => Write[b].spends[o].source \in Write[b].txs
        /\ \A o \in Write[b].creates : o.kind = 0 => o.source \in Write[b].txs

\* A spend of another kind is by a withdrawal bundle, whose m6id is no txid.
BundlesApart ==
    \A b \in BlockHash : \A o \in DOMAIN Write[b].spends :
        Write[b].spends[o].kind # 0 => Write[b].spends[o].source \notin Txid

\* What the consensus rules give, too: a block spends coins that its chain has made.
CoinsExist ==
    \A n \in Height : \A c \in [0..n -> BlockHash] :
        IsChain(c, n) =>
            \A i \in 0..n : \A o \in DOMAIN Write[c[i]].spends :
                \E j \in 0..i : o \in Write[c[j]].creates

\* A transaction that a chain carries again spends nothing and makes no other coins.
\* The rules give it (its coins are spent) but for a trade that an earlier block skipped.
RepeatsAddNothing ==
    \A n \in Height : \A c \in [0..n -> BlockHash] :
        IsChain(c, n) =>
            \A i, j \in 0..n : i < j =>
                \A t \in Write[c[i]].txs \cap Write[c[j]].txs :
                    SpentBy(c[j], t) = {} /\ MadeBy(c[j], t) \subseteq MadeBy(c[i], t)

\* A coin reads as spent exactly when a block of the index spends it after it
\* was created: after a rollback the spends are those of the blocks that are
\* left ("After a rollback every balance must match what it was").
SpentExact ==
    /\ SpentSound
    /\ \A o \in DOMAIN outputs :
          (\E h \in DOMAIN blocks : h >= outputs[o].height /\ o \in DOMAIN Held(h).spends)
             => o \in DOMAIN spent

\* A fee stays what the rows say: no later block and no rollback changes a coin
\* that setFees read without removing the transaction too.
FeesExact ==
    \A t \in DOMAIN txs : fee[t] = FeeAt(t, txs[t], outputs, spent)

-----------------------------------------------------------------------------
(***************************************************************************)
(* Properties of the mempool tables.                                       *)
(***************************************************************************)

\* The trades that blocks of this tree carry without effect (BlockIndex's
\* skipped), of which clearMempool finds only the transaction row.
Skipped == {t \in Txid : \E b \in BlockHash :
               /\ t \in Write[b].txs
               /\ ~(/\ TxWrite[t].creates \subseteq Write[b].creates
                    /\ TxWrite[t].spends \subseteq DOMAIN Write[b].spends)}

\* Each unconfirmed coin, and each unconfirmed spend, belongs to a transaction
\* the snapshot lists, through every block that clears a part of it; only what a
\* skipped trade leaves behind waits for the next ReplaceMempool.
MempoolOwned ==
    /\ \A o \in mempool_outputs :
          \E t \in DOMAIN mempool_txs \cup Skipped : o \in TxWrite[t].creates
    /\ \A o \in DOMAIN mempool_spends :
          mempool_spends[o] \in DOMAIN mempool_txs \cup Skipped

\* A transaction that stays in the snapshot keeps its arrival time.
FirstSeenStable ==
    [][\A t \in DOMAIN mempool_txs \cap DOMAIN mempool_txs' :
          mempool_txs'[t] = mempool_txs[t]]_mempool_txs
=============================================================================
