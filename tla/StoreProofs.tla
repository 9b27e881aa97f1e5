----------------------------- MODULE StoreProofs -----------------------------
(***************************************************************************)
(* Proofs about Store for every set of blocks, transactions and coins.     *)
(***************************************************************************)
EXTENDS Store, TLAPS, WellFoundedInduction

\* The least of two numbers.
LEMMA MinOfTwo ==
    ASSUME NEW m \in Int, NEW n \in Int
    PROVE  Min({m, n}) = IF m <= n THEN m ELSE n
<1>1. \E x \in {m, n} : \A y \in {m, n} : x <= y
  OBVIOUS
<1>2. Min({m, n}) \in {m, n} /\ \A y \in {m, n} : Min({m, n}) <= y
  BY <1>1 DEF Min
<1> QED BY <1>2

\* A set of numbers has a least one: how the inductions over data below are done.
LEMMA LeastOne ==
    ASSUME NEW T \in SUBSET Nat, T # {}
    PROVE  \E n \in T : \A m \in T : n <= m
<1>1. PICK n \in T : \A m \in T : <<m, n>> \notin OpToRel(<, Nat)
  BY WFMin, NatLessThanWellFounded
<1>2. \A m \in T : ~(m < n)
  BY <1>1 DEF OpToRel
<1> QED BY <1>2

\* What a DELETE leaves of a table: fewer keys, the same rows.
LEMMA RestrictFacts ==
    ASSUME NEW f, NEW S
    PROVE  /\ DOMAIN Restrict(f, S) = S
           /\ \A x \in S : Restrict(f, S)[x] = f[x]
BY DEF Restrict

-----------------------------------------------------------------------------
\* Type correctness of every table under every sequence of store calls.
LEMMA TypeOKInit == StoreInit => TypeOK
BY WriteAssumption DEF StoreInit, TypeOK, EmptyTable, NoTip

\* Apply keeps every table within its columns' types.
LEMMA TypeOKApply ==
    ASSUME TypeOK, NEW b \in BlockHash, NEW m, Apply(b, m)
    PROVE  TypeOK'
<1> USE WriteAssumption
<1> DEFINE h == Write[b].height
<1>1. DOMAIN blocks' \subseteq Height /\ \A k \in DOMAIN blocks' : blocks'[k] \in BlockHash
  BY DEF TypeOK, Apply, insertBlock
<1>2. DOMAIN main_height' \subseteq Height
  BY DEF TypeOK, Apply
<1>3. DOMAIN txs' \subseteq Txid /\ \A t \in DOMAIN txs' : txs'[t] \in Height
  BY DEF TypeOK, Apply, insertTxs
<1>4. DOMAIN fee' = DOMAIN txs'
  BY DEF Apply, setFees
<1>5. /\ DOMAIN outputs' \subseteq OutPoint
      /\ \A o \in DOMAIN outputs' : /\ outputs'[o].height \in Height
                                    /\ outputs'[o].block_hash \in BlockHash
  BY DEF TypeOK, Apply, insertOutputs
<1>6. DOMAIN spent' \subseteq DOMAIN outputs'
  BY DEF TypeOK, Apply, applySpends, SpendRow, insertOutputs
<1>7. \A o \in DOMAIN spent' : spent'[o].height \in Height
  BY DEF TypeOK, Apply, applySpends, SpendRow
<1>8. tip'.height \in Height \cup {-1} /\ tip'.hash \in BlockHash \cup {NULL}
  BY DEF Apply
<1>9. /\ DOMAIN mempool_txs' \subseteq Txid
      /\ DOMAIN mempool_fee' = DOMAIN mempool_txs'
      /\ mempool_outputs' \subseteq OutPoint
      /\ DOMAIN mempool_spends' \subseteq OutPoint
  BY RestrictFacts DEF TypeOK, Apply, clearMempool
<1> QED BY <1>1, <1>2, <1>3, <1>4, <1>5, <1>6, <1>7, <1>8, <1>9 DEF TypeOK

\* So does Rollback, which only removes rows.
LEMMA TypeOKRollback ==
    ASSUME TypeOK, NEW h \in Height, Rollback(h)
    PROVE  TypeOK'
<1> USE RestrictFacts
<1>1. /\ DOMAIN blocks' \subseteq Height
      /\ \A k \in DOMAIN blocks' : blocks'[k] \in BlockHash
      /\ DOMAIN main_height' \subseteq Height
  BY DEF TypeOK, Rollback, unspendAbove, tipAt
<1>2. /\ DOMAIN txs' \subseteq Txid
      /\ \A t \in DOMAIN txs' : txs'[t] \in Height
      /\ DOMAIN fee' = DOMAIN txs'
  BY DEF TypeOK, Rollback, unspendAbove, tipAt
<1>3. /\ DOMAIN outputs' \subseteq OutPoint
      /\ \A o \in DOMAIN outputs' : /\ outputs'[o].height \in Height
                                    /\ outputs'[o].block_hash \in BlockHash
  BY DEF TypeOK, Rollback, unspendAbove, tipAt
<1>4. /\ DOMAIN spent' \subseteq DOMAIN outputs'
      /\ \A o \in DOMAIN spent' : spent'[o].height \in Height
  BY DEF TypeOK, Rollback, unspendAbove, tipAt
<1>5. tip'.height \in Height \cup {-1} /\ tip'.hash \in BlockHash \cup {NULL}
  BY DEF TypeOK, Rollback, unspendAbove, tipAt, NoTip
<1>6. UNCHANGED mempoolVars
  BY DEF Rollback, unspendAbove, tipAt
<1> QED BY <1>1, <1>2, <1>3, <1>4, <1>5, <1>6 DEF TypeOK, mempoolVars

\* So does SetMainHeight, on a row that is there.
LEMMA TypeOKBackfill ==
    ASSUME TypeOK, NEW h \in Height, NEW m, SetMainHeight(h, m)
    PROVE  TypeOK'
BY DEF TypeOK, SetMainHeight, mempoolVars

\* So does ReplaceMempool, which builds its tables from TxWrite.
LEMMA TypeOKReplaceMempool ==
    ASSUME TypeOK, NEW S \in SUBSET Txid, NEW now, ReplaceMempool(S, now)
    PROVE  TypeOK'
<1>1. /\ DOMAIN mempool_txs' \subseteq Txid
      /\ DOMAIN mempool_fee' = DOMAIN mempool_txs'
      /\ mempool_outputs' \subseteq OutPoint
      /\ DOMAIN mempool_spends' \subseteq OutPoint
  BY WriteAssumption DEF ReplaceMempool, firstSeen
<1> QED BY <1>1 DEF TypeOK, ReplaceMempool, firstSeen, chainVars

\* Every store call keeps the types.
LEMMA TypeOKStep == TypeOK /\ [StoreNext]_storeVars => TypeOK'
<1> SUFFICES ASSUME TypeOK, [StoreNext]_storeVars PROVE TypeOK'
  OBVIOUS
<1>1. ASSUME NEW b \in BlockHash, ApplyNext(b) PROVE TypeOK'
  BY <1>1, TypeOKApply DEF ApplyNext
<1>2. ASSUME NEW h \in Height, RollbackHeld(h) PROVE TypeOK'
  BY <1>2, TypeOKRollback DEF RollbackHeld
<1>3. ASSUME NEW h \in Height, Backfill(h) PROVE TypeOK'
  BY <1>3, TypeOKBackfill DEF Backfill
<1>4. ASSUME NEW S \in Pools, NEW now \in Clock, ReplaceMempool(S, now) PROVE TypeOK'
  BY <1>4, TypeOKReplaceMempool DEF Pools
<1>5. CASE UNCHANGED storeVars
  BY <1>5 DEF TypeOK, storeVars, chainVars, mempoolVars
<1> QED BY <1>1, <1>2, <1>3, <1>4, <1>5 DEF StoreNext

\* TypeOK holds of every behaviour of the store, whatever blocks it is given.
THEOREM StoreTypeOK == StoreSpec => []TypeOK
BY TypeOKInit, TypeOKStep, PTL DEF StoreSpec
-----------------------------------------------------------------------------
(***************************************************************************)
(* The tables are those of the blocks the index holds.  TipIsTop is        *)
(* inductive with TypeOK; the others need it too: a new block sits above   *)
(* every row, so it can be the first to create a coin only when none of    *)
(* the blocks below creates it, and a rollback removes a top segment.      *)
(***************************************************************************)

Rows == TipIsTop /\ OutputsExact /\ TxsExact /\ SpentSound /\ MainHeightsExact

\* Empty tables hold the rows of no block.
LEMMA RowsInit == StoreInit => Rows
BY WriteAssumption
   DEF StoreInit, Rows, TipIsTop, OutputsExact, TxsExact, SpentSound,
       MainHeightsExact, EmptyTable, NoTip

\* After Apply the table of blocks holds the old blocks and b on top.
LEMMA ApplyBlocks ==
    ASSUME TypeOK, TipIsTop, NEW b \in BlockHash, NEW m,
           Write[b].height = tip.height + 1, Apply(b, m)
    PROVE  /\ DOMAIN blocks' = DOMAIN blocks \cup {Write[b].height}
           /\ Write[b].height \notin DOMAIN blocks
           /\ blocks'[Write[b].height] = b
           /\ \A k \in DOMAIN blocks : blocks'[k] = blocks[k] /\ k < Write[b].height
           /\ TipIsTop'
<1>1. /\ DOMAIN blocks' = DOMAIN blocks \cup {Write[b].height}
      /\ Write[b].height \notin DOMAIN blocks
      /\ blocks'[Write[b].height] = b
      /\ \A k \in DOMAIN blocks : blocks'[k] = blocks[k]
  BY DEF Apply, insertBlock, CanInsertBlock
<1>2. \A k \in DOMAIN blocks : k < Write[b].height
  BY WriteAssumption DEF TipIsTop, TypeOK, Height
<1>3. DOMAIN blocks' = 0..tip'.height
  BY <1>1, WriteAssumption DEF TipIsTop, TypeOK, Apply, Height
<1>4. tip'.hash = IF tip'.height = -1 THEN NULL ELSE blocks'[tip'.height]
  BY <1>1, WriteAssumption DEF Apply, Height
<1>5. \A k \in DOMAIN blocks' : Write[blocks'[k]].height = k
  BY <1>1 DEF Held, TipIsTop
<1> QED BY <1>1, <1>2, <1>3, <1>4, <1>5 DEF TipIsTop, Held

\* Apply adds to each table the rows of the block it puts on top, and no others.
LEMMA RowsApply ==
    ASSUME TypeOK, Rows, NEW b \in BlockHash, NEW m \in {NULL, Write[b].main_height},
           Write[b].height = tip.height + 1, Apply(b, m)
    PROVE  Rows'
<1> DEFINE h == Write[b].height
<1>1. /\ DOMAIN blocks' = DOMAIN blocks \cup {h}
      /\ h \notin DOMAIN blocks
      /\ blocks'[h] = b
      /\ \A k \in DOMAIN blocks : blocks'[k] = blocks[k] /\ k < h
      /\ TipIsTop'
  BY ApplyBlocks DEF Rows
<1>2. Write[blocks'[h]] = Write[b] /\ \A k \in DOMAIN blocks : Write[blocks'[k]] = Held(k)
  BY <1>1 DEF Held
<1>3. h \in Int /\ DOMAIN blocks \subseteq Int
  BY WriteAssumption DEF TypeOK, Height
<1> HIDE DEF h
<1>4. OutputsExact'
  <2>1. DOMAIN outputs' = DOMAIN outputs \cup Write[b].creates
    BY DEF Apply, insertOutputs
  <2>2. \A o \in DOMAIN outputs : outputs'[o] = outputs[o]
    BY DEF Apply, insertOutputs
  <2>3. \A o \in Write[b].creates \ DOMAIN outputs :
            outputs'[o] = [height |-> h, block_hash |-> b]
    BY DEF Apply, insertOutputs, h
  <2>4. \A o \in OutPoint :
            o \in DOMAIN outputs' <=> \E k \in DOMAIN blocks' : o \in Write[blocks'[k]].creates
    BY <1>1, <1>2, <2>1 DEF Rows, OutputsExact
  <2>5. ASSUME NEW o \in DOMAIN outputs
        PROVE  LET first == outputs'[o].height IN
               /\ first \in DOMAIN blocks'
               /\ o \in Write[blocks'[first]].creates
               /\ outputs'[o].block_hash = blocks'[first]
               /\ \A k \in DOMAIN blocks' : o \in Write[blocks'[k]].creates => first <= k
    BY <1>1, <1>2, <1>3, <2>2 DEF Rows, OutputsExact, Held
  <2>6. ASSUME NEW o \in Write[b].creates \ DOMAIN outputs
        PROVE  LET first == outputs'[o].height IN
               /\ first \in DOMAIN blocks'
               /\ o \in Write[blocks'[first]].creates
               /\ outputs'[o].block_hash = blocks'[first]
               /\ \A k \in DOMAIN blocks' : o \in Write[blocks'[k]].creates => first <= k
    <3>1. o \in OutPoint
      BY WriteAssumption
    <3>2. \A k \in DOMAIN blocks : o \notin Write[blocks'[k]].creates
      BY <1>2, <3>1 DEF Rows, OutputsExact
    <3> QED BY <1>1, <1>2, <1>3, <2>3, <3>2
  <2> QED BY <2>1, <2>4, <2>5, <2>6 DEF OutputsExact, Held
<1>5. TxsExact'
  <2>1. /\ DOMAIN txs' = DOMAIN txs \cup Write[b].txs
        /\ \A t \in DOMAIN txs : txs'[t] = txs[t]
        /\ \A t \in Write[b].txs \ DOMAIN txs : txs'[t] = h
    BY DEF Apply, insertTxs, h
  <2>2. \A t \in Txid :
            t \in DOMAIN txs' <=> \E k \in DOMAIN blocks' : t \in Write[blocks'[k]].txs
    BY <1>1, <1>2, <2>1 DEF Rows, TxsExact
  <2>3. ASSUME NEW t \in DOMAIN txs
        PROVE  /\ txs'[t] \in DOMAIN blocks'
               /\ t \in Write[blocks'[txs'[t]]].txs
               /\ \A k \in DOMAIN blocks' : t \in Write[blocks'[k]].txs => txs'[t] <= k
    BY <1>1, <1>2, <1>3, <2>1 DEF Rows, TxsExact
  <2>4. ASSUME NEW t \in Write[b].txs \ DOMAIN txs
        PROVE  /\ txs'[t] \in DOMAIN blocks'
               /\ t \in Write[blocks'[txs'[t]]].txs
               /\ \A k \in DOMAIN blocks' : t \in Write[blocks'[k]].txs => txs'[t] <= k
    <3>1. \A k \in DOMAIN blocks : t \notin Write[blocks'[k]].txs
      BY <1>2, WriteAssumption DEF Rows, TxsExact
    <3> QED BY <1>1, <1>2, <1>3, <2>1, <3>1
  <2> QED BY <2>1, <2>2, <2>3, <2>4 DEF TxsExact, Held
<1>6. SpentSound'
  <2>1. SUFFICES ASSUME NEW o \in DOMAIN spent'
                 PROVE  \E k \in DOMAIN blocks' :
                            k >= outputs'[o].height /\ IsSpendAt(o, k)'
    BY DEF SpentSound
  <2>2. DOMAIN spent \subseteq DOMAIN outputs /\ o \in DOMAIN outputs'
    BY DEF TypeOK, Apply, applySpends, SpendRow, insertOutputs
  <2>3. CASE o \in DOMAIN Write[b].spends
    <3>1. spent'[o] = [source |-> Write[b].spends[o].source,
                       kind   |-> Write[b].spends[o].kind, height |-> h]
      BY <2>2, <2>3 DEF Apply, applySpends, SpendRow, h
    <3>2. outputs'[o].height \in DOMAIN blocks'
      BY <1>4, <2>2 DEF OutputsExact
    <3>3. h >= outputs'[o].height
      BY <1>1, <1>3, <3>2
    <3> QED BY <1>1, <1>2, <2>3, <3>1, <3>3 DEF IsSpendAt, Held
  <2>4. CASE o \notin DOMAIN Write[b].spends
    <3>1. o \in DOMAIN spent /\ spent'[o] = spent[o]
      BY <2>4 DEF Apply, applySpends, SpendRow
    <3>2. outputs'[o] = outputs[o]
      BY <2>2, <3>1 DEF Apply, insertOutputs
    <3>3. PICK k \in DOMAIN blocks : k >= outputs[o].height /\ IsSpendAt(o, k)
      BY <3>1 DEF Rows, SpentSound
    <3> QED BY <1>1, <1>2, <3>1, <3>2, <3>3 DEF IsSpendAt, Held
  <2> QED BY <2>3, <2>4
<1>7. MainHeightsExact'
  BY <1>1, <1>2 DEF Rows, MainHeightsExact, Apply, Held, h
<1> QED BY <1>1, <1>4, <1>5, <1>6, <1>7 DEF Rows


\* Rollback leaves in each table the rows of the blocks that stay.
LEMMA RowsRollback ==
    ASSUME TypeOK, Rows, NEW h \in Height, h <= tip.height, Rollback(h)
    PROVE  Rows'
<1>1. /\ DOMAIN blocks' = {k \in DOMAIN blocks : k <= h}
      /\ \A k \in DOMAIN blocks' : blocks'[k] = blocks[k]
  BY RestrictFacts DEF Rollback, unspendAbove, tipAt
<1>2. h \in DOMAIN blocks /\ tip.height \in Int /\ h \in Nat
  BY WriteAssumption DEF Rows, TipIsTop, TypeOK, Height
<1>3. TipIsTop'
  <2>1. tip' = [height |-> h, hash |-> blocks[h]]
    BY <1>2 DEF Rollback, unspendAbove, tipAt
  <2>2. DOMAIN blocks' = 0..h
    BY <1>1, <1>2 DEF Rows, TipIsTop
  <2> QED BY <1>1, <1>2, <2>1, <2>2 DEF Rows, TipIsTop, Held
<1>4. /\ DOMAIN outputs' = {o \in DOMAIN outputs : outputs[o].height <= h}
      /\ \A o \in DOMAIN outputs' : outputs'[o] = outputs[o]
  BY RestrictFacts DEF Rollback, unspendAbove, tipAt
<1>5. OutputsExact'
  <2>1. ASSUME NEW o \in OutPoint
        PROVE  o \in DOMAIN outputs'
                   <=> \E k \in DOMAIN blocks' : o \in Write[blocks'[k]].creates
    <3>1. ASSUME o \in DOMAIN outputs'
          PROVE  \E k \in DOMAIN blocks' : o \in Write[blocks'[k]].creates
      BY <1>1, <1>4, <3>1 DEF Rows, OutputsExact, Held
    <3>2. ASSUME NEW k \in DOMAIN blocks', o \in Write[blocks'[k]].creates
          PROVE  o \in DOMAIN outputs'
      <4>1. k \in DOMAIN blocks /\ k <= h /\ o \in Held(k).creates /\ k \in Int
        BY <1>1, <3>2 DEF Held, TypeOK, Height
      <4>2. o \in DOMAIN outputs /\ outputs[o].height <= k /\ outputs[o].height \in Int
        BY <4>1 DEF Rows, OutputsExact, TypeOK, Height
      <4> QED BY <1>2, <1>4, <4>1, <4>2
    <3> QED BY <3>1, <3>2
  <2>2. ASSUME NEW o \in DOMAIN outputs'
        PROVE  LET first == outputs'[o].height IN
               /\ first \in DOMAIN blocks'
               /\ o \in Write[blocks'[first]].creates
               /\ outputs'[o].block_hash = blocks'[first]
               /\ \A k \in DOMAIN blocks' :
                     o \in Write[blocks'[k]].creates => first <= k
    BY <1>1, <1>4 DEF Rows, OutputsExact, Held
  <2> QED BY <2>1, <2>2 DEF OutputsExact, Held
<1>6. TxsExact'
  <2>1. /\ DOMAIN txs' = {t \in DOMAIN txs : txs[t] <= h}
        /\ \A t \in DOMAIN txs' : txs'[t] = txs[t]
    BY RestrictFacts DEF Rollback, unspendAbove, tipAt
  <2>2. ASSUME NEW t \in Txid
        PROVE  t \in DOMAIN txs'
                   <=> \E k \in DOMAIN blocks' : t \in Write[blocks'[k]].txs
    <3>1. ASSUME t \in DOMAIN txs'
          PROVE  \E k \in DOMAIN blocks' : t \in Write[blocks'[k]].txs
      BY <1>1, <2>1, <3>1 DEF Rows, TxsExact, Held
    <3>2. ASSUME NEW k \in DOMAIN blocks', t \in Write[blocks'[k]].txs
          PROVE  t \in DOMAIN txs'
      <4>1. k \in DOMAIN blocks /\ k <= h /\ t \in Held(k).txs /\ k \in Int
        BY <1>1, <3>2 DEF Held, TypeOK, Height
      <4>2. t \in DOMAIN txs /\ txs[t] <= k /\ txs[t] \in Int
        BY <4>1 DEF Rows, TxsExact, TypeOK, Height
      <4> QED BY <1>2, <2>1, <4>1, <4>2
    <3> QED BY <3>1, <3>2
  <2>3. ASSUME NEW t \in DOMAIN txs'
        PROVE  /\ txs'[t] \in DOMAIN blocks'
               /\ t \in Write[blocks'[txs'[t]]].txs
               /\ \A k \in DOMAIN blocks' : t \in Write[blocks'[k]].txs => txs'[t] <= k
    BY <1>1, <2>1 DEF Rows, TxsExact, Held
  <2> QED BY <2>2, <2>3 DEF TxsExact, Held
<1>7. SpentSound'
  <2>1. /\ DOMAIN spent' = {o \in DOMAIN spent :
                                spent[o].height <= h /\ outputs[o].height <= h}
        /\ \A o \in DOMAIN spent' : spent'[o] = spent[o]
    BY RestrictFacts DEF Rollback, unspendAbove, tipAt
  <2>2. SUFFICES ASSUME NEW o \in DOMAIN spent'
                 PROVE  \E k \in DOMAIN blocks' :
                            k >= outputs'[o].height /\ IsSpendAt(o, k)'
    BY DEF SpentSound
  <2>3. PICK k \in DOMAIN blocks : k >= outputs[o].height /\ IsSpendAt(o, k)
    BY <2>1 DEF Rows, SpentSound
  <2>4. k \in DOMAIN blocks'
    BY <1>1, <2>1, <2>3 DEF IsSpendAt
  <2>5. outputs'[o] = outputs[o]
    BY <1>4, <2>1 DEF TypeOK
  <2> QED BY <1>1, <2>1, <2>3, <2>4, <2>5 DEF IsSpendAt, Held
<1>8. MainHeightsExact'
  BY <1>1, RestrictFacts DEF Rows, MainHeightsExact, Rollback, unspendAbove, tipAt, Held
<1> QED BY <1>3, <1>5, <1>6, <1>7, <1>8 DEF Rows

\* The tables of the chain, main_height apart, fix every conjunct but one.
LEMMA RowsBackfill ==
    ASSUME Rows, NEW h \in Height, Backfill(h)
    PROVE  Rows'
<1>1. UNCHANGED <<blocks, txs, fee, outputs, spent, tip>>
  BY DEF Backfill, SetMainHeight
<1>2. MainHeightsExact'
  BY <1>1 DEF Rows, MainHeightsExact, Backfill, SetMainHeight, Held
<1> QED BY <1>1, <1>2 DEF Rows, TipIsTop, OutputsExact, TxsExact, SpentSound,
                          IsSpendAt, Held

\* ReplaceMempool leaves the chain tables alone, and so what they say.
LEMMA RowsUnchanged ==
    ASSUME Rows, UNCHANGED chainVars
    PROVE  Rows'
BY DEF Rows, TipIsTop, OutputsExact, TxsExact, SpentSound, MainHeightsExact,
       IsSpendAt, Held, chainVars

\* Every store call keeps the chain tables those of the blocks held.
LEMMA RowsStep == TypeOK /\ Rows /\ [StoreNext]_storeVars => Rows'
<1> SUFFICES ASSUME TypeOK, Rows, [StoreNext]_storeVars PROVE Rows'
  OBVIOUS
<1>1. ASSUME NEW b \in BlockHash, ApplyNext(b) PROVE Rows'
  BY <1>1, RowsApply DEF ApplyNext
<1>2. ASSUME NEW h \in Height, RollbackHeld(h) PROVE Rows'
  BY <1>2, RowsRollback DEF RollbackHeld
<1>3. ASSUME NEW h \in Height, Backfill(h) PROVE Rows'
  BY <1>3, RowsBackfill
<1>4. ASSUME NEW S \in Pools, NEW now \in Clock, ReplaceMempool(S, now) PROVE Rows'
  BY <1>4, RowsUnchanged DEF ReplaceMempool, firstSeen
<1>5. CASE UNCHANGED storeVars
  BY <1>5, RowsUnchanged DEF storeVars
<1> QED BY <1>1, <1>2, <1>3, <1>4, <1>5 DEF StoreNext

\* Through every sequence of Apply, Rollback, SetMainHeight and ReplaceMempool,
\* and whatever blocks Apply is given, the tip is the top block row, and the
\* rows of txs, outputs and main_height are those of the blocks held.
THEOREM StoreRows == StoreSpec => []Rows
<1>1. TypeOK /\ Rows /\ [StoreNext]_storeVars => TypeOK' /\ Rows'
  BY TypeOKStep, RowsStep
<1> QED BY TypeOKInit, RowsInit, <1>1, PTL DEF StoreSpec

\* The tip columns always name the highest block, with no gap below it.
THEOREM StoreTipIsTop == StoreSpec => []TipIsTop
<1>1. Rows => TipIsTop
  BY DEF Rows
<1> QED BY StoreRows, <1>1, PTL

\* outputs holds a row for a coin exactly when a held block creates it, and the row
\* names the first such block: of two blocks with one coinbase coin, the later has none.
THEOREM StoreOutputsExact == StoreSpec => []OutputsExact
<1>1. Rows => OutputsExact
  BY DEF Rows
<1> QED BY StoreRows, <1>1, PTL

\* insertOutputs: the unique index on the block and the vout of a coinbase row is never
\* in the way, so a coinbase coin that two blocks share passes it by.  An outpoint is its
\* kind, source and vout, and PrepareBlock keys the coinbase of a block on one source.
THEOREM StoreIndexRefusesNothing ==
    ASSUME CoinbaseOfOneSource,
           \A o, p \in OutPoint :
               o.kind = p.kind /\ o.source = p.source /\ o.vout = p.vout => o = p
    PROVE  StoreSpec => []IndexRefusesNothing
<1>1. ASSUME Rows, TypeOK PROVE IndexRefusesNothing
  <2> SUFFICES ASSUME NEW b \in BlockHash, CanInsertBlock(b),
                      NEW o \in DOMAIN insertOutputs(b), NEW p \in DOMAIN insertOutputs(b),
                      o.kind = 1, p.kind = 1, o.vout = p.vout,
                      insertOutputs(b)[o].block_hash = insertOutputs(b)[p].block_hash
               PROVE  o = p
    BY DEF IndexRefusesNothing, CoinbaseIndex
  <2>1. ASSUME NEW q \in DOMAIN insertOutputs(b)
        PROVE  /\ q \in OutPoint
               /\ insertOutputs(b)[q].block_hash \in BlockHash
               /\ q \in Write[insertOutputs(b)[q].block_hash].creates
    <3>1. CASE q \in DOMAIN outputs
      <4>1. insertOutputs(b)[q] = outputs[q]
        BY <2>1, <3>1 DEF insertOutputs
      <4>2. /\ outputs[q].height \in DOMAIN blocks /\ q \in Held(outputs[q].height).creates
            /\ outputs[q].block_hash = blocks[outputs[q].height]
        BY <1>1, <3>1 DEF Rows, OutputsExact
      <4> QED
        BY <1>1, <3>1, <4>1, <4>2 DEF TypeOK, Held
    <3>2. CASE q \notin DOMAIN outputs
      BY <2>1, <3>2, WriteAssumption DEF insertOutputs
    <3> QED
      BY <3>1, <3>2
  <2>2. o.source = p.source
    BY <2>1 DEF CoinbaseOfOneSource
  <2> QED
    BY <2>1, <2>2
<1> QED
  BY <1>1, StoreRows, StoreTypeOK, PTL

\* txs holds a row for a transaction exactly when a held block carries it, and
\* the row names the first such block, through every ON CONFLICT DO NOTHING and
\* every cascade of a rollback.
THEOREM StoreTxsExact == StoreSpec => []TxsExact
<1>1. Rows => TxsExact
  BY DEF Rows
<1> QED BY StoreRows, <1>1, PTL

\* A coin reads as spent only because of a held block that spends it, also where
\* the blocks handed to Apply form no chain.
THEOREM StoreSpentSound == StoreSpec => []SpentSound
<1>1. Rows => SpentSound
  BY DEF Rows
<1> QED BY StoreRows, <1>1, PTL

\* A recorded mainchain height is that of the block the row holds now.
THEOREM StoreMainHeightsExact == StoreSpec => []MainHeightsExact
<1>1. Rows => MainHeightsExact
  BY DEF Rows
<1> QED BY StoreRows, <1>1, PTL

-----------------------------------------------------------------------------
(***************************************************************************)
(* When every block applied is a child of the tip, the blocks held form a  *)
(* chain, so consensus rules out two spends of one coin among them.  That  *)
(* is what makes Rollback right: a coin has one spend to undo.             *)
(***************************************************************************)

LinkedRows == TypeOK /\ Rows /\ Linked

\* A node that hands over children of the tip only is one of those of StoreSpec.
LEMMA LinkedIsStore == LinkedNext => StoreNext
BY DEF LinkedNext, LinkedApply, StoreNext

\* Apply on a child of the tip, and Rollback, keep the blocks one chain.
LEMMA LinkedStep == LinkedRows /\ [LinkedNext]_storeVars => LinkedRows'
<1> SUFFICES ASSUME LinkedRows, [LinkedNext]_storeVars PROVE LinkedRows'
  OBVIOUS
<1>1. TypeOK' /\ Rows'
  BY LinkedIsStore, TypeOKStep, RowsStep DEF LinkedRows
<1>2. ASSUME NEW b \in BlockHash, LinkedApply(b) PROVE Linked'
  <2> DEFINE h == Write[b].height
  <2>1. /\ DOMAIN blocks' = DOMAIN blocks \cup {h}
        /\ blocks'[h] = b
        /\ \A k \in DOMAIN blocks : blocks'[k] = blocks[k] /\ k < h
    BY <1>2, ApplyBlocks DEF LinkedApply, ApplyNext, LinkedRows, Rows
  <2>2. h = tip.height + 1 /\ Write[b].prev_hash = tip.hash /\ tip.height \in Int
    BY <1>2, WriteAssumption DEF LinkedApply, ApplyNext, LinkedRows, TypeOK, Height
  <2>3. DOMAIN blocks = 0..tip.height
    BY DEF LinkedRows, Rows, TipIsTop
  <2>4. Write[blocks'[h]].prev_hash = IF h = 0 THEN NULL ELSE blocks'[h - 1]
    BY <2>1, <2>2, <2>3, WriteAssumption DEF LinkedRows, Rows, TipIsTop, Height
  <2>5. ASSUME NEW k \in DOMAIN blocks
        PROVE  Write[blocks'[k]].prev_hash = IF k = 0 THEN NULL ELSE blocks'[k - 1]
    BY <2>1, <2>2, <2>3 DEF LinkedRows, Linked, Held
  <2> QED BY <2>1, <2>4, <2>5 DEF Linked, Held
<1>3. ASSUME NEW h \in Height, RollbackHeld(h) PROVE Linked'
  <2>1. /\ DOMAIN blocks' = {k \in DOMAIN blocks : k <= h}
        /\ \A k \in DOMAIN blocks' : blocks'[k] = blocks[k]
    BY <1>3, RestrictFacts DEF RollbackHeld, Rollback, unspendAbove, tipAt
  <2>2. DOMAIN blocks = 0..tip.height /\ tip.height \in Int
    BY WriteAssumption DEF LinkedRows, Rows, TipIsTop, TypeOK, Height
  <2> QED BY <2>1, <2>2, WriteAssumption DEF LinkedRows, Linked, Held, Height
<1>4. ASSUME NEW h \in Height, Backfill(h) PROVE Linked'
  BY <1>4 DEF Backfill, SetMainHeight, LinkedRows, Linked, Held
<1>5. ASSUME NEW S \in Pools, NEW now \in Clock, ReplaceMempool(S, now) PROVE Linked'
  BY <1>5 DEF ReplaceMempool, firstSeen, chainVars, LinkedRows, Linked, Held
<1>6. CASE UNCHANGED storeVars
  <2>1. blocks' = blocks
    BY <1>6 DEF storeVars, chainVars
  <2> QED BY <1>1, <2>1 DEF LinkedRows, Linked, Held
<1> QED BY <1>1, <1>2, <1>3, <1>4, <1>5, <1>6 DEF LinkedNext, LinkedRows

\* The empty index is a chain.
LEMMA LinkedInit == StoreInit => LinkedRows
<1>1. StoreInit => Linked
  BY DEF StoreInit, Linked, EmptyTable
<1> QED BY <1>1, TypeOKInit, RowsInit DEF LinkedRows

\* Among the blocks held, at most one spends a given coin.
SpendsOnce ==
    \A h, k \in DOMAIN blocks :
        h # k => DOMAIN Held(h).spends \cap DOMAIN Held(k).spends = {}

\* The block rows are one chain of the tree, up to the tip.
LEMMA HeldChain ==
    ASSUME LinkedRows, DOMAIN blocks # {}
    PROVE  /\ tip.height \in Height /\ DOMAIN blocks = 0..tip.height
           /\ [i \in 0..tip.height |-> blocks[i]] \in [0..tip.height -> BlockHash]
           /\ IsChain([i \in 0..tip.height |-> blocks[i]], tip.height)
<1> DEFINE n == tip.height
           c == [i \in 0..n |-> blocks[i]]
<1>1. n \in Height /\ DOMAIN blocks = 0..n
  BY DEF LinkedRows, Rows, TipIsTop, TypeOK
<1>2. c \in [0..n -> BlockHash]
  BY <1>1 DEF LinkedRows, TypeOK
<1>3. ASSUME NEW i \in 0..n
      PROVE  /\ Write[c[i]].height = i
             /\ Write[c[i]].prev_hash = IF i = 0 THEN NULL ELSE c[i - 1]
  <2>1. n \in Int /\ (i # 0 => i - 1 \in 0..n)
    BY <1>1, WriteAssumption DEF Height
  <2> QED BY <1>1, <2>1 DEF LinkedRows, Rows, TipIsTop, Linked, Held
<1>4. IsChain(c, n)
  BY <1>3 DEF IsChain
<1> QED BY <1>1, <1>2, <1>4

\* In one chain no two blocks spend the same coin: NoDoubleSpend, read of the rows.
LEMMA LinkedSpendsOnce ==
    ASSUME NoDoubleSpend, LinkedRows
    PROVE  SpendsOnce
<1> DEFINE n == tip.height
           c == [i \in 0..n |-> blocks[i]]
<1>1. CASE DOMAIN blocks = {}
  BY <1>1 DEF SpendsOnce
<1>2. CASE DOMAIN blocks # {}
  <2>1. /\ n \in Height /\ DOMAIN blocks = 0..n
        /\ c \in [0..n -> BlockHash] /\ IsChain(c, n)
    BY <1>2, HeldChain
  <2>2. \A i \in DOMAIN blocks : c[i] = blocks[i]
    BY <2>1
  <2> HIDE DEF c
  <2>3. \A i, j \in 0..n :
            i # j => DOMAIN Write[c[i]].spends \cap DOMAIN Write[c[j]].spends = {}
    BY <2>1 DEF NoDoubleSpend
  <2> QED BY <2>1, <2>2, <2>3 DEF SpendsOnce, Held
<1> QED BY <1>1, <1>2

\* The same after a step.
LEMMA LinkedSpendsOnceNext ==
    ASSUME NoDoubleSpend, LinkedRows'
    PROVE  SpendsOnce'
BY LinkedSpendsOnce, PTL

\* Every store call keeps the spent columns those of the blocks held.
LEMMA SpentExactStep ==
    ASSUME NoDoubleSpend, LinkedRows, SpentExact, [LinkedNext]_storeVars
    PROVE  SpentExact'
<1>1. LinkedRows'
  BY LinkedStep
<1>2. SpentSound'
  BY <1>1 DEF LinkedRows, Rows
<1>3. ASSUME NEW b \in BlockHash, LinkedApply(b),
             NEW o \in DOMAIN outputs', NEW k \in DOMAIN blocks',
             k >= outputs'[o].height, o \in DOMAIN Write[blocks'[k]].spends
      PROVE  o \in DOMAIN spent'
  <2> DEFINE h == Write[b].height
  <2>0. PICK m : Apply(b, m)
    BY <1>3 DEF LinkedApply, ApplyNext
  <2>1. /\ DOMAIN blocks' = DOMAIN blocks \cup {h}
        /\ blocks'[h] = b
        /\ \A j \in DOMAIN blocks : blocks'[j] = blocks[j] /\ j < h
    BY <1>3, ApplyBlocks DEF LinkedApply, ApplyNext, LinkedRows, Rows
  <2>2. DOMAIN spent' = DOMAIN spent \cup (DOMAIN Write[b].spends \cap DOMAIN outputs')
    BY <2>0 DEF Apply, applySpends, SpendRow
  <2>3. CASE k = h
    BY <1>3, <2>1, <2>2, <2>3
  <2>4. CASE k \in DOMAIN blocks
    <3>1. h \in Int /\ k \in Int /\ k < h
      BY <2>1, <2>4, WriteAssumption DEF LinkedRows, TypeOK, Height
    <3>2. o \in DOMAIN outputs /\ outputs'[o] = outputs[o]
      BY <1>3, <2>0, <3>1 DEF Apply, insertOutputs
    <3>3. o \in DOMAIN spent
      BY <1>3, <2>1, <2>4, <3>2 DEF SpentExact, Held
    <3> QED BY <2>2, <3>3
  <2> QED BY <2>1, <2>3, <2>4
<1>4. ASSUME NEW h \in Height, RollbackHeld(h),
             NEW o \in DOMAIN outputs', NEW k \in DOMAIN blocks',
             k >= outputs'[o].height, o \in DOMAIN Write[blocks'[k]].spends
      PROVE  o \in DOMAIN spent'
  <2>1. /\ k \in DOMAIN blocks /\ k <= h /\ blocks'[k] = blocks[k]
        /\ o \in DOMAIN outputs /\ outputs[o].height <= h /\ outputs'[o] = outputs[o]
        /\ DOMAIN spent' = {p \in DOMAIN spent :
                                spent[p].height <= h /\ outputs[p].height <= h}
    BY <1>4, RestrictFacts DEF RollbackHeld, Rollback, unspendAbove, tipAt
  <2>2. o \in DOMAIN spent
    BY <1>4, <2>1 DEF SpentExact, Held
  <2>3. PICK j \in DOMAIN blocks : IsSpendAt(o, j)
    BY <2>2 DEF SpentExact, SpentSound
  <2>4. j = k
    BY <1>4, <2>1, <2>3, LinkedSpendsOnce DEF SpendsOnce, IsSpendAt, Held
  <2> QED BY <2>1, <2>2, <2>3, <2>4 DEF IsSpendAt
<1>5. ASSUME UNCHANGED <<blocks, outputs, spent>>
      PROVE  SpentExact'
  BY <1>5 DEF SpentExact, SpentSound, IsSpendAt, Held
<1>6. ASSUME NEW h \in Height, Backfill(h) PROVE SpentExact'
  BY <1>5, <1>6 DEF Backfill, SetMainHeight
<1>7. ASSUME NEW S \in Pools, NEW now \in Clock, ReplaceMempool(S, now) PROVE SpentExact'
  BY <1>5, <1>7 DEF ReplaceMempool, firstSeen, chainVars
<1>8. CASE UNCHANGED storeVars
  BY <1>5, <1>8 DEF storeVars, chainVars
<1>9. ASSUME NEW b \in BlockHash, LinkedApply(b) PROVE SpentExact'
  BY <1>2, <1>3, <1>9 DEF SpentExact, Held
<1>10. ASSUME NEW h \in Height, RollbackHeld(h) PROVE SpentExact'
  BY <1>2, <1>4, <1>10 DEF SpentExact, Held
<1> QED BY <1>6, <1>7, <1>8, <1>9, <1>10 DEF LinkedNext

\* When each block is a child of the tip and no chain spends a coin twice, a
\* coin reads as spent exactly when a block the index holds spends it, through
\* every sequence of blocks and rollbacks.
THEOREM LinkedSpentExact ==
    ASSUME NoDoubleSpend
    PROVE  LinkedSpec => []SpentExact
<1>1. StoreInit => SpentExact
  BY DEF StoreInit, SpentExact, SpentSound, EmptyTable
<1>2. LinkedRows /\ SpentExact /\ [LinkedNext]_storeVars => LinkedRows' /\ SpentExact'
  BY LinkedStep, SpentExactStep, NoDoubleSpend
<1> QED BY LinkedInit, <1>1, <1>2, PTL DEF LinkedSpec


\* The hypotheses on the tree, beside the shape of its blocks.
Consensus == NoDoubleSpend /\ CoinsOfTxs /\ CoinsExist /\ RepeatsAddNothing

\* The rules of the tree, read of the block rows.
LEMMA HeldRules ==
    ASSUME Consensus, LinkedRows
    PROVE  /\ \A h \in DOMAIN blocks : h \in Nat /\ blocks[h] \in BlockHash
           /\ \A h \in DOMAIN blocks : \A o \in DOMAIN Held(h).spends :
                 \E k \in DOMAIN blocks : k <= h /\ o \in Held(k).creates
           /\ \A h, k \in DOMAIN blocks : h < k =>
                 \A t \in Held(h).txs \cap Held(k).txs :
                    /\ SpentBy(blocks[k], t) = {}
                    /\ MadeBy(blocks[k], t) \subseteq MadeBy(blocks[h], t)
<1> DEFINE n == tip.height
           c == [i \in 0..n |-> blocks[i]]
<1>1. CASE DOMAIN blocks = {}
  BY <1>1
<1>2. CASE DOMAIN blocks # {}
  <2>1. /\ n \in Height /\ DOMAIN blocks = 0..n
        /\ c \in [0..n -> BlockHash] /\ IsChain(c, n)
    BY <1>2, HeldChain
  <2>2. \A i \in DOMAIN blocks : c[i] = blocks[i]
    BY <2>1
  <2> HIDE DEF c
  <2>3. n \in Nat
    BY <2>1, WriteAssumption DEF Height
  <2>4. \A i \in 0..n : \A o \in DOMAIN Write[c[i]].spends :
            \E j \in 0..i : o \in Write[c[j]].creates
    BY <2>1 DEF Consensus, CoinsExist
  <2>5. \A i, j \in 0..n : i < j =>
            \A t \in Write[c[i]].txs \cap Write[c[j]].txs :
                SpentBy(c[j], t) = {} /\ MadeBy(c[j], t) \subseteq MadeBy(c[i], t)
    BY <2>1 DEF Consensus, RepeatsAddNothing
  <2>6. \A h \in DOMAIN blocks : h \in Nat /\ blocks[h] \in BlockHash
    BY <2>1, <2>3 DEF LinkedRows, TypeOK
  <2>7. ASSUME NEW h \in DOMAIN blocks, NEW o \in DOMAIN Held(h).spends
        PROVE  \E k \in DOMAIN blocks : k <= h /\ o \in Held(k).creates
    <3>1. PICK j \in 0..h : o \in Write[c[j]].creates
      BY <2>1, <2>2, <2>4, <2>7 DEF Held
    <3>2. j \in DOMAIN blocks /\ j <= h
      BY <2>1, <2>3
    <3> QED BY <2>2, <3>1, <3>2 DEF Held
  <2>8. ASSUME NEW h \in DOMAIN blocks, NEW k \in DOMAIN blocks, h < k,
               NEW t \in Held(h).txs \cap Held(k).txs
        PROVE  /\ SpentBy(blocks[k], t) = {}
               /\ MadeBy(blocks[k], t) \subseteq MadeBy(blocks[h], t)
    BY <2>1, <2>2, <2>5, <2>8 DEF Held
  <2> QED BY <2>6, <2>7, <2>8
<1> QED BY <1>1, <1>2

\* A coin that a mined transaction made or took has the height of the transaction.
LEMMA CoinsAtTheirTx ==
    ASSUME Consensus, LinkedRows
    PROVE  /\ \A o \in DOMAIN outputs : o.kind = 0 =>
                 o.source \in DOMAIN txs /\ outputs[o].height = txs[o.source]
           /\ \A o \in DOMAIN spent : spent[o].kind = 0 =>
                 spent[o].source \in DOMAIN txs /\ spent[o].height = txs[spent[o].source]
<1>1. /\ \A h \in DOMAIN blocks : h \in Nat /\ blocks[h] \in BlockHash
      /\ \A h \in DOMAIN blocks : Held(h).txs \subseteq Txid
  BY HeldRules, WriteAssumption DEF Held
<1>2. ASSUME NEW h \in DOMAIN blocks, NEW t \in Held(h).txs
      PROVE  /\ t \in DOMAIN txs /\ txs[t] \in DOMAIN blocks /\ t \in Held(txs[t]).txs
             /\ txs[t] <= h
  BY <1>1, <1>2 DEF LinkedRows, Rows, TxsExact
<1>3. ASSUME NEW o \in DOMAIN outputs, o.kind = 0
      PROVE  o.source \in DOMAIN txs /\ outputs[o].height = txs[o.source]
  <2> DEFINE h == outputs[o].height
             k == txs[o.source]
  <2>1. /\ h \in DOMAIN blocks /\ o \in Held(h).creates
        /\ \A j \in DOMAIN blocks : o \in Held(j).creates => h <= j
    BY <1>3 DEF LinkedRows, Rows, OutputsExact
  <2>2. o.source \in Held(h).txs
    BY <1>1, <1>3, <2>1 DEF Consensus, CoinsOfTxs, Held
  <2>3. o.source \in DOMAIN txs /\ k \in DOMAIN blocks /\ o.source \in Held(k).txs /\ k <= h
    BY <1>2, <2>1, <2>2
  <2>4. CASE k < h
    <3>1. MadeBy(blocks[h], o.source) \subseteq MadeBy(blocks[k], o.source)
      BY <2>1, <2>2, <2>3, <2>4, HeldRules
    <3>2. o \in Held(k).creates
      BY <1>3, <2>1, <3>1 DEF MadeBy, Held
    <3> QED BY <1>1, <2>1, <2>3, <2>4, <3>2
  <2> QED BY <1>1, <2>1, <2>3, <2>4
<1>4. ASSUME NEW o \in DOMAIN spent, spent[o].kind = 0
      PROVE  spent[o].source \in DOMAIN txs /\ spent[o].height = txs[spent[o].source]
  <2> DEFINE t == spent[o].source
             k == txs[t]
  <2>1. PICK h \in DOMAIN blocks : IsSpendAt(o, h)
    BY <1>4 DEF LinkedRows, Rows, SpentSound
  <2>2. spent[o].height = h /\ o \in SpentBy(blocks[h], t)
    BY <1>4, <2>1 DEF IsSpendAt, Held, SpentBy
  <2>3. t \in Held(h).txs
    BY <1>1, <2>1, <2>2 DEF Consensus, CoinsOfTxs, SpentBy, Held
  <2> HIDE DEF t
  <2>4. t \in DOMAIN txs /\ k \in DOMAIN blocks /\ t \in Held(k).txs /\ k <= h
    BY <1>2, <2>1, <2>3
  <2>5. ~(k < h)
    BY <2>1, <2>2, <2>3, <2>4, HeldRules
  <2> QED BY <1>1, <2>1, <2>2, <2>4, <2>5 DEF t
<1> QED BY <1>3, <1>4

\* While the chain grows, no row of the chain goes away or changes, but for a coin
\* that is spent.
LEMMA GrowsKeeps ==
    ASSUME Grows
    PROVE  /\ DOMAIN blocks \subseteq DOMAIN blocks'
           /\ \A h \in DOMAIN blocks : blocks'[h] = blocks[h]
           /\ DOMAIN txs \subseteq DOMAIN txs'
           /\ \A t \in DOMAIN txs : txs'[t] = txs[t]
           /\ DOMAIN outputs \subseteq DOMAIN outputs'
           /\ \A o \in DOMAIN outputs : outputs'[o] = outputs[o]
           /\ DOMAIN spent \subseteq DOMAIN spent'
<1>1. ASSUME NEW b \in BlockHash, NEW m, Apply(b, m)
      PROVE  /\ DOMAIN blocks \subseteq DOMAIN blocks'
             /\ \A h \in DOMAIN blocks : blocks'[h] = blocks[h]
  BY <1>1 DEF Apply, CanInsertBlock, insertBlock
<1>2. ASSUME NEW b \in BlockHash, NEW m, Apply(b, m)
      PROVE  /\ DOMAIN txs \subseteq DOMAIN txs'
             /\ \A t \in DOMAIN txs : txs'[t] = txs[t]
  BY <1>2 DEF Apply, insertTxs
<1>3. ASSUME NEW b \in BlockHash, NEW m, Apply(b, m)
      PROVE  /\ DOMAIN outputs \subseteq DOMAIN outputs'
             /\ \A o \in DOMAIN outputs : outputs'[o] = outputs[o]
  BY <1>3 DEF Apply, insertOutputs
<1>4. ASSUME NEW b \in BlockHash, NEW m, Apply(b, m)
      PROVE  DOMAIN spent \subseteq DOMAIN spent'
  BY <1>4 DEF Apply, applySpends
<1>5. ASSUME NEW X, NEW now, ReplaceMempool(X, now)
      PROVE  UNCHANGED <<blocks, txs, outputs, spent>>
  BY <1>5 DEF ReplaceMempool, chainVars
<1>6. CASE \E b \in BlockHash : LinkedApply(b)
  BY <1>1, <1>2, <1>3, <1>4, <1>6 DEF LinkedApply, ApplyNext
<1>7. CASE \E X \in Pools, now \in Clock : ReplaceMempool(X, now)
  BY <1>5, <1>7
<1> QED BY <1>6, <1>7 DEF Grows

\* A fee depends only on the coins its transaction spends and creates at its
\* own height.
LEMMA FeeAtSame ==
    ASSUME NEW t, NEW h, NEW outs1, NEW outs2, NEW sp1, NEW sp2,
           \A o : (o \in DOMAIN sp1 /\ sp1[o].source = t /\ sp1[o].kind = 0
                                    /\ sp1[o].height = h)
              <=> (o \in DOMAIN sp2 /\ sp2[o].source = t /\ sp2[o].kind = 0
                                    /\ sp2[o].height = h),
           \A o : (o \in DOMAIN outs1 /\ outs1[o].height = h)
              <=> (o \in DOMAIN outs2 /\ outs2[o].height = h)
    PROVE  FeeAt(t, h, outs1, sp1) = FeeAt(t, h, outs2, sp2)
<1>1. {o \in DOMAIN sp1 : sp1[o].source = t /\ sp1[o].kind = 0 /\ sp1[o].height = h}
    = {o \in DOMAIN sp2 : sp2[o].source = t /\ sp2[o].kind = 0 /\ sp2[o].height = h}
  OBVIOUS
<1>2. {o \in DOMAIN outs1 : o.source = t /\ o.kind = 0 /\ outs1[o].height = h}
    = {o \in DOMAIN outs2 : o.source = t /\ o.kind = 0 /\ outs2[o].height = h}
  OBVIOUS
<1> QED BY <1>1, <1>2 DEF FeeAt

\* Every store call keeps each stored fee equal to what its coins give.
LEMMA FeesExactStep ==
    ASSUME NoDoubleSpend, LinkedRows, FeesExact, [LinkedNext]_storeVars
    PROVE  FeesExact'
<1>1. LinkedRows'
  BY LinkedStep
<1>2. ASSUME NEW b \in BlockHash, LinkedApply(b), NEW t \in DOMAIN txs'
      PROVE  fee'[t] = FeeAt(t, txs'[t], outputs', spent')
  <2> DEFINE h == Write[b].height
  <2>1. PICK m : Apply(b, m)
    BY <1>2 DEF LinkedApply, ApplyNext
  <2>2. /\ DOMAIN blocks' = DOMAIN blocks \cup {h}
        /\ h \notin DOMAIN blocks
        /\ blocks'[h] = b
        /\ \A j \in DOMAIN blocks : blocks'[j] = blocks[j] /\ j < h
    BY <1>2, ApplyBlocks DEF LinkedApply, ApplyNext, LinkedRows, Rows
  <2>3. CASE txs'[t] = h
    BY <2>1, <2>3 DEF Apply, setFees
  <2>4. CASE txs'[t] # h
    <3> DEFINE g == txs[t]
    <3>1. t \in DOMAIN txs /\ txs'[t] = g /\ fee'[t] = fee[t] /\ g # h
      BY <2>1, <2>4 DEF Apply, insertTxs, setFees
    <3>2. g \in DOMAIN blocks
      BY <3>1 DEF LinkedRows, Rows, TxsExact
    <3> HIDE DEF g
    <3>3. ASSUME NEW o
          PROVE  (o \in DOMAIN outputs /\ outputs[o].height = g)
             <=> (o \in DOMAIN outputs' /\ outputs'[o].height = g)
      BY <2>1, <3>1 DEF Apply, insertOutputs
    <3>4. ASSUME NEW o
          PROVE  (o \in DOMAIN spent /\ spent[o].height = g)
             <=> (o \in DOMAIN spent' /\ spent'[o].height = g)
      <4>1. CASE o \in DOMAIN Write[b].spends
        <5>1. ASSUME o \in DOMAIN spent, spent[o].height = g
              PROVE  FALSE
          <6>1. PICK j \in DOMAIN blocks : IsSpendAt(o, j)
            BY <5>1 DEF LinkedRows, Rows, SpentSound
          <6>2. o \in DOMAIN Write[blocks'[j]].spends /\ j # h
            BY <2>2, <6>1 DEF IsSpendAt, Held
          <6> QED BY <1>1, <2>2, <4>1, <6>2, LinkedSpendsOnceNext DEF SpendsOnce, Held
        <5>2. ASSUME o \in DOMAIN spent' PROVE spent'[o].height # g
          <6>1. o \in DOMAIN outputs'
            BY <1>1, <5>2 DEF LinkedRows, TypeOK
          <6> QED BY <2>1, <3>1, <4>1, <5>2, <6>1 DEF Apply, applySpends, SpendRow
        <5> QED BY <5>1, <5>2
      <4>2. CASE o \notin DOMAIN Write[b].spends
        BY <2>1, <4>2 DEF Apply, applySpends, SpendRow
      <4> QED BY <4>1, <4>2
    <3>5. ASSUME NEW o \in DOMAIN spent', spent'[o].height = g
          PROVE  spent'[o] = spent[o]
      BY <2>1, <3>1, <3>5 DEF Apply, applySpends, SpendRow
    <3>6. FeeAt(t, g, outputs, spent) = FeeAt(t, g, outputs', spent')
      BY <3>3, <3>4, <3>5, FeeAtSame
    <3> QED BY <3>1, <3>6 DEF FeesExact, g
  <2> QED BY <2>3, <2>4
<1>3. ASSUME NEW h \in Height, RollbackHeld(h), NEW t \in DOMAIN txs'
      PROVE  fee'[t] = FeeAt(t, txs'[t], outputs', spent')
  <2>1. /\ t \in DOMAIN txs /\ txs'[t] = txs[t] /\ fee'[t] = fee[t] /\ txs[t] <= h
        /\ DOMAIN outputs' = {o \in DOMAIN outputs : outputs[o].height <= h}
        /\ \A o \in DOMAIN outputs' : outputs'[o] = outputs[o]
        /\ DOMAIN spent' = {o \in DOMAIN spent :
                                spent[o].height <= h /\ outputs[o].height <= h}
        /\ \A o \in DOMAIN spent' : spent'[o] = spent[o]
    BY <1>3, RestrictFacts DEF RollbackHeld, Rollback, unspendAbove, tipAt
  <2>2. \A o \in DOMAIN spent : outputs[o].height <= spent[o].height
    BY DEF LinkedRows, Rows, SpentSound, IsSpendAt
  <2>3. \A o \in DOMAIN spent : spent[o].height \in Int /\ outputs[o].height \in Int
    BY DEF LinkedRows, TypeOK, Height
  <2>4. FeeAt(t, txs[t], outputs, spent) = FeeAt(t, txs[t], outputs', spent')
    BY <2>1, <2>2, <2>3, FeeAtSame DEF Height
  <2> QED BY <2>1, <2>4 DEF FeesExact
<1>4. ASSUME UNCHANGED <<txs, fee, outputs, spent>>
      PROVE  FeesExact'
  <2> SUFFICES ASSUME NEW t \in DOMAIN txs'
               PROVE  fee'[t] = FeeAt(t, txs'[t], outputs', spent')
    BY DEF FeesExact
  <2>1. fee[t] = FeeAt(t, txs[t], outputs, spent)
    BY <1>4 DEF FeesExact
  <2> QED BY <1>4, <2>1
<1>5. ASSUME NEW h \in Height, Backfill(h) PROVE FeesExact'
  BY <1>4, <1>5 DEF Backfill, SetMainHeight
<1>6. ASSUME NEW S \in Pools, NEW now \in Clock, ReplaceMempool(S, now) PROVE FeesExact'
  BY <1>4, <1>6 DEF ReplaceMempool, firstSeen, chainVars
<1>7. CASE UNCHANGED storeVars
  BY <1>4, <1>7 DEF storeVars, chainVars
<1>8. ASSUME NEW b \in BlockHash, LinkedApply(b) PROVE FeesExact'
  BY <1>2, <1>8 DEF FeesExact
<1>9. ASSUME NEW h \in Height, RollbackHeld(h) PROVE FeesExact'
  BY <1>3, <1>9 DEF FeesExact
<1> QED BY <1>5, <1>6, <1>7, <1>8, <1>9 DEF LinkedNext

\* Under the same two conditions the stored fee of every transaction is the one
\* its coins give now, though setFees ran only when its block was applied.
THEOREM LinkedFeesExact ==
    ASSUME NoDoubleSpend
    PROVE  LinkedSpec => []FeesExact
<1>1. StoreInit => FeesExact
  BY DEF StoreInit, FeesExact, EmptyTable
<1>2. LinkedRows /\ FeesExact /\ [LinkedNext]_storeVars => LinkedRows' /\ FeesExact'
  BY LinkedStep, FeesExactStep, NoDoubleSpend
<1> QED BY LinkedInit, <1>1, <1>2, PTL DEF LinkedSpec

-----------------------------------------------------------------------------
(***************************************************************************)
(* The mempool tables.                                                     *)
(***************************************************************************)

\* What makes MempoolOwned inductive: a row of mempool_spends names a transaction that
\* spends its coin, so the block that carries the transaction takes the row along.
MempoolRows ==
    /\ MempoolOwned
    /\ \A o \in DOMAIN mempool_spends : o \in TxWrite[mempool_spends[o]].spends

\* clearMempool takes with a transaction's row all its others, or it is a skipped trade.
LEMMA MempoolRowsApply ==
    ASSUME TypeOK, MempoolRows, NEW b \in BlockHash, clearMempool(b)
    PROVE  MempoolRows'
<1>1. /\ DOMAIN mempool_txs' = DOMAIN mempool_txs \ Write[b].txs
      /\ mempool_outputs' = mempool_outputs \ Write[b].creates
      /\ DOMAIN mempool_spends' = DOMAIN mempool_spends \ DOMAIN Write[b].spends
      /\ \A o \in DOMAIN mempool_spends' : mempool_spends'[o] = mempool_spends[o]
  BY RestrictFacts DEF clearMempool
<1>2. \A t \in DOMAIN mempool_txs : t \in Txid
  BY DEF TypeOK
<1>3. ASSUME NEW o \in mempool_outputs'
      PROVE  \E t \in DOMAIN mempool_txs' \cup Skipped : o \in TxWrite[t].creates
  <2>1. PICK t \in DOMAIN mempool_txs \cup Skipped : o \in TxWrite[t].creates
    BY <1>1, <1>3 DEF MempoolRows, MempoolOwned
  <2>2. t \in DOMAIN mempool_txs' \cup Skipped
    BY <1>1, <1>2, <1>3, <2>1 DEF Skipped
  <2> QED BY <2>1, <2>2
<1>4. ASSUME NEW o \in DOMAIN mempool_spends'
      PROVE  mempool_spends'[o] \in DOMAIN mempool_txs' \cup Skipped
  <2> DEFINE t == mempool_spends[o]
  <2>1. t \in DOMAIN mempool_txs \cup Skipped /\ o \in TxWrite[t].spends
    BY <1>1, <1>4 DEF MempoolRows, MempoolOwned
  <2> HIDE DEF t
  <2>2. t \in DOMAIN mempool_txs' \cup Skipped
    BY <1>1, <1>2, <1>4, <2>1 DEF Skipped
  <2> QED BY <1>1, <1>4, <2>2 DEF t
<1> QED BY <1>1, <1>3, <1>4 DEF MempoolRows, MempoolOwned

\* ReplaceMempool writes the rows of the transactions that it lists.
LEMMA MempoolRowsReplace ==
    ASSUME NEW S \in SUBSET Txid, NEW now, ReplaceMempool(S, now)
    PROVE  MempoolRows'
<1> DEFINE taken == UNION {TxWrite[t].spends : t \in S}
<1>1. /\ DOMAIN mempool_txs' = S
      /\ mempool_outputs' = UNION {TxWrite[t].creates : t \in S}
      /\ mempool_spends' = [o \in taken |-> CHOOSE t \in S : o \in TxWrite[t].spends]
  BY DEF ReplaceMempool
<1>2. ASSUME NEW o \in taken
      PROVE  mempool_spends'[o] \in S /\ o \in TxWrite[mempool_spends'[o]].spends
  <2>1. \E t \in S : o \in TxWrite[t].spends
    BY <1>2
  <2> QED BY <1>1, <2>1
<1> QED BY <1>1, <1>2 DEF MempoolRows, MempoolOwned

\* Every store call keeps the mempool rows with their transactions.
LEMMA MempoolRowsStep == TypeOK /\ MempoolRows /\ [StoreNext]_storeVars => MempoolRows'
<1> SUFFICES ASSUME TypeOK, MempoolRows, [StoreNext]_storeVars PROVE MempoolRows'
  OBVIOUS
<1>1. ASSUME NEW b \in BlockHash, ApplyNext(b) PROVE MempoolRows'
  BY <1>1, MempoolRowsApply DEF ApplyNext, Apply
<1>2. ASSUME NEW S \in Pools, NEW now \in Clock, ReplaceMempool(S, now) PROVE MempoolRows'
  BY <1>2, MempoolRowsReplace DEF Pools
<1>3. ASSUME UNCHANGED mempoolVars PROVE MempoolRows'
  BY <1>3 DEF mempoolVars, MempoolRows, MempoolOwned
<1>4. ASSUME NEW h \in Height, RollbackHeld(h) PROVE MempoolRows'
  BY <1>3, <1>4 DEF RollbackHeld, Rollback
<1>5. ASSUME NEW h \in Height, Backfill(h) PROVE MempoolRows'
  BY <1>3, <1>5 DEF Backfill, SetMainHeight
<1>6. CASE UNCHANGED storeVars
  BY <1>3, <1>6 DEF storeVars
<1> QED BY <1>1, <1>2, <1>4, <1>5, <1>6 DEF StoreNext

\* Whatever blocks come and whenever the poller writes, each unconfirmed coin and spend
\* has its transaction in the snapshot, but for the trades that a block skipped.
THEOREM StoreMempoolOwned == StoreSpec => []MempoolOwned
<1>1. StoreInit => MempoolRows
  BY DEF StoreInit, MempoolRows, MempoolOwned, EmptyTable
<1>2. TypeOK /\ MempoolRows /\ [StoreNext]_storeVars => TypeOK' /\ MempoolRows'
  BY TypeOKStep, MempoolRowsStep
<1>3. MempoolRows => MempoolOwned
  BY DEF MempoolRows
<1> QED BY TypeOKInit, <1>1, <1>2, <1>3, PTL DEF StoreSpec

\* The arrival times of the transactions that a step keeps are those they had.
KeepsFirstSeen ==
    \A t \in DOMAIN mempool_txs \cap DOMAIN mempool_txs' : mempool_txs'[t] = mempool_txs[t]

\* No block, rollback or replacement changes when a transaction that stays was first
\* seen: ReplaceMempool reads the old times before it deletes the rows.
THEOREM StoreFirstSeenStable == StoreSpec => FirstSeenStable
<1>1. [StoreNext]_storeVars => [KeepsFirstSeen]_mempool_txs
  <2> SUFFICES ASSUME [StoreNext]_storeVars PROVE KeepsFirstSeen
    OBVIOUS
  <2>1. ASSUME NEW b \in BlockHash, ApplyNext(b) PROVE KeepsFirstSeen
    BY <2>1, RestrictFacts DEF ApplyNext, Apply, clearMempool, KeepsFirstSeen
  <2>2. ASSUME NEW S \in Pools, NEW now \in Clock, ReplaceMempool(S, now) PROVE KeepsFirstSeen
    BY <2>2 DEF ReplaceMempool, firstSeen, KeepsFirstSeen
  <2>3. ASSUME UNCHANGED mempoolVars PROVE KeepsFirstSeen
    BY <2>3 DEF mempoolVars, KeepsFirstSeen
  <2>4. ASSUME NEW h \in Height, RollbackHeld(h) PROVE KeepsFirstSeen
    BY <2>3, <2>4 DEF RollbackHeld, Rollback
  <2>5. ASSUME NEW h \in Height, Backfill(h) PROVE KeepsFirstSeen
    BY <2>3, <2>5 DEF Backfill, SetMainHeight
  <2>6. CASE UNCHANGED storeVars
    BY <2>3, <2>6 DEF storeVars
  <2> QED BY <2>1, <2>2, <2>4, <2>5, <2>6 DEF StoreNext
<1> QED BY <1>1, PTL DEF StoreSpec, FirstSeenStable, KeepsFirstSeen
=============================================================================
