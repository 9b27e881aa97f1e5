---------------------------- MODULE AnswerProofs ---------------------------
(***************************************************************************)
(* Proofs about Api, continued: the queries of Store.Tx, and those of      *)
(* blockTxs, tell of one block.                                            *)
(***************************************************************************)
EXTENDS ApiProofs

\* A leaf may take the solver longer than it is given by default.
USE SMTT(20), Zenon

\* The block is the one that the row of the transaction names, and what was read of
\* the coins is what it has.
MinedIn(b) == key \in DOMAIN txs /\ b = blocks[txs[key]]

WholeInv ==
    /\ step = "block" /\ ~rolled => key \in DOMAIN txs /\ txs[key] = got.height
    /\ step = "vin" /\ ~rolled => MinedIn(got.block)
    /\ step = "vout" /\ ~rolled => MinedIn(got.block) /\ got.vin = SpentBy(got.block, key)
    /\ MinedTxWhole

\* The inputs that the rows give a mined transaction are those its block took for it.
LEMMA VinOfBlock ==
    ASSUME Consensus, LinkedRows, SpentExact, NEW t \in DOMAIN txs
    PROVE  TxVin(t) = SpentBy(blocks[txs[t]], t)
<1> DEFINE h == txs[t]
<1>1. /\ h \in DOMAIN blocks /\ t \in Held(h).txs
      /\ \A k \in DOMAIN blocks : t \in Held(k).txs => h <= k
  BY DEF LinkedRows, Rows, TxsExact
<1>2. ASSUME NEW o \in TxVin(t) PROVE o \in SpentBy(blocks[h], t)
  <2>1. o \in DOMAIN spent /\ spent[o].source = t /\ spent[o].kind = 0
    BY <1>2 DEF TxVin
  <2>2. PICK k \in DOMAIN blocks : IsSpendAt(o, k)
    BY <2>1 DEF LinkedRows, Rows, SpentSound
  <2>3. o \in SpentBy(blocks[k], t)
    BY <2>1, <2>2 DEF IsSpendAt, Held, SpentBy
  <2>4. blocks[k] \in BlockHash
    BY HeldRules
  <2>5. t \in Held(k).txs
    BY <2>3, <2>4 DEF Consensus, CoinsOfTxs, SpentBy, Held
  <2>6. ~(h < k)
    BY <1>1, <2>3, <2>5, HeldRules
  <2>7. h = k
    BY <1>1, <2>5, <2>6, HeldRules
  <2> QED BY <2>3, <2>7
<1>3. ASSUME NEW o \in SpentBy(blocks[h], t) PROVE o \in TxVin(t)
  <2>1. /\ o \in DOMAIN Held(h).spends
        /\ Held(h).spends[o].source = t /\ Held(h).spends[o].kind = 0
    BY <1>3 DEF SpentBy, Held
  <2>2. PICK k \in DOMAIN blocks : k <= h /\ o \in Held(k).creates
    BY <1>1, <2>1, HeldRules
  <2>3. blocks[k] \in BlockHash /\ k \in Nat /\ h \in Nat
    BY <1>1, HeldRules
  <2>4. o \in OutPoint
    BY <2>2, <2>3, WriteAssumption DEF Held
  <2>5. /\ o \in DOMAIN outputs
        /\ outputs[o].height \in DOMAIN blocks /\ outputs[o].height <= k
    <3>1. OutputsExact
      BY DEF LinkedRows, Rows
    <3>2. o \in DOMAIN outputs
      BY <2>2, <2>4, <3>1 DEF OutputsExact
    <3> QED BY <2>2, <3>1, <3>2 DEF OutputsExact
  <2>6. h >= outputs[o].height
    <3>1. outputs[o].height \in Nat
      BY <2>5, HeldRules
    <3> QED BY <2>2, <2>3, <2>5, <3>1
  <2>7. o \in DOMAIN spent
    BY <1>1, <2>1, <2>5, <2>6 DEF SpentExact
  <2>8. PICK j \in DOMAIN blocks : IsSpendAt(o, j)
    BY <2>7 DEF LinkedRows, Rows, SpentSound
  <2>9. j = h
    BY <1>1, <2>1, <2>8, LinkedSpendsOnce DEF SpendsOnce, IsSpendAt, Consensus
  <2> QED BY <2>1, <2>7, <2>8, <2>9 DEF IsSpendAt, TxVin
<1> QED BY <1>2, <1>3

\* The outputs that the rows give it are those its block made for it.
LEMMA VoutOfBlock ==
    ASSUME Consensus, LinkedRows, NEW t \in DOMAIN txs
    PROVE  TxVout(t) = MadeBy(blocks[txs[t]], t)
<1> DEFINE h == txs[t]
<1>1. /\ h \in DOMAIN blocks /\ t \in Held(h).txs
      /\ \A k \in DOMAIN blocks : t \in Held(k).txs => h <= k
  BY DEF LinkedRows, Rows, TxsExact
<1>2. ASSUME NEW o \in TxVout(t) PROVE o \in MadeBy(blocks[h], t)
  <2>1. o \in DOMAIN outputs /\ o.source = t /\ o.kind = 0
    BY <1>2 DEF TxVout
  <2>2. PICK k \in DOMAIN blocks : o \in Held(k).creates
    BY <2>1 DEF LinkedRows, Rows, OutputsExact
  <2>3. o \in MadeBy(blocks[k], t) /\ blocks[k] \in BlockHash
    BY <2>1, <2>2, HeldRules DEF MadeBy, Held
  <2>4. t \in Held(k).txs
    BY <2>1, <2>2, <2>3 DEF Consensus, CoinsOfTxs, Held
  <2>5. h \in Nat /\ k \in Nat /\ h <= k
    BY <1>1, <2>4, HeldRules
  <2>6. CASE h < k
    BY <1>1, <2>3, <2>4, <2>6, HeldRules
  <2>7. CASE h = k
    BY <2>3, <2>7
  <2> QED BY <2>5, <2>6, <2>7
<1>3. ASSUME NEW o \in MadeBy(blocks[h], t) PROVE o \in TxVout(t)
  <2>1. o \in Held(h).creates /\ o.source = t /\ o.kind = 0
    BY <1>3 DEF MadeBy, Held
  <2>2. o \in OutPoint
    BY <1>1, <2>1, HeldRules, WriteAssumption DEF Held
  <2> QED BY <1>1, <2>1, <2>2 DEF LinkedRows, Rows, OutputsExact, TxVout
<1> QED BY <1>2, <1>3


\* The other handlers do not touch the request.
LEMMA WholeFrame ==
    ASSUME Base, Base', WholeInv, Elsewhere("tx")
    PROVE  WholeInv'
<1>1. /\ Answered("tx")' => Answered("tx") /\ UNCHANGED <<seen, key, storeVars>>
      /\ UNCHANGED apiVars \/ route' # "tx" \/ step' \in FirstSteps
  BY ElsewhereKeeps DEF Base
<1>2. UNCHANGED apiVars \/ step' \notin {"block", "vin", "vout"}
  BY <1>1 DEF Base, Routes, TxSteps, FirstSteps
<1>3. MinedTxWhole'
  <2>1. CASE ~Answered("tx")'
    BY <2>1 DEF MinedTxWhole, AnsweredWhileGrowing
  <2>2. CASE UNCHANGED <<reply, rolled, key>>
    BY <2>2 DEF WholeInv, MinedTxWhole, AnsweredWhileGrowing, Answered, SpentBy, MadeBy
  <2> QED BY <1>1, <2>1, <2>2 DEF seen
<1>4. CASE UNCHANGED apiVars
  <2>1. UNCHANGED <<step, got, rolled, key, txs, blocks>>
    BY <1>4 DEF apiVars, asked, seen, storeVars, chainVars
  <2> QED BY <1>3, <2>1 DEF WholeInv, MinedIn, SpentBy
<1>5. CASE step' \notin {"block", "vin", "vout"}
  BY <1>3, <1>5 DEF WholeInv
<1> QED BY <1>2, <1>4, <1>5

\* Each query finds what belongs to the block of the row.
LEMMA WholeOwn ==
    ASSUME Consensus, Base, SpentExact, WholeInv, TxHandler
    PROVE  WholeInv'
<1>1. reply = NULL /\ LinkedRows
  BY HandlerRoutes DEF Base, Routes
<1>2. ASSUME UNCHANGED <<seen, key, storeVars>>
      PROVE  MinedTxWhole' /\ UNCHANGED <<rolled, key, txs, blocks>>
  BY <1>1, <1>2 DEF seen, storeVars, chainVars, MinedTxWhole, AnsweredWhileGrowing, Answered
<1>3. ASSUME MinedTxWhole', step' \notin {"block", "vin", "vout"} PROVE WholeInv'
  BY <1>3 DEF WholeInv
<1>4. ASSUME NEW x, Answer(x), ~x.found \/ ~x.confirmed PROVE WholeInv'
  <2>1. step' = "none" /\ reply' = [route |-> route, body |-> x]
    BY <1>4 DEF Answer
  <2> QED BY <1>3, <1>4, <2>1 DEF MinedTxWhole, AnsweredWhileGrowing, Answered
<1>5. CASE ReadTx
  <2>1. CASE key \in DOMAIN txs
    <3>1. step' = "block" /\ got'.height = txs[key] /\ UNCHANGED <<seen, key, storeVars>>
      BY <1>5, <2>1 DEF ReadTx, Continue
    <3> QED BY <1>2, <2>1, <3>1 DEF WholeInv
  <2>2. CASE key \notin DOMAIN txs
    <3>1. step' = "mempool_tx" /\ UNCHANGED <<seen, key, storeVars>>
      BY <1>5, <2>2 DEF ReadTx, Continue
    <3> QED BY <1>2, <1>3, <3>1
  <2> QED BY <2>1, <2>2
<1>6. CASE ReadBlock
  <2>1. CASE BlockAtHeight(got.height) = NULL
    <3>1. step' = "mempool_tx" /\ UNCHANGED <<seen, key, storeVars>>
      BY <1>6, <2>1 DEF ReadBlock, Continue
    <3> QED BY <1>2, <1>3, <3>1
  <2>2. CASE BlockAtHeight(got.height) # NULL
    <3>1. /\ step = "block" /\ step' = "vin" /\ got'.block = BlockAtHeight(got.height)
          /\ UNCHANGED <<seen, key, storeVars>>
      BY <1>6, <2>2 DEF ReadBlock, Continue
    <3>2. BlockAtHeight(got.height) = blocks[got.height]
      BY <2>2 DEF BlockAtHeight
    <3>3. ~rolled => MinedIn(got'.block)
      BY <3>1, <3>2 DEF WholeInv, MinedIn
    <3> QED BY <1>2, <3>1, <3>3 DEF WholeInv, MinedIn
  <2> QED BY <2>1, <2>2
<1>7. CASE ReadVin
  <2>1. /\ step = "vin" /\ step' = "vout" /\ got'.block = got.block /\ got'.vin = TxVin(key)
        /\ UNCHANGED <<seen, key, storeVars>>
    BY <1>7 DEF ReadVin, Continue
  <2>2. ~rolled => MinedIn(got.block)
    BY <2>1 DEF WholeInv
  <2>3. ~rolled => TxVin(key) = SpentBy(got.block, key)
    BY <1>1, <2>2, VinOfBlock DEF MinedIn
  <2>4. ~rolled => MinedIn(got.block)' /\ (got.vin = SpentBy(got.block, key))'
    BY <1>2, <2>1, <2>2, <2>3 DEF MinedIn, SpentBy
  <2>5. MinedTxWhole' /\ rolled' = rolled
    BY <1>2, <2>1
  <2> QED BY <2>1, <2>4, <2>5 DEF WholeInv
<1>8. CASE ReadVout
  <2> DEFINE x == [found |-> TRUE, confirmed |-> TRUE, block |-> got.block,
                   vin |-> got.vin, vout |-> TxVout(key)]
  <2>1. /\ step = "vout" /\ step' = "none" /\ UNCHANGED <<key, rolled>>
        /\ reply' = [route |-> route, body |-> x]
    BY <1>8 DEF ReadVout, Answer
  <2>2. ASSUME ~rolled
        PROVE  /\ key \in Write[x.block].txs
               /\ x.vin = SpentBy(x.block, key)
               /\ x.vout = MadeBy(x.block, key)
    <3>1. MinedIn(got.block) /\ got.vin = SpentBy(got.block, key)
      BY <2>1, <2>2 DEF WholeInv
    <3>2. key \in Write[got.block].txs
      BY <1>1, <3>1 DEF MinedIn, LinkedRows, Rows, TxsExact, Held
    <3>3. TxVout(key) = MadeBy(got.block, key)
      BY <1>1, <3>1, VoutOfBlock DEF MinedIn
    <3> QED BY <3>1, <3>2, <3>3
  <2> HIDE DEF x
  <2>3. MinedTxWhole'
    BY <2>1, <2>2 DEF MinedTxWhole, AnsweredWhileGrowing, Answered, SpentBy, MadeBy
  <2> QED BY <1>3, <2>1, <2>3
<1>9. CASE ReadMempoolTx
  <2>1. CASE key \in DOMAIN mempool_txs
    <3>1. step' = "mempool_vin" /\ UNCHANGED <<seen, key, storeVars>>
      BY <1>9, <2>1 DEF ReadMempoolTx, Continue
    <3> QED BY <1>2, <1>3, <3>1
  <2>2. CASE key \notin DOMAIN mempool_txs
    <3>1. Answer(NotFound) /\ ~NotFound.found
      BY <1>9, <2>2 DEF ReadMempoolTx, NotFound
    <3> QED BY <1>4, <3>1
  <2> QED BY <2>1, <2>2
<1>10. CASE ReadMempoolVin
  <2>1. step' = "mempool_vout" /\ UNCHANGED <<seen, key, storeVars>>
    BY <1>10 DEF ReadMempoolVin, Continue
  <2> QED BY <1>2, <1>3, <2>1
<1>11. CASE ReadMempoolVout
  <2>1. PICK x : ~x.confirmed /\ Answer(x)
    <3> DEFINE x == [found |-> TRUE, confirmed |-> FALSE, vin |-> got.vin,
                     vout |-> MempoolVout(key)]
    <3>1. ~x.confirmed /\ Answer(x)
      BY <1>11 DEF ReadMempoolVout
    <3> QED BY <3>1
  <2> QED BY <1>4, <2>1
<1> QED BY <1>5, <1>6, <1>7, <1>8, <1>9, <1>10, <1>11 DEF TxHandler

\* A growing chain keeps the transaction at its height, and the block there.
LEMMA WholeBeside ==
    ASSUME Base, WholeInv, Beside(Grows, FALSE) \/ Beside(Shrinks, TRUE)
    PROVE  WholeInv'
<1>1. MinedTxWhole'
  BY BesideNoAnswer, Zenon DEF MinedTxWhole, AnsweredWhileGrowing
<1>2. UNCHANGED <<key, step, got>>
  BY DEF Beside, asked
<1>3. CASE Beside(Grows, FALSE)
  <2>1. Grows /\ rolled' = rolled
    BY <1>3 DEF Beside, Base, Routes
  <2>2. key \in DOMAIN txs =>
            key \in DOMAIN txs' /\ txs'[key] = txs[key] /\ blocks'[txs[key]] = blocks[txs[key]]
    BY <2>1, GrowsKeeps DEF Base, LinkedRows, Rows, TxsExact
  <2> QED BY <1>1, <1>2, <2>1, <2>2 DEF WholeInv, MinedIn, SpentBy
<1>4. CASE Beside(Shrinks, TRUE)
  <2>1. step \in {"block", "vin", "vout"} => rolled'
    BY <1>4, Zenon DEF Beside, Base, Routes, TxSteps
  <2> QED BY <1>1, <1>2, <2>1 DEF WholeInv
<1> QED BY <1>3, <1>4, Zenon

\* The invariant of Store.Tx is inductive beside Base and SpentExact.
LEMMA WholeStep ==
    ASSUME Consensus
    PROVE  Base /\ SpentExact /\ WholeInv /\ [ApiNext]_apiVars => SpentExact' /\ WholeInv'
<1> SUFFICES ASSUME Base, SpentExact, WholeInv, [ApiNext]_apiVars
             PROVE  SpentExact' /\ WholeInv'
  OBVIOUS
<1>1. Routes /\ Base'
  BY BaseStep DEF Base
<1>2. SpentExact'
  BY ApiIsLinked, SpentExactStep DEF Base, Consensus
<1>3. WholeInv'
  BY <1>1, StepKinds, WholeFrame, WholeOwn, WholeBeside, Zenon
<1> QED BY <1>2, <1>3

\* The answer of tx for a mined transaction is of one block, which carries it, and has
\* the coins that this block took and made for it, for every tree that keeps to the
\* consensus rules and every way the index grows between the four queries.
THEOREM ApiMinedTxWhole ==
    ASSUME Consensus
    PROVE  ApiSpec => []MinedTxWhole
<1>1. ApiInit => Base /\ SpentExact /\ WholeInv
  <2> SUFFICES ASSUME ApiInit PROVE Base /\ SpentExact /\ WholeInv
    OBVIOUS
  <2>1. Base
    BY ApiInitInv
  <2>2. SpentExact
    BY DEF ApiInit, StoreInit, SpentExact, SpentSound, EmptyTable
  <2>3. WholeInv
    BY DEF ApiInit, WholeInv, MinedTxWhole, AnsweredWhileGrowing, Answered
  <2> QED BY <2>1, <2>2, <2>3
<1>2. WholeInv => MinedTxWhole
  BY DEF WholeInv
<1>3. Base /\ SpentExact /\ WholeInv /\ [ApiNext]_apiVars => SpentExact' /\ WholeInv'
  BY WholeStep
<1> QED BY <1>1, <1>2, <1>3, BaseStep, PTL DEF ApiSpec

-----------------------------------------------------------------------------
(***************************************************************************)
(* blockTxs.                                                               *)
(***************************************************************************)
HoldsBlock(b) == \E h \in DOMAIN blocks : blocks[h] = b

\* The page from start on of a listing.
PageOf(ids, start) == SubSeq(ids, start + 1, Min({start + PageSize, Len(ids)}))

\* The rows that were read are the first of the page, each with the block, and the
\* rest of the page is still to be read.
PageSoFar(p, rows, todo) ==
    /\ rows \in Seq([id : Txid, block : BlockHash]) /\ todo \in Seq(Txid)
    /\ Len(p) = Len(rows) + Len(todo)
    /\ \A i \in 1..Len(rows) : rows[i].id = p[i] /\ rows[i].block = key
    /\ \A i \in 1..Len(todo) : todo[i] = p[Len(rows) + i]

PageInv ==
    /\ step = "txids" /\ ~rolled => HoldsBlock(key)
    /\ step \in {"row", "row_block"} /\ ~rolled =>
          /\ HoldsBlock(key)
          /\ \E ids \in Listings(key) :
                /\ got.from \in 0..Len(ids)
                /\ PageSoFar(PageOf(ids, got.from), got.rows, got.todo)
    /\ step = "row_block" /\ ~rolled => got.todo # <<>> /\ got.height = txs[Head(got.todo)]
    /\ PageOfBlock

\* The transactions of a block that the index holds have rows, and their heights blocks.
LEMMA BodyHeld ==
    ASSUME LinkedRows, NEW b, HoldsBlock(b), NEW t \in Range(Body[b])
    PROVE  /\ b \in BlockHash /\ t \in Txid
           /\ t \in DOMAIN txs /\ txs[t] \in DOMAIN blocks
           /\ BlockAtHeight(txs[t]) = blocks[txs[t]]
<1>1. PICK h \in DOMAIN blocks : blocks[h] = b
  BY DEF HoldsBlock
<1>2. b \in BlockHash
  BY <1>1 DEF LinkedRows, TypeOK
<1>3. t \in Held(h).txs /\ t \in Txid
  BY <1>1, <1>2, ReadsAssumption, WriteAssumption DEF Held
<1>4. t \in DOMAIN txs /\ txs[t] \in DOMAIN blocks
  BY <1>1, <1>3 DEF LinkedRows, Rows, TxsExact
<1> QED BY <1>2, <1>3, <1>4 DEF BlockAtHeight

\* Each transaction of a listing has a row, at a height where the block is.
LEMMA ListingRows ==
    ASSUME LinkedRows, NEW b, HoldsBlock(b), NEW ids \in Listings(b)
    PROVE  /\ ids \in Seq(Txid) /\ b \in BlockHash
           /\ \A i \in DOMAIN ids : ids[i] \in DOMAIN txs /\ BlockAtHeight(txs[ids[i]]) = b
<1> DEFINE R == {t \in Range(Body[b]) : BlockAtHeight(txs[t]) = b}
           m == Cardinality(R)
<1>1. R \subseteq Txid /\ R \subseteq DOMAIN txs
  BY BodyHeld
<1>2. m \in Nat
  BY <1>1, FS_Subset, FS_CardinalityType, ReadsAssumption
<1>3. ids \in [1..m -> R]
  BY DEF Listings, Injection
<1>4. \A i \in DOMAIN ids : ids[i] \in DOMAIN txs /\ BlockAtHeight(txs[ids[i]]) = b
  BY <1>1, <1>3
<1>5. b \in BlockHash
  BY DEF HoldsBlock, LinkedRows, TypeOK
<1> HIDE DEF R, m
<1>6. ids \in Seq(Txid)
  BY <1>1, <1>2, <1>3
<1> QED BY <1>4, <1>5, <1>6

\* tx_index is the place of a transaction in the body of its block.
LEMMA OrdinalIsPlace ==
    ASSUME NEW b \in BlockHash, NEW i \in DOMAIN Body[b], NEW t, Body[b][i] = t,
           blocks[txs[t]] = b
    PROVE  i \in Int /\ Ordinal(t) = i - 1
<1>1. /\ Body[b] \in Seq(Txid)
      /\ \A j, k \in DOMAIN Body[b] : Body[b][j] = Body[b][k] => j = k
  BY ReadsAssumption DEF IsInjective
<1>2. DOMAIN Body[b] = 1..Len(Body[b]) /\ Len(Body[b]) \in Nat
  BY <1>1
<1>3. \A j \in DOMAIN Body[b] : Body[b][j] = t <=> j = i
  BY <1>1
<1> DEFINE c == CHOOSE j \in DOMAIN Body[b] : Body[b][j] = t
<1>4. c = i
  BY <1>3
<1>5. Ordinal(t) = c - 1
  BY DEF Ordinal
<1> HIDE DEF c
<1> QED BY <1>2, <1>4, <1>5

\* The query lists the transactions whose row names the block, in body order.
LEMMA BlockTxidsListed ==
    ASSUME LinkedRows, NEW b, HoldsBlock(b)
    PROVE  BlockTxids(b) \subseteq Listings(b)
<1> DEFINE R == {t \in DOMAIN txs : BlockAtHeight(txs[t]) = b}
           Q == {t \in Range(Body[b]) : BlockAtHeight(txs[t]) = b}
<1>1. b \in BlockHash /\ b # NULL
  BY WriteAssumption DEF HoldsBlock, LinkedRows, TypeOK
<1>2. ASSUME NEW t \in R PROVE t \in Range(Body[b]) /\ blocks[txs[t]] = b
  <2>1. blocks[txs[t]] = b
    BY <1>1, <1>2 DEF BlockAtHeight
  <2>2. t \in Write[b].txs
    BY <1>2, <2>1 DEF LinkedRows, Rows, TxsExact, Held
  <2> QED BY <1>1, <2>1, <2>2, ReadsAssumption
<1>3. R = Q
  BY <1>2, BodyHeld
<1> SUFFICES ASSUME NEW ids \in BlockTxids(b) PROVE ids \in Listings(b)
  OBVIOUS
<1>4. /\ ids \in Injection(1..Cardinality(R), R)
      /\ \A k, l \in DOMAIN ids : k < l => ~(Ordinal(ids[l]) < Ordinal(ids[k]))
  BY DEF BlockTxids, OrderBy
<1>5. /\ \A k \in DOMAIN ids : ids[k] \in R
      /\ \A k, l \in DOMAIN ids : k # l => ids[k] # ids[l]
      /\ DOMAIN ids = 1..Cardinality(R)
  BY <1>4 DEF Injection, IsInjective
<1>6. ASSUME NEW k \in DOMAIN ids, NEW l \in DOMAIN ids, k < l
      PROVE  \E i, j \in DOMAIN Body[b] : i < j /\ Body[b][i] = ids[k] /\ Body[b][j] = ids[l]
  <2>1. PICK i \in DOMAIN Body[b] : Body[b][i] = ids[k]
    BY <1>2, <1>5 DEF Range
  <2>2. PICK j \in DOMAIN Body[b] : Body[b][j] = ids[l]
    BY <1>2, <1>5 DEF Range
  <2>3. i \in Int /\ Ordinal(ids[k]) = i - 1
    BY <1>1, <1>2, <1>5, <2>1, OrdinalIsPlace
  <2>4. j \in Int /\ Ordinal(ids[l]) = j - 1
    BY <1>1, <1>2, <1>5, <2>2, OrdinalIsPlace
  <2>5. i # j
    <3>1. k # l
      BY <1>5, <1>6
    <3> QED BY <1>5, <2>1, <2>2, <3>1
  <2>6. ~(j - 1 < i - 1)
    BY <1>4, <1>6, <2>3, <2>4
  <2> QED BY <2>1, <2>2, <2>3, <2>4, <2>5, <2>6
<1> HIDE DEF R, Q
<1>7. ids \in Injection(1..Cardinality(Q), Q)
  BY <1>3, <1>4
<1> QED BY <1>6, <1>7 DEF Listings, Q

\* The list stays the same while the chain grows.
LEMMA ListingsKept ==
    ASSUME LinkedRows, NEW b, HoldsBlock(b),
           Grows \/ UNCHANGED <<txs, blocks>>
    PROVE  HoldsBlock(b)' /\ Listings(b)' = Listings(b)
<1>1. /\ DOMAIN blocks \subseteq DOMAIN blocks'
      /\ \A h \in DOMAIN blocks : blocks'[h] = blocks[h]
      /\ \A t \in DOMAIN txs : txs'[t] = txs[t]
  BY GrowsKeeps
<1>2. ASSUME NEW t \in Range(Body[b]) PROVE BlockAtHeight(txs[t])' = BlockAtHeight(txs[t])
  BY <1>1, <1>2, BodyHeld DEF BlockAtHeight
<1>3. {t \in Range(Body[b]) : BlockAtHeight(txs[t])' = b}
    = {t \in Range(Body[b]) : BlockAtHeight(txs[t]) = b}
  BY <1>2
<1>4. Listings(b)' = Listings(b)
  BY <1>3, Zenon DEF Listings
<1>5. HoldsBlock(b)'
  BY <1>1 DEF HoldsBlock
<1> QED BY <1>4, <1>5

\* A page of a listing is a list of its own.
LEMMA PageIsPart ==
    ASSUME NEW ids \in Seq(Txid), NEW n \in 0..Len(ids)
    PROVE  /\ PageOf(ids, n) \in Seq(Txid)
           /\ \A i \in DOMAIN PageOf(ids, n) : PageOf(ids, n)[i] \in Range(ids)
<1> DEFINE e == Min({n + PageSize, Len(ids)})
<1>1. e \in Int /\ e <= Len(ids) /\ Len(ids) \in Nat /\ n \in Nat
  <2>1. Len(ids) \in Nat /\ n \in Nat /\ PageSize \in Nat
    BY ApiAssumption
  <2> QED BY <2>1, MinOfTwo
<1> HIDE DEF e
<1>2. \A i \in n + 1..e : i \in DOMAIN ids /\ ids[i] \in Txid
  BY <1>1
<1>3. /\ SubSeq(ids, n + 1, e) \in Seq(Txid)
      /\ Len(SubSeq(ids, n + 1, e)) = IF n + 1 <= e THEN e - (n + 1) + 1 ELSE 0
      /\ \A i \in 1..(e - (n + 1) + 1) : SubSeq(ids, n + 1, e)[i] = ids[n + 1 + i - 1]
  BY <1>1, <1>2
<1>4. ASSUME NEW i \in DOMAIN SubSeq(ids, n + 1, e)
      PROVE  SubSeq(ids, n + 1, e)[i] \in Range(ids)
  <2>1. i \in 1..(e - (n + 1) + 1) /\ n + 1 + i - 1 \in n + 1..e
    BY <1>1, <1>3, <1>4
  <2>2. ids[n + 1 + i - 1] \in Range(ids)
    BY <1>2, <2>1 DEF Range
  <2> QED BY <1>3, <2>1, <2>2
<1> QED BY <1>3, <1>4, Zenon DEF PageOf, e

\* The next row to read is one of the listing.
LEMMA PageHead ==
    ASSUME NEW ids \in Seq(Txid), NEW n \in 0..Len(ids), NEW rows, NEW todo,
           PageSoFar(PageOf(ids, n), rows, todo), todo # <<>>
    PROVE  /\ Head(todo) \in Range(ids) /\ Head(todo) = PageOf(ids, n)[Len(rows) + 1]
           /\ Len(rows) \in Nat /\ Len(todo) \in Nat \ {0}
<1> DEFINE p == PageOf(ids, n)
<1>1. p \in Seq(Txid) /\ \A i \in DOMAIN p : p[i] \in Range(ids)
  BY PageIsPart
<1> HIDE DEF p
<1>2. /\ Len(rows) \in Nat /\ Len(todo) \in Nat \ {0} /\ Head(todo) = todo[1]
      /\ Len(p) = Len(rows) + Len(todo) /\ todo[1] = p[Len(rows) + 1]
  <2>1. /\ todo \in Seq(Txid) /\ Len(rows) \in Nat
        /\ Len(p) = Len(rows) + Len(todo)
        /\ \A i \in 1..Len(todo) : todo[i] = p[Len(rows) + i]
    BY DEF PageSoFar, p
  <2>2. Len(todo) \in Nat \ {0} /\ Head(todo) = todo[1]
    BY <2>1
  <2> QED BY <2>1, <2>2
<1>3. Len(rows) + 1 \in DOMAIN p
  BY <1>1, <1>2
<1> QED BY <1>1, <1>2, <1>3 DEF p

\* The other handlers do not touch a blockTxs request.
LEMMA PageFrame ==
    ASSUME Base, Base', PageInv, Elsewhere("txs")
    PROVE  PageInv'
<1>1. /\ Answered("txs")' => Answered("txs") /\ UNCHANGED <<seen, key, storeVars>>
      /\ UNCHANGED apiVars \/ route' # "txs" \/ step' \in FirstSteps
  BY ElsewhereKeeps DEF Base
<1>2. UNCHANGED apiVars \/ step' \notin {"txids", "row", "row_block"}
  BY <1>1 DEF Base, Routes, FirstSteps
<1>3. PageOfBlock'
  <2>1. CASE ~Answered("txs")'
    BY <2>1 DEF PageOfBlock, AnsweredWhileGrowing
  <2>2. CASE UNCHANGED <<reply, rolled, key, txs, blocks>>
    <3>1. Listings(key)' = Listings(key)
      BY <2>2 DEF Listings, BlockAtHeight
    <3> QED BY <2>2, <3>1, Zenon DEF PageInv, PageOfBlock, AnsweredWhileGrowing, Answered
  <2> QED BY <1>1, <2>1, <2>2 DEF seen, storeVars, chainVars
<1>4. CASE UNCHANGED apiVars
  <2>1. UNCHANGED <<step, got, rolled, key, txs, blocks>>
    BY <1>4 DEF apiVars, asked, seen, storeVars, chainVars
  <2>2. Listings(key)' = Listings(key) /\ HoldsBlock(key)' = HoldsBlock(key)
    BY <2>1 DEF Listings, BlockAtHeight, HoldsBlock
  <2> QED BY <1>3, <2>1, <2>2, Zenon DEF PageInv, PageSoFar
<1>5. CASE step' \notin {"txids", "row", "row_block"}
  BY <1>3, <1>5, Zenon DEF PageInv
<1> QED BY <1>2, <1>4, <1>5

\* A growing chain keeps the block, its transactions and their heights.
LEMMA PageBeside ==
    ASSUME Base, PageInv, Beside(Grows, FALSE) \/ Beside(Shrinks, TRUE)
    PROVE  PageInv'
<1>1. PageOfBlock'
  BY BesideNoAnswer, Zenon DEF PageOfBlock, AnsweredWhileGrowing
<1>2. UNCHANGED <<key, step, got>>
  BY DEF Beside, asked
<1>3. CASE Beside(Grows, FALSE)
  <2>1. Grows /\ rolled' = rolled
    BY <1>3 DEF Beside, Base, Routes
  <2>2. HoldsBlock(key) => HoldsBlock(key)' /\ Listings(key)' = Listings(key)
    <3>1. PICK b : b = key
      OBVIOUS
    <3>2. HoldsBlock(b) => HoldsBlock(b)' /\ Listings(b)' = Listings(b)
      BY <2>1, ListingsKept DEF Base
    <3>3. HoldsBlock(key)' = HoldsBlock(b)' /\ Listings(key)' = Listings(b)'
      BY <1>2, <3>1 DEF HoldsBlock, Listings
    <3> QED BY <3>1, <3>2, <3>3
  <2>3. step = "row_block" /\ ~rolled => txs'[Head(got.todo)] = txs[Head(got.todo)]
    <3> SUFFICES ASSUME step = "row_block", ~rolled
                 PROVE  Head(got.todo) \in DOMAIN txs
      BY <2>1, GrowsKeeps
    <3>1. PICK ids \in Listings(key) :
              /\ got.from \in 0..Len(ids)
              /\ PageSoFar(PageOf(ids, got.from), got.rows, got.todo)
      BY DEF PageInv
    <3>2. got.todo # <<>> /\ HoldsBlock(key)
      BY DEF PageInv
    <3>3. Head(got.todo) \in Range(ids)
      BY <3>1, <3>2, PageHead, ListingRows DEF Base
    <3> QED BY <3>2, <3>3, ListingRows DEF Base, Range
  <2>4. step = "txids" /\ ~rolled => HoldsBlock(key)'
    BY <2>2 DEF PageInv
  <2>5. step \in {"row", "row_block"} /\ ~rolled =>
          /\ HoldsBlock(key)'
          /\ \E ids \in Listings(key)' :
                /\ got.from \in 0..Len(ids)
                /\ PageSoFar(PageOf(ids, got.from), got.rows, got.todo)
    BY <2>2 DEF PageInv
  <2>6. step = "row_block" /\ ~rolled => got.todo # <<>> /\ got.height = txs'[Head(got.todo)]
    BY <2>3 DEF PageInv
  <2> QED BY <1>1, <1>2, <2>1, <2>4, <2>5, <2>6, Zenon DEF PageInv, PageSoFar
<1>4. CASE Beside(Shrinks, TRUE)
  <2>1. step \in {"txids", "row", "row_block"} => rolled'
    BY <1>4, Zenon DEF Beside, Base, Routes
  <2> QED BY <1>1, <1>2, <2>1 DEF PageInv
<1> QED BY <1>3, <1>4, Zenon

\* The list begins a page of the block.
LEMMA PageTxids ==
    ASSUME Base, PageInv, ReadTxids
    PROVE  PageInv'
<1>1. PICK ids \in BlockTxids(key) : \E start \in 0..Len(ids) :
          Continue("row", [from |-> start, rows |-> <<>>,
                           todo |-> SubSeq(ids, start + 1, Min({start + PageSize, Len(ids)}))])
  BY Zenon DEF ReadTxids
<1>2. PICK start \in 0..Len(ids) :
          Continue("row", [from |-> start, rows |-> <<>>, todo |-> PageOf(ids, start)])
  BY <1>1, Zenon DEF PageOf
<1>3. /\ step = "txids" /\ step' = "row" /\ UNCHANGED <<key, reply, rolled, txs, blocks>>
      /\ got'.from = start /\ got'.rows = <<>> /\ got'.todo = PageOf(ids, start)
  BY <1>2, Zenon DEF ReadTxids, Continue, seen, storeVars, chainVars
<1>4. reply = NULL
  BY <1>3 DEF Base, Routes
<1>5. PageOfBlock'
  BY <1>3, <1>4 DEF PageOfBlock, AnsweredWhileGrowing, Answered
<1>6. CASE rolled
  BY <1>3, <1>5, <1>6, ZenonT(30) DEF PageInv
<1>7. CASE ~rolled
  <2>1. HoldsBlock(key) /\ LinkedRows
    BY <1>3, <1>7 DEF PageInv, Base
  <2>2. ids \in Listings(key) /\ ids \in Seq(Txid)
    BY <2>1, BlockTxidsListed, ListingRows
  <2>3. HoldsBlock(key)' /\ Listings(key)' = Listings(key)
    BY <1>3, <2>1 DEF HoldsBlock, Listings, BlockAtHeight
  <2>4. PageOf(ids, start) \in Seq(Txid)
    BY <2>2, PageIsPart
  <2>5. PageSoFar(PageOf(ids, start), <<>>, PageOf(ids, start))'
    BY <2>4 DEF PageSoFar
  <2>6. \E l \in Listings(key)' : /\ got'.from \in 0..Len(l)
                                  /\ PageSoFar(PageOf(l, got.from), got.rows, got.todo)'
    BY <1>3, <2>2, <2>3, <2>5
  <2> QED BY <1>3, <1>5, <2>3, <2>6 DEF PageInv
<1> QED BY <1>6, <1>7

\* The rows go out when the page is read; until then the next one has a row.
LEMMA PageReadRow ==
    ASSUME Base, PageInv, ReadRow
    PROVE  PageInv'
<1>1. step = "row" /\ LinkedRows /\ route = "txs" /\ reply = NULL
  BY Zenon DEF ReadRow, Base, Routes
<1>2. UNCHANGED <<key, rolled, txs, blocks>>
  BY DEF ReadRow, Continue, Answer, seen, storeVars, chainVars
<1>3. HoldsBlock(key)' = HoldsBlock(key) /\ Listings(key)' = Listings(key)
  BY <1>2 DEF HoldsBlock, Listings, BlockAtHeight
<1>4. CASE rolled
  <2>1. PageOfBlock'
    BY <1>2, <1>4 DEF PageOfBlock, AnsweredWhileGrowing
  <2> QED BY <1>2, <1>4, <2>1 DEF PageInv
<1>5. CASE ~rolled
  <2>1. PICK ids \in Listings(key) :
            /\ got.from \in 0..Len(ids)
            /\ PageSoFar(PageOf(ids, got.from), got.rows, got.todo)
    BY <1>1, <1>5 DEF PageInv
  <2>2. HoldsBlock(key)
    BY <1>1, <1>5 DEF PageInv
  <2>3. /\ ids \in Seq(Txid)
        /\ \A i \in DOMAIN ids : ids[i] \in DOMAIN txs
    BY <1>1, <2>1, <2>2, ListingRows
  <2> DEFINE p == PageOf(ids, got.from)
  <2>4. p \in Seq(Txid)
    BY <2>1, <2>3, PageIsPart
  <2>5. CASE got.todo = <<>>
    <3> DEFINE x == [found |-> TRUE, from |-> got.from, rows |-> got.rows]
    <3>1. step' = "none" /\ reply' = [route |-> route, body |-> x]
      BY <2>5 DEF ReadRow, Answer
    <3>2. x # Failed
      BY DEF Failed
    <3>3. /\ \A row \in Range(x.rows) : row.block = key
          /\ [i \in DOMAIN x.rows |-> x.rows[i].id] = p
      <4>1. /\ Len(got.rows) \in Nat /\ DOMAIN got.rows = 1..Len(got.rows)
            /\ Len(p) = Len(got.rows)
            /\ \A i \in 1..Len(got.rows) : got.rows[i].id = p[i] /\ got.rows[i].block = key
        <5>1. /\ got.rows \in Seq([id : Txid, block : BlockHash])
              /\ Len(p) = Len(got.rows) + Len(got.todo)
              /\ \A i \in 1..Len(got.rows) : got.rows[i].id = p[i] /\ got.rows[i].block = key
          BY <2>1 DEF PageSoFar
        <5>2. Len(got.todo) = 0
          BY <2>5
        <5> HIDE DEF p
        <5> QED BY <2>4, <5>1, <5>2
      <4> HIDE DEF p
      <4>2. p = [i \in 1..Len(p) |-> p[i]]
        BY <2>4
      <4> QED BY <4>1, <4>2 DEF Range
    <3>4. ids \in Listings(key)'
      BY <1>3, <2>1
    <3>5. PageOfBlock'
      <4>1. /\ x # Failed /\ \A row \in Range(x.rows) : row.block = key
            /\ [i \in DOMAIN x.rows |-> x.rows[i].id] =
                  SubSeq(ids, x.from + 1, Min({x.from + PageSize, Len(ids)}))
        BY <3>2, <3>3, ZenonT(30) DEF PageOf
      <4> HIDE DEF x
      <4> QED BY <1>2, <3>1, <3>4, <4>1, Zenon DEF PageOfBlock
    <3> QED BY <3>1, <3>5 DEF PageInv
  <2>6. CASE got.todo # <<>>
    <3>1. Head(got.todo) \in DOMAIN txs
      <4>1. Head(got.todo) \in Range(ids)
        BY <2>1, <2>3, <2>6, PageHead
      <4> QED BY <2>3, <4>1 DEF Range
    <3>2. /\ step' = "row_block" /\ UNCHANGED reply
          /\ got'.from = got.from /\ got'.rows = got.rows /\ got'.todo = got.todo
          /\ got'.height = txs[Head(got.todo)]
      <4> DEFINE r == [from |-> got.from, rows |-> got.rows, todo |-> got.todo,
                       height |-> txs[Head(got.todo)]]
      <4>1. Continue("row_block", r)
        BY <2>6, <3>1, Zenon DEF ReadRow
      <4>2. /\ r.from = got.from /\ r.rows = got.rows /\ r.todo = got.todo
            /\ r.height = txs[Head(got.todo)]
        OBVIOUS
      <4> HIDE DEF r
      <4> QED BY <4>1, <4>2 DEF Continue, seen
    <3>3. PageOfBlock'
      BY <1>1, <3>2 DEF PageOfBlock, AnsweredWhileGrowing, Answered
    <3>4. PageSoFar(PageOf(ids, got.from), got.rows, got.todo)'
      BY <1>2, <2>1, <3>2, Zenon DEF PageSoFar
    <3>5. \E l \in Listings(key)' : /\ got'.from \in 0..Len(l)
                                    /\ PageSoFar(PageOf(l, got.from), got.rows, got.todo)'
      BY <1>3, <2>1, <3>2, <3>4
    <3> QED BY <1>2, <1>3, <2>2, <2>6, <3>2, <3>3, <3>5 DEF PageInv
  <2> QED BY <2>5, <2>6
<1> QED BY <1>4, <1>5

\* The block at the height of the row is the one that was asked for.
LEMMA PageReadRowBlock ==
    ASSUME Base, PageInv, ReadRowBlock
    PROVE  PageInv'
<1>1. step = "row_block" /\ LinkedRows /\ reply = NULL
  BY DEF ReadRowBlock, Base, Routes
<1>2. UNCHANGED <<key, rolled, txs, blocks>>
  BY DEF ReadRowBlock, Continue, Answer, seen, storeVars, chainVars
<1>3. HoldsBlock(key)' = HoldsBlock(key) /\ Listings(key)' = Listings(key)
  BY <1>2 DEF HoldsBlock, Listings, BlockAtHeight
<1>4. CASE rolled
  <2>1. PageOfBlock'
    BY <1>2, <1>4 DEF PageOfBlock, AnsweredWhileGrowing
  <2>2. step' \in {"none", "row"}
    BY DEF ReadRowBlock, Continue, Answer
  <2> QED BY <1>2, <1>4, <2>1, <2>2 DEF PageInv
<1>5. CASE ~rolled
  <2>1. PICK ids \in Listings(key) :
            /\ got.from \in 0..Len(ids)
            /\ PageSoFar(PageOf(ids, got.from), got.rows, got.todo)
    BY <1>1, <1>5, Zenon DEF PageInv
  <2>2. HoldsBlock(key) /\ got.todo # <<>> /\ got.height = txs[Head(got.todo)]
    BY <1>1, <1>5 DEF PageInv
  <2>3. /\ ids \in Seq(Txid) /\ key \in BlockHash
        /\ \A i \in DOMAIN ids : BlockAtHeight(txs[ids[i]]) = key
    BY <1>1, <2>1, <2>2, ListingRows
  <2> DEFINE p == PageOf(ids, got.from)
             t == Head(got.todo)
             row == [id |-> t, block |-> key]
             n == Len(got.rows)
  <2>4. /\ t \in Range(ids) /\ t = p[n + 1] /\ n \in Nat /\ Len(got.todo) \in Nat \ {0}
    BY <2>1, <2>2, <2>3, PageHead
  <2>5. BlockAtHeight(got.height) = key /\ key # NULL
    BY <2>2, <2>3, <2>4, WriteAssumption DEF Range
  <2>6. /\ step' = "row" /\ UNCHANGED reply
        /\ got'.from = got.from /\ got'.rows = Append(got.rows, row)
        /\ got'.todo = Tail(got.todo)
    BY <2>5 DEF ReadRowBlock, Continue, seen
  <2>7. PageOfBlock'
    BY <1>1, <2>6 DEF PageOfBlock, AnsweredWhileGrowing, Answered
  <2>8. row \in [id : Txid, block : BlockHash] /\ row.id = t /\ row.block = key
    <3>1. t \in Txid
      BY <2>3, <2>4 DEF Range
    <3> QED BY <2>3, <3>1
  <2> HIDE DEF p, t, row, n
  <2>9. PageSoFar(p, Append(got.rows, row), Tail(got.todo))
    <3>1. /\ got.rows \in Seq([id : Txid, block : BlockHash]) /\ got.todo \in Seq(Txid)
          /\ Len(p) = n + Len(got.todo)
          /\ \A i \in 1..n : got.rows[i].id = p[i] /\ got.rows[i].block = key
          /\ \A i \in 1..Len(got.todo) : got.todo[i] = p[n + i]
      BY <2>1 DEF PageSoFar, p, n
    <3> DEFINE rows == Append(got.rows, row)
               todo == Tail(got.todo)
    <3>2. /\ rows \in Seq([id : Txid, block : BlockHash]) /\ Len(rows) = n + 1
          /\ \A i \in 1..n : rows[i] = got.rows[i]
          /\ rows[n + 1] = row
      <4>1. ASSUME NEW T, NEW q \in Seq(T), NEW y \in T
            PROVE  /\ Append(q, y) \in Seq(T) /\ Len(Append(q, y)) = Len(q) + 1
                   /\ \A i \in 1..Len(q) : Append(q, y)[i] = q[i]
                   /\ Append(q, y)[Len(q) + 1] = y
        OBVIOUS
      <4> QED BY <2>8, <3>1, <4>1 DEF n
    <3>3. /\ todo \in Seq(Txid) /\ Len(todo) = Len(got.todo) - 1
          /\ \A i \in 1..Len(todo) : todo[i] = got.todo[i + 1]
      BY <2>2, <3>1
    <3> HIDE DEF rows, todo
    <3>4. Len(p) = Len(rows) + Len(todo)
      <4>1. n \in Nat /\ Len(got.todo) \in Nat /\ Len(p) = n + Len(got.todo)
        BY <2>4, <3>1
      <4>2. Len(rows) = n + 1 /\ Len(todo) = Len(got.todo) - 1
        BY <3>2, <3>3
      <4>3. \A i, j \in Nat : i + j = (i + 1) + (j - 1)
        OBVIOUS
      <4> QED BY <4>1, <4>2, <4>3, Zenon
    <3>5. ASSUME NEW i \in 1..Len(rows) PROVE rows[i].id = p[i] /\ rows[i].block = key
      <4>1. CASE i \in 1..n
        BY <3>1, <3>2, <4>1
      <4>2. CASE i = n + 1
        BY <2>4, <2>8, <3>2, <4>2
      <4> QED BY <2>4, <3>2, <4>1, <4>2
    <3>6. ASSUME NEW i \in 1..Len(todo) PROVE todo[i] = p[Len(rows) + i]
      <4>1. i + 1 \in 1..Len(got.todo) /\ n + (i + 1) = Len(rows) + i
        BY <2>4, <3>2, <3>3
      <4> QED BY <3>1, <3>3, <4>1
    <3> QED BY <3>2, <3>3, <3>4, <3>5, <3>6 DEF PageSoFar, rows, todo
  <2>10. PageSoFar(PageOf(ids, got.from), got.rows, got.todo)'
    BY <1>2, <2>6, <2>9 DEF PageSoFar, p
  <2>11. \E l \in Listings(key)' : /\ got'.from \in 0..Len(l)
                                   /\ PageSoFar(PageOf(l, got.from), got.rows, got.todo)'
    BY <1>3, <2>1, <2>6, <2>10
  <2> QED BY <1>2, <1>3, <2>2, <2>6, <2>7, <2>11, Zenon DEF PageInv
<1> QED BY <1>4, <1>5

\* Each query of blockTxs finds what belongs to the page.
LEMMA PageOwn ==
    ASSUME Base, PageInv, BlockHandler
    PROVE  PageInv'
<1>1. reply = NULL
  BY HandlerRoutes DEF Base, Routes
<1>2. CASE ReadHeader
  <2>1. CASE BlockByHash(key) = {}
    <3>1. step' = "none" /\ reply' = [route |-> route, body |-> NotFound]
      BY <1>2, <2>1 DEF ReadHeader, Answer
    <3> QED BY <3>1, Zenon DEF PageInv, PageOfBlock
  <2>2. CASE BlockByHash(key) # {}
    <3>1. PICK h \in BlockByHash(key) :
              Continue(IF route = "status" THEN "next_best" ELSE "txids", [height |-> h])
      BY <1>2, <2>2, Zenon DEF ReadHeader
    <3>2. step' \in {"next_best", "txids"} /\ UNCHANGED <<key, blocks, reply>>
      BY <3>1 DEF Continue, seen, storeVars, chainVars
    <3>3. h \in DOMAIN blocks /\ blocks[h] = key
      BY DEF BlockByHash
    <3>4. HoldsBlock(key)'
      BY <3>2, <3>3 DEF HoldsBlock
    <3> QED BY <1>1, <3>2, <3>4, Zenon DEF PageInv, PageOfBlock, AnsweredWhileGrowing, Answered
  <2> QED BY <2>1, <2>2
<1>3. CASE ReadNextBest
  <2>1. route = "status"
    BY <1>3 DEF ReadNextBest, Base, Routes
  <2>2. step' = "none" /\ reply'.route = route
    BY <1>3 DEF ReadNextBest, Answer
  <2> QED BY <2>1, <2>2, Zenon DEF PageInv, PageOfBlock, AnsweredWhileGrowing, Answered
<1> QED BY <1>2, <1>3, PageTxids, PageReadRow, PageReadRowBlock DEF BlockHandler

\* The invariant of blockTxs is inductive beside Base.
LEMMA PageStep == Base /\ PageInv /\ [ApiNext]_apiVars => PageInv'
<1> SUFFICES ASSUME Base, PageInv, [ApiNext]_apiVars PROVE PageInv'
  OBVIOUS
<1>1. Routes /\ Base'
  BY BaseStep DEF Base
<1> QED BY <1>1, StepKinds, PageFrame, PageOwn, PageBeside, Zenon

\* A page of blockTxs holds the transactions of the block that was asked for, in body
\* order from the index on, for every block, page size and index, and no request for one
\* fails while the chain grows between its queries.
THEOREM ApiPageOfBlock == ApiSpec => []PageOfBlock
<1>1. ApiInit => Base /\ PageInv
  <2> SUFFICES ASSUME ApiInit PROVE Base /\ PageInv
    OBVIOUS
  <2>1. PageInv
    BY DEF ApiInit, PageInv, PageOfBlock, AnsweredWhileGrowing, Answered
  <2> QED BY <2>1, ApiInitInv
<1>2. PageInv => PageOfBlock
  BY DEF PageInv
<1> QED BY <1>1, <1>2, PageStep, BaseStep, PTL DEF ApiSpec

\* The answers of tx, blockStatus, blockTxs and outspends, which find a block by a height
\* or a txid that an earlier query read, find the right one while the chain only grows.
THEOREM ApiAnswersOfOneBlock ==
    ASSUME Consensus
    PROVE  ApiSpec => []AnswersOfOneBlock
<1>1. MinedTxWhole /\ NextBestIsChild /\ OutspendInItsBlock /\ PageOfBlock => AnswersOfOneBlock
  BY DEF AnswersOfOneBlock
<1> QED BY <1>1, ApiMinedTxWhole, ApiBlocksByHeight, ApiPageOfBlock, PTL
=============================================================================
