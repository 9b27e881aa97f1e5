------------------------------ MODULE ApiProofs ------------------------------
(***************************************************************************)
(* Proofs about Api: what a handler that runs several queries may answer   *)
(* while the syncers write between them.                                   *)
(***************************************************************************)
EXTENDS Api, StoreProofs, FiniteSetTheorems

\* A leaf may take the solver longer than it is given by default.
USE SMTT(20), Zenon

-----------------------------------------------------------------------------
(***************************************************************************)
(* The inductive invariant.  Each part says what the results at hand are   *)
(* still worth when the next query runs, whatever was written meanwhile.   *)
(***************************************************************************)
UtxoSteps == {"utxos", "spent", "pending"}
TxSteps == {"tx", "block", "vin", "vout", "mempool_tx", "mempool_vin", "mempool_vout"}

\* One request at a time is followed, and its statements are those of its handler.
Routes ==
    /\ rolled \in BOOLEAN
    /\ route # "none" => reply = NULL
    /\ step \in UtxoSteps => route = "utxo"
    /\ step \in TxSteps => route = "tx"
    /\ step = "header" => route \in {"status", "txs"}
    /\ step = "next_best" => route = "status"
    /\ step \in {"txids", "row", "row_block"} => route = "txs"
    /\ step \in {"outspends", "spend"} => route = "outspends"
    /\ step \in {"recent", "feed"} => route = "recent"

\* What belonged to the answer all the time belongs to it now, and what belongs to it
\* now did so at some moment.
Kept ==
    /\ route # "none" => always \subseteq Certain(route, key)
    /\ Possible(route, key) \subseteq ever

Base == LinkedRows /\ Routes /\ Kept

\* addressUTXOs: no steady coin was lost, and a coin that no moment would list was
\* spent on the chain.
UtxoInv ==
    /\ step = "spent" =>
          /\ always \subseteq got.rows
          /\ ~rolled => got.rows \subseteq UTXOs(key) \cup DOMAIN spent
    /\ step = "pending" =>
          /\ always \subseteq withoutSpent(got.rows, got.keys)
          /\ ~rolled => withoutSpent(got.rows, got.keys) \subseteq ever \cup DOMAIN spent
    /\ SteadyCoinsListed
    /\ LateOnlyByBlock

\* tx: a row that was there all the time is at the height that was read.
TxInv ==
    /\ step = "block" /\ "txs" \in always => key \in DOMAIN txs /\ txs[key] = got.height
    /\ step = "mempool_tx" => "txs" \notin always
    /\ SteadyTxFound

\* blockStatus: the block is still at the height that was read.
StatusInv ==
    /\ step = "next_best" /\ ~rolled =>
          got.height \in DOMAIN blocks /\ blocks[got.height] = key
    /\ NextBestIsChild

\* outspends: the block that spent a coin is still at the height the row says.
Spends(b, o, row) == o \in DOMAIN Write[b].spends /\ row = SpendRow(b, o)

OutspendsInv ==
    /\ step = "spend" /\ ~rolled =>
          /\ \A c \in got.todo : c.spend # NULL =>
                /\ c.spend.height \in DOMAIN blocks
                /\ Spends(blocks[c.spend.height], c.coin, c.spend)
          /\ \A x \in got.out : x.by # NULL => Spends(x.block, x.coin, x.by)
    /\ OutspendInItsBlock

\* recentActivity: the mempool's part of the list is full, or it has everything steady
\* that the chain does not have by now.
Pending(ids) == {[id |-> t, height |-> -1, ordinal |-> 0] : t \in ids}

FeedInv ==
    /\ step = "feed" /\ ~rolled =>
          \E ids \in SUBSET Txid :
             /\ got = Pending(ids)
             /\ Cardinality(ids) <= ListSize
             /\ Cardinality(ids) = ListSize \/ always \subseteq ids \cup DOMAIN txs
    /\ FeedLosesNothing

-----------------------------------------------------------------------------
\* The statements of each handler.
UtxoHandler == ReadUTXOs \/ ReadSpent \/ ReadPending
TxHandler ==
    \/ ReadTx \/ ReadBlock \/ ReadVin \/ ReadVout
    \/ ReadMempoolTx \/ ReadMempoolVin \/ ReadMempoolVout
BlockHandler == ReadHeader \/ ReadNextBest \/ ReadTxids \/ ReadRow \/ ReadRowBlock
OutspendsHandler == ReadOutspends \/ ReadSpend
RecentHandler == ReadRecent \/ ReadFeed

\* The statements that a request begins with.
FirstSteps == {"utxos", "tx", "header", "outspends", "recent"}

\* A request that comes in, or goes out, or a statement of one that is not of route r.
Elsewhere(r) ==
    \/ \E n, x : route # r /\ Continue(n, x)
    \/ \E x : route # r /\ Answer(x)
    \/ \E q, k, n : n \in FirstSteps /\ Request(q, k, n)
    \/ Deliver
    \/ UNCHANGED apiVars

\* A request reads; only the syncers write.
LEMMA RequestsRead == ASSUME RequestStep PROVE UNCHANGED storeVars
BY Zenon DEF RequestStep, Request, ReadUTXOs, ReadSpent, ReadPending, ReadTx, ReadBlock, ReadVin,
       ReadVout, ReadMempoolTx, ReadMempoolVin, ReadMempoolVout, ReadHeader, ReadNextBest,
       ReadTxids, ReadRow, ReadRowBlock, ReadOutspends, ReadSpend, ReadRecent, ReadFeed,
       Deliver, Continue, Answer

\* What the requests run beside are the store calls of LinkedSpec.
LEMMA ApiIsLinked == [ApiNext]_apiVars => [LinkedNext]_storeVars
<1> SUFFICES ASSUME [ApiNext]_apiVars PROVE LinkedNext \/ UNCHANGED storeVars
  OBVIOUS
<1>1. CASE RequestStep
  BY <1>1, RequestsRead
<1>2. CASE Beside(Grows, FALSE)
  BY <1>2 DEF Beside, Grows, LinkedNext
<1>3. CASE Beside(Shrinks, TRUE)
  BY <1>3 DEF Beside, Shrinks, LinkedNext
<1>4. CASE UNCHANGED apiVars
  BY <1>4 DEF apiVars
<1> QED BY <1>1, <1>2, <1>3, <1>4, Zenon DEF ApiNext

\* Each handler goes through its own statements.
LEMMA RoutesStep == ASSUME Routes, [ApiNext]_apiVars PROVE Routes'
<1>1. ASSUME NEW r, NEW k, NEW n, Request(r, k, n),
             <<r, n>> \in {<<"utxo", "utxos">>, <<"tx", "tx">>, <<"status", "header">>,
                           <<"txs", "header">>, <<"outspends", "outspends">>,
                           <<"recent", "recent">>}
      PROVE  Routes'
  BY <1>1 DEF Routes, UtxoSteps, TxSteps, Request
<1>2. CASE ReadUTXOs \/ ReadSpent
  BY <1>2 DEF Routes, UtxoSteps, TxSteps, ReadUTXOs, ReadSpent, Continue, seen
<1>3. ASSUME NEW x, Answer(x) PROVE Routes'
  BY <1>3 DEF Routes, UtxoSteps, TxSteps, Answer
<1>4. CASE ReadTx \/ ReadBlock \/ ReadVin \/ ReadMempoolTx \/ ReadMempoolVin
  <2>1. ASSUME step \in TxSteps, step' \in TxSteps, UNCHANGED <<route, seen>> PROVE Routes'
    BY <2>1 DEF Routes, UtxoSteps, TxSteps, seen
  <2>2. CASE ReadTx
    BY <2>1, <2>2 DEF TxSteps, ReadTx, Continue
  <2>3. CASE ReadBlock
    BY <2>1, <2>3 DEF TxSteps, ReadBlock, Continue
  <2>4. CASE ReadVin
    BY <2>1, <2>4 DEF TxSteps, ReadVin, Continue
  <2>5. CASE ReadMempoolTx
    BY <1>3, <2>1, <2>5 DEF TxSteps, ReadMempoolTx, Continue
  <2>6. CASE ReadMempoolVin
    BY <2>1, <2>6 DEF TxSteps, ReadMempoolVin, Continue
  <2> QED BY <1>4, <2>2, <2>3, <2>4, <2>5, <2>6
<1>5. CASE ReadHeader
  BY <1>3, <1>5 DEF Routes, UtxoSteps, TxSteps, ReadHeader, Continue, seen
<1>6. CASE ReadTxids \/ ReadRow \/ ReadRowBlock
  <2>1. ASSUME NEW n \in {"row", "row_block"}, NEW x, Continue(n, x),
               step \in {"txids", "row", "row_block"}
        PROVE  Routes'
    BY <2>1 DEF Routes, UtxoSteps, TxSteps, Continue, seen
  <2> QED BY <1>3, <1>6, <2>1, Zenon DEF ReadTxids, ReadRow, ReadRowBlock
<1>7. CASE ReadOutspends \/ ReadSpend
  <2>1. ASSUME NEW x, Continue("spend", x), step \in {"outspends", "spend"} PROVE Routes'
    BY <2>1 DEF Routes, UtxoSteps, TxSteps, Continue, seen
  <2> QED BY <1>3, <1>7, <2>1, Zenon DEF ReadOutspends, ReadSpend
<1>8. CASE ReadRecent
  BY <1>8 DEF Routes, UtxoSteps, TxSteps, ReadRecent, Continue, seen
<1>9. CASE Deliver
  BY <1>9, Zenon DEF Routes, UtxoSteps, TxSteps, Deliver
<1>10. CASE UNCHANGED apiVars
  BY <1>10 DEF Routes, UtxoSteps, TxSteps, apiVars, asked, seen
<1>11. CASE RequestStep
  BY <1>1, <1>2, <1>3, <1>4, <1>5, <1>6, <1>7, <1>8, <1>9, <1>11, Zenon
     DEF RequestStep, ReadPending, ReadVout, ReadMempoolVout, ReadNextBest, ReadFeed
<1>12. CASE Beside(Grows, FALSE) \/ Beside(Shrinks, TRUE)
  BY <1>12, Zenon DEF Routes, UtxoSteps, TxSteps, Beside, asked
<1> QED BY <1>10, <1>11, <1>12, Zenon DEF ApiNext

\* always and ever follow the tables: each write takes in what it leaves.
LEMMA KeptStep == ASSUME Routes, Kept, [ApiNext]_apiVars PROVE Kept'
<1>1. ASSUME NEW r, NEW k, NEW n, Request(r, k, n) PROVE Kept'
  <2>1. UNCHANGED storeVars
    BY <1>1 DEF Request
  <2>2. route' = r /\ key' = k /\ ever' = Possible(r, k) /\ always' = Certain(r, k)
    BY <1>1 DEF Request
  <2>3. Possible(r, k)' = Possible(r, k) /\ Certain(r, k)' = Certain(r, k)
    BY <2>1 DEF Possible, Certain, Holdings, UTXOs, Mine, MempoolSpentOutpoints,
                MempoolUTXOs, MempoolMine, storeVars, chainVars, mempoolVars
  <2> QED BY <2>2, <2>3 DEF Kept
<1>2. ASSUME UNCHANGED <<storeVars, always, ever>>, route' = "none" \/ UNCHANGED <<route, key>>
      PROVE  Kept'
  <2>1. Possible(route, key)' = Possible(route', key') /\ Certain(route, key)' = Certain(route', key')
    BY <1>2 DEF Possible, Certain, Holdings, UTXOs, Mine, MempoolSpentOutpoints,
                MempoolUTXOs, MempoolMine, storeVars, chainVars, mempoolVars
  <2>2. Possible("none", key') = {}
    BY DEF Possible
  <2> QED BY <1>2, <2>1, <2>2 DEF Kept
<1>3. ASSUME NEW n, NEW x, Continue(n, x) PROVE Kept'
  BY <1>2, <1>3 DEF Continue, seen
<1>4. ASSUME NEW x, Answer(x) PROVE Kept'
  BY <1>2, <1>4 DEF Answer
<1>5. CASE Deliver
  <2>1. route = "none" /\ UNCHANGED route /\ always' = {} /\ ever' = {}
    BY <1>5 DEF Deliver, Routes
  <2> QED BY <2>1 DEF Kept, Possible
<1>6. CASE Beside(Grows, FALSE) \/ Beside(Shrinks, TRUE)
  <2>1. /\ ever' = ever \cup Possible(route, key)'
        /\ always' = always \cap Certain(route, key)'
    BY <1>6 DEF Beside
  <2> QED BY <2>1 DEF Kept
<1>7. CASE UNCHANGED apiVars
  BY <1>2, <1>7 DEF apiVars, asked, seen
<1>8. CASE RequestStep
  BY <1>1, <1>3, <1>4, <1>5, <1>8, Zenon
     DEF RequestStep, ReadUTXOs, ReadSpent, ReadPending, ReadTx, ReadBlock, ReadVin,
         ReadVout, ReadMempoolTx, ReadMempoolVin, ReadMempoolVout, ReadHeader, ReadNextBest,
         ReadTxids, ReadRow, ReadRowBlock, ReadOutspends, ReadSpend, ReadRecent, ReadFeed
<1> QED BY <1>6, <1>7, <1>8, Zenon DEF ApiNext

\* The tables stay linked and the requests in order.
LEMMA BaseStep == Base /\ [ApiNext]_apiVars => Base'
BY LinkedStep, ApiIsLinked, RoutesStep, KeptStep DEF Base

\* A rollback leaves the rows that it does not delete as they are.
LEMMA ShrinksKeeps ==
    ASSUME Shrinks
    PROVE  \A t \in DOMAIN txs' : t \in DOMAIN txs /\ txs'[t] = txs[t]
BY RestrictFacts DEF Shrinks, RollbackHeld, Rollback

\* A statement goes on to another one or answers.
LEMMA HandlerKinds ==
    ASSUME UtxoHandler \/ TxHandler \/ BlockHandler \/ OutspendsHandler \/ RecentHandler
    PROVE  (\E n, x : Continue(n, x)) \/ (\E x : Answer(x))
<1>1. CASE UtxoHandler
  BY <1>1 DEF UtxoHandler, ReadUTXOs, ReadSpent, ReadPending
<1>2. CASE TxHandler
  BY <1>2 DEF TxHandler, ReadTx, ReadBlock, ReadVin, ReadVout, ReadMempoolTx,
              ReadMempoolVin, ReadMempoolVout
<1>3. CASE BlockHandler
  BY <1>3, Zenon DEF BlockHandler, ReadHeader, ReadNextBest, ReadTxids, ReadRow, ReadRowBlock
<1>4. CASE OutspendsHandler
  BY <1>4, Zenon DEF OutspendsHandler, ReadOutspends, ReadSpend
<1>5. CASE RecentHandler
  BY <1>5, Zenon DEF RecentHandler, ReadRecent, ReadFeed
<1> QED BY <1>1, <1>2, <1>3, <1>4, <1>5

\* Each statement is one of the handler that runs.
LEMMA HandlerRoutes ==
    ASSUME Routes
    PROVE  /\ UtxoHandler => route = "utxo"
           /\ TxHandler => route = "tx"
           /\ BlockHandler => route \in {"status", "txs"}
           /\ OutspendsHandler => route = "outspends"
           /\ RecentHandler => route = "recent"
<1>1. UtxoHandler => route = "utxo"
  BY DEF UtxoHandler, ReadUTXOs, ReadSpent, ReadPending, Routes, UtxoSteps
<1>2. TxHandler => route = "tx"
  BY DEF TxHandler, ReadTx, ReadBlock, ReadVin, ReadVout, ReadMempoolTx, ReadMempoolVin,
         ReadMempoolVout, Routes, TxSteps
<1>3. BlockHandler => route \in {"status", "txs"}
  BY DEF BlockHandler, ReadHeader, ReadNextBest, ReadTxids, ReadRow, ReadRowBlock, Routes
<1>4. OutspendsHandler => route = "outspends"
  BY DEF OutspendsHandler, ReadOutspends, ReadSpend, Routes
<1>5. RecentHandler => route = "recent"
  BY DEF RecentHandler, ReadRecent, ReadFeed, Routes
<1> QED BY <1>1, <1>2, <1>3, <1>4, <1>5

\* So a request is only touched by the statements of its own handler.
LEMMA RequestKinds ==
    ASSUME Routes, RequestStep
    PROVE  /\ UtxoHandler \/ Elsewhere("utxo")
           /\ TxHandler \/ Elsewhere("tx")
           /\ BlockHandler \/ Elsewhere("status")
           /\ BlockHandler \/ Elsewhere("txs")
           /\ OutspendsHandler \/ Elsewhere("outspends")
           /\ RecentHandler \/ Elsewhere("recent")
<1>1. CASE UtxoHandler \/ TxHandler \/ BlockHandler \/ OutspendsHandler \/ RecentHandler
  <2>1. ASSUME NEW r, route # r PROVE Elsewhere(r)
    BY <1>1, <2>1, HandlerKinds DEF Elsewhere
  <2> QED BY <1>1, <2>1, HandlerRoutes
<1>2. ASSUME NEW q, NEW k, NEW n, n \in FirstSteps, Request(q, k, n), NEW r
      PROVE  Elsewhere(r)
  BY <1>2 DEF Elsewhere
<1>3. ASSUME Deliver, NEW r PROVE Elsewhere(r)
  BY <1>3 DEF Elsewhere
<1> QED BY <1>1, <1>2, <1>3 DEF RequestStep, FirstSteps, UtxoHandler, TxHandler,
                               BlockHandler, OutspendsHandler, RecentHandler

\* What happens elsewhere changes no answer that is on its way, and leaves a request
\* of route r where it is.
LEMMA ElsewhereKeeps ==
    ASSUME Routes, NEW r, r # "none", Elsewhere(r)
    PROVE  /\ Answered(r)' => Answered(r) /\ UNCHANGED <<seen, key, storeVars>>
           /\ UNCHANGED apiVars \/ route' # r \/ step' \in FirstSteps
<1>1. ASSUME NEW n, NEW x, route # r, Continue(n, x)
      PROVE  UNCHANGED <<seen, key, storeVars>> /\ route' # r
  BY <1>1 DEF Continue
<1>2. ASSUME NEW x, route # r, Answer(x)
      PROVE  ~Answered(r)' /\ route' # r
  BY <1>2 DEF Answer, Answered
<1>3. ASSUME NEW q, NEW k, NEW n, n \in FirstSteps, Request(q, k, n)
      PROVE  ~Answered(r)' /\ step' \in FirstSteps
  BY <1>3 DEF Request, Answered
<1>4. ASSUME Deliver
      PROVE  ~Answered(r)' /\ route' # r
  BY <1>4 DEF Deliver, Answered, Routes
<1>5. ASSUME UNCHANGED apiVars
      PROVE  UNCHANGED <<seen, key, storeVars>>
  BY <1>5 DEF apiVars, asked
<1>6. UNCHANGED seen => Answered(r)' = Answered(r)
  BY DEF seen, Answered
<1> QED BY <1>1, <1>2, <1>3, <1>4, <1>5, <1>6 DEF Elsewhere

\* No write comes between an answer and its delivery.
LEMMA BesideNoAnswer ==
    ASSUME NEW r, Beside(Grows, FALSE) \/ Beside(Shrinks, TRUE)
    PROVE  ~Answered(r)' /\ UNCHANGED asked
BY DEF Beside, Answered

-----------------------------------------------------------------------------
(***************************************************************************)
(* addressUTXOs.                                                           *)
(***************************************************************************)

\* The other handlers do not touch an address request.
LEMMA UtxoFrame ==
    ASSUME Base, Base', UtxoInv, Elsewhere("utxo")
    PROVE  UtxoInv'
<1>1. /\ Answered("utxo")' => Answered("utxo") /\ UNCHANGED <<seen, key, storeVars>>
      /\ UNCHANGED apiVars \/ route' # "utxo" \/ step' \in FirstSteps
  BY ElsewhereKeeps DEF Base
<1>2. UNCHANGED apiVars \/ step' \notin {"spent", "pending"}
  BY <1>1 DEF Base, Routes, UtxoSteps, FirstSteps
<1>3. SteadyCoinsListed' /\ LateOnlyByBlock'
  BY <1>1 DEF UtxoInv, SteadyCoinsListed, LateOnlyByBlock, AnsweredWhileGrowing, seen,
              storeVars, chainVars
<1>4. CASE UNCHANGED apiVars
  BY <1>3, <1>4 DEF UtxoInv, apiVars, asked, seen, storeVars, chainVars, UTXOs, Mine,
                    withoutSpent
<1>5. CASE step' \notin {"spent", "pending"}
  BY <1>3, <1>5 DEF UtxoInv
<1> QED BY <1>2, <1>4, <1>5

\* Each query keeps the steady coins, and keeps track of the others.
LEMMA UtxoOwn ==
    ASSUME Base, UtxoInv, UtxoHandler
    PROVE  UtxoInv'
<1>1. /\ route = "utxo" /\ reply = NULL
      /\ always \subseteq UTXOs(key) \ MempoolSpentOutpoints
      /\ Holdings(key) \subseteq ever
  BY HandlerRoutes DEF Base, Routes, Kept, Certain, Possible
<1>2. CASE ReadUTXOs
  <2>1. step' = "spent" /\ got'.rows = UTXOs(key) /\ UNCHANGED <<seen, key, storeVars>>
    BY <1>2 DEF ReadUTXOs, Continue
  <2>2. UTXOs(key)' = UTXOs(key)
    BY <2>1 DEF UTXOs, Mine, storeVars, chainVars
  <2> QED BY <1>1, <2>1, <2>2 DEF UtxoInv, SteadyCoinsListed, LateOnlyByBlock, Answered,
                                  AnsweredWhileGrowing, seen
<1>3. CASE ReadSpent
  <2>1. /\ step' = "pending" /\ got'.rows = got.rows /\ got'.keys = MempoolSpentOutpoints
        /\ UNCHANGED <<seen, key, storeVars>> /\ step = "spent"
    BY <1>3 DEF ReadSpent, Continue
  <2>2. always \subseteq withoutSpent(got'.rows, got'.keys)
    BY <1>1, <2>1 DEF UtxoInv, withoutSpent
  <2>3. ~rolled => withoutSpent(got'.rows, got'.keys) \subseteq ever \cup DOMAIN spent
    BY <1>1, <2>1 DEF UtxoInv, withoutSpent, Holdings
  <2> QED BY <1>1, <2>1, <2>2, <2>3
          DEF UtxoInv, SteadyCoinsListed, LateOnlyByBlock, Answered, AnsweredWhileGrowing,
              seen, storeVars, chainVars, withoutSpent
<1>4. CASE ReadPending
  <2> DEFINE body == withoutSpent(got.rows, got.keys) \cup MempoolUTXOs(key)
  <2>1. /\ step = "pending" /\ step' = "none" /\ reply' = [route |-> route, body |-> body]
        /\ UNCHANGED <<ever, always, rolled, spent>>
    BY <1>4 DEF ReadPending, Answer, storeVars, chainVars
  <2>2. always \subseteq body
    BY <2>1 DEF UtxoInv
  <2>3. ~rolled => body \ ever \subseteq DOMAIN spent
    BY <1>1, <2>1 DEF UtxoInv, Holdings
  <2> HIDE DEF body
  <2> QED BY <2>1, <2>2, <2>3 DEF UtxoInv, SteadyCoinsListed, LateOnlyByBlock, Answered,
                                  AnsweredWhileGrowing
<1> QED BY <1>2, <1>3, <1>4 DEF UtxoHandler

\* A write between two queries: what is steady stays in hand, and a coin that leaves
\* the unspent ones of a growing chain was spent there.
LEMMA UtxoBeside ==
    ASSUME Base, UtxoInv, Beside(Grows, FALSE) \/ Beside(Shrinks, TRUE)
    PROVE  UtxoInv'
<1>1. SteadyCoinsListed' /\ LateOnlyByBlock'
  BY BesideNoAnswer, Zenon DEF SteadyCoinsListed, LateOnlyByBlock, AnsweredWhileGrowing
<1>2. UNCHANGED <<route, key, step, got>> /\ always' \subseteq always /\ ever \subseteq ever'
  BY DEF Beside, asked
<1>3. CASE Beside(Grows, FALSE)
  <2>1. Grows /\ rolled' = rolled
    BY <1>3 DEF Beside, Base, Routes
  <2>2. UTXOs(key) \subseteq UTXOs(key)' \cup DOMAIN spent' /\ DOMAIN spent \subseteq DOMAIN spent'
    BY <1>2, <2>1, GrowsKeeps DEF UTXOs, Mine
  <2> QED BY <1>1, <1>2, <2>1, <2>2 DEF UtxoInv, withoutSpent
<1>4. CASE Beside(Shrinks, TRUE)
  <2>1. route # "none" => rolled'
    BY <1>4, Zenon DEF Beside
  <2>2. step \in {"spent", "pending"} => rolled'
    BY <2>1 DEF Base, Routes, UtxoSteps
  <2> QED BY <1>1, <1>2, <2>2 DEF UtxoInv, withoutSpent
<1> QED BY <1>3, <1>4, Zenon

-----------------------------------------------------------------------------
(***************************************************************************)
(* tx.                                                                     *)
(***************************************************************************)

\* The other handlers do not touch a transaction request.
LEMMA TxFrame ==
    ASSUME Base, Base', TxInv, Elsewhere("tx")
    PROVE  TxInv'
<1>1. /\ Answered("tx")' => Answered("tx") /\ UNCHANGED <<seen, key, storeVars>>
      /\ UNCHANGED apiVars \/ route' # "tx" \/ step' \in FirstSteps
  BY ElsewhereKeeps DEF Base
<1>2. UNCHANGED apiVars \/ step' \notin {"block", "mempool_tx"}
  BY <1>1 DEF Base, Routes, TxSteps, FirstSteps
<1>3. SteadyTxFound'
  BY <1>1 DEF TxInv, SteadyTxFound, seen
<1>4. CASE UNCHANGED apiVars
  BY <1>3, <1>4 DEF TxInv, apiVars, asked, seen, storeVars, chainVars
<1>5. CASE step' \notin {"block", "mempool_tx"}
  BY <1>3, <1>5 DEF TxInv
<1> QED BY <1>2, <1>4, <1>5

\* The lookup falls through to the mempool only when the chain's row was gone at some
\* moment, and answers that there is nothing only when the mempool's was, too.
LEMMA TxOwn ==
    ASSUME Base, TxInv, TxHandler
    PROVE  TxInv'
<1>1. /\ route = "tx" /\ reply = NULL
      /\ "txs" \in always => key \in DOMAIN txs
      /\ "mempool_txs" \in always => key \in DOMAIN mempool_txs
      /\ always \subseteq {"txs", "mempool_txs"}
  BY HandlerRoutes DEF Base, Routes, Kept, Certain
<1>2. ASSUME NEW n, NEW x, Continue(n, x)
      PROVE  /\ SteadyTxFound' /\ UNCHANGED <<key, always, txs>>
             /\ step' = n /\ got' = x
  BY <1>1, <1>2 DEF Continue, seen, storeVars, chainVars, SteadyTxFound, Answered
<1>3. ASSUME NEW x, Answer(x), always # {} => x.found PROVE TxInv'
  BY <1>3 DEF Answer, TxInv, SteadyTxFound, Answered
<1>4. CASE ReadTx
  <2>1. CASE key \in DOMAIN txs
    <3>1. Continue("block", [height |-> txs[key]])
      BY <1>4, <2>1 DEF ReadTx
    <3>2. /\ SteadyTxFound' /\ UNCHANGED <<key, always, txs>>
          /\ step' = "block" /\ got'.height = txs[key]
      BY <1>2, <3>1
    <3> QED BY <2>1, <3>2 DEF TxInv
  <2>2. CASE key \notin DOMAIN txs
    <3>1. Continue("mempool_tx", NULL)
      BY <1>4, <2>2 DEF ReadTx
    <3> QED BY <1>1, <2>2, <3>1, <1>2 DEF TxInv
  <2> QED BY <2>1, <2>2
<1>5. CASE ReadBlock
  <2>1. CASE BlockAtHeight(got.height) = NULL
    <3>1. Continue("mempool_tx", NULL) /\ step = "block"
      BY <1>5, <2>1 DEF ReadBlock
    <3>2. "txs" \notin always
      <4> SUFFICES ASSUME "txs" \in always PROVE FALSE
        OBVIOUS
      <4>1. key \in DOMAIN txs /\ txs[key] = got.height
        BY <3>1 DEF TxInv
      <4>2. got.height \in DOMAIN blocks
        BY <4>1 DEF Base, LinkedRows, Rows, TxsExact
      <4>3. blocks[got.height] # NULL
        BY <4>2, WriteAssumption DEF Base, LinkedRows, TypeOK
      <4> QED BY <2>1, <4>2, <4>3 DEF BlockAtHeight
    <3> QED BY <1>2, <3>1, <3>2 DEF TxInv
  <2>2. CASE BlockAtHeight(got.height) # NULL
    <3>1. Continue("vin", [block |-> BlockAtHeight(got.height)])
      BY <1>5, <2>2 DEF ReadBlock
    <3>2. SteadyTxFound' /\ step' = "vin"
      BY <1>2, <3>1
    <3> QED BY <3>2 DEF TxInv
  <2> QED BY <2>1, <2>2
<1>6. CASE ReadVin \/ ReadMempoolVin
  <2>1. SteadyTxFound' /\ step' \in {"vout", "mempool_vout"}
    BY <1>1, <1>6 DEF ReadVin, ReadMempoolVin, Continue, seen, SteadyTxFound, Answered
  <2> QED BY <2>1 DEF TxInv
<1>7. CASE ReadVout
  <2>1. PICK x : x.found /\ Answer(x)
    <3> DEFINE x == [found |-> TRUE, confirmed |-> TRUE, block |-> got.block,
                     vin |-> got.vin, vout |-> TxVout(key)]
    <3>1. x.found /\ Answer(x)
      BY <1>7 DEF ReadVout
    <3> QED BY <3>1
  <2> QED BY <1>3, <2>1
<1>8. CASE ReadMempoolVout
  <2>1. PICK x : x.found /\ Answer(x)
    <3> DEFINE x == [found |-> TRUE, confirmed |-> FALSE, vin |-> got.vin,
                     vout |-> MempoolVout(key)]
    <3>1. x.found /\ Answer(x)
      BY <1>8 DEF ReadMempoolVout
    <3> QED BY <3>1
  <2> QED BY <1>3, <2>1
<1>9. CASE ReadMempoolTx
  <2>1. CASE key \in DOMAIN mempool_txs
    <3>1. Continue("mempool_vin", NULL)
      BY <1>9, <2>1 DEF ReadMempoolTx
    <3>2. SteadyTxFound' /\ step' = "mempool_vin"
      BY <1>2, <3>1
    <3> QED BY <3>2 DEF TxInv
  <2>2. CASE key \notin DOMAIN mempool_txs
    <3>1. Answer(NotFound) /\ step = "mempool_tx"
      BY <1>9, <2>2 DEF ReadMempoolTx
    <3>2. always = {}
      BY <1>1, <2>2, <3>1 DEF TxInv
    <3> QED BY <1>3, <3>1, <3>2
  <2> QED BY <2>1, <2>2
<1> QED BY <1>4, <1>5, <1>6, <1>7, <1>8, <1>9 DEF TxHandler

\* No write moves a row that stays: insertTxs keeps it, and a rollback deletes it or
\* leaves it alone.
LEMMA TxBeside ==
    ASSUME Base, Base', TxInv, Beside(Grows, FALSE) \/ Beside(Shrinks, TRUE)
    PROVE  TxInv'
<1>1. SteadyTxFound'
  BY BesideNoAnswer, Zenon DEF SteadyTxFound
<1>2. UNCHANGED <<route, key, step, got>> /\ always' \subseteq always
  BY DEF Beside, asked
<1>3. Grows \/ Shrinks
  BY DEF Beside
<1>4. \A t \in DOMAIN txs \cap DOMAIN txs' : txs'[t] = txs[t]
  BY <1>3, GrowsKeeps, ShrinksKeeps
<1>5. step = "block" /\ "txs" \in always' => key \in DOMAIN txs'
  BY <1>2 DEF Base, Routes, TxSteps, Kept, Certain
<1> QED BY <1>1, <1>2, <1>4, <1>5 DEF TxInv

-----------------------------------------------------------------------------
(***************************************************************************)
(* blockStatus.                                                            *)
(***************************************************************************)

\* The other handlers do not touch a status request.
LEMMA StatusFrame ==
    ASSUME Base, Base', StatusInv, Elsewhere("status")
    PROVE  StatusInv'
<1>1. /\ Answered("status")' => Answered("status") /\ UNCHANGED <<seen, key, storeVars>>
      /\ UNCHANGED apiVars \/ route' # "status" \/ step' \in FirstSteps
  BY ElsewhereKeeps DEF Base
<1>2. UNCHANGED apiVars \/ step' # "next_best"
  BY <1>1 DEF Base, Routes, FirstSteps
<1>3. NextBestIsChild'
  <2>1. CASE ~Answered("status")'
    BY <2>1 DEF NextBestIsChild, AnsweredWhileGrowing
  <2>2. CASE UNCHANGED <<reply, rolled, key>>
    BY <2>2 DEF StatusInv, NextBestIsChild, AnsweredWhileGrowing, Answered
  <2> QED BY <1>1, <2>1, <2>2 DEF seen
<1>4. CASE UNCHANGED apiVars
  BY <1>3, <1>4 DEF StatusInv, apiVars, asked, seen, storeVars, chainVars
<1>5. CASE step' # "next_best"
  BY <1>3, <1>5 DEF StatusInv
<1> QED BY <1>2, <1>4, <1>5

\* The block above the one that was found is its child, since the index is a chain.
LEMMA StatusOwn ==
    ASSUME Base, StatusInv, BlockHandler
    PROVE  StatusInv'
<1>1. route \in {"status", "txs"} /\ reply = NULL
  BY HandlerRoutes DEF Base, Routes
<1>2. ASSUME NEW n, NEW x, Continue(n, x)
      PROVE  NextBestIsChild' /\ step' = n /\ UNCHANGED <<key, blocks>>
  BY <1>1, <1>2 DEF Continue, seen, storeVars, chainVars, NextBestIsChild,
                    AnsweredWhileGrowing, Answered
<1>3. ASSUME step' # "next_best", NextBestIsChild' PROVE StatusInv'
  BY <1>3 DEF StatusInv
<1>4. ASSUME NEW x, Answer(x), route = "txs" \/ ~x.found PROVE StatusInv'
  <2>1. step' = "none" /\ reply' = [route |-> route, body |-> x]
    BY <1>4 DEF Answer
  <2> QED BY <1>3, <1>4, <2>1 DEF NextBestIsChild, AnsweredWhileGrowing, Answered
<1>5. CASE ReadHeader
  <2>1. CASE BlockByHash(key) = {}
    <3>1. Answer(NotFound) /\ ~NotFound.found
      BY <1>5, <2>1 DEF ReadHeader, NotFound
    <3> QED BY <1>4, <3>1
  <2>2. CASE BlockByHash(key) # {}
    <3>1. PICK h \in BlockByHash(key) :
              Continue(IF route = "status" THEN "next_best" ELSE "txids", [height |-> h])
      BY <1>5, <2>2 DEF ReadHeader
    <3>2. got'.height = h /\ NextBestIsChild' /\ UNCHANGED <<key, blocks>>
      BY <1>1, <3>1 DEF Continue, seen, storeVars, chainVars, NextBestIsChild,
                        AnsweredWhileGrowing, Answered
    <3>3. h \in DOMAIN blocks /\ blocks[h] = key
      BY DEF BlockByHash
    <3> QED BY <3>2, <3>3 DEF StatusInv
  <2> QED BY <2>1, <2>2
<1>6. CASE ReadNextBest
  <2> DEFINE x == [found |-> TRUE, next |-> BlockAtHeight(got.height + 1)]
  <2>1. /\ step = "next_best" /\ step' = "none" /\ reply' = [route |-> route, body |-> x]
        /\ UNCHANGED <<key, rolled>>
    BY <1>6 DEF ReadNextBest, Answer
  <2>2. ASSUME ~rolled, x.next # NULL PROVE Write[x.next].prev_hash = key
    <3> DEFINE h == got.height
    <3>1. h \in DOMAIN blocks /\ blocks[h] = key
      BY <2>1, <2>2 DEF StatusInv
    <3>2. h + 1 \in DOMAIN blocks /\ x.next = blocks[h + 1]
      BY <2>2 DEF BlockAtHeight
    <3>3. h \in Nat
      BY <3>1, WriteAssumption DEF Base, LinkedRows, TypeOK, Height
    <3>4. Write[blocks[h + 1]].prev_hash = IF h + 1 = 0 THEN NULL ELSE blocks[(h + 1) - 1]
      BY <3>2 DEF Base, LinkedRows, Linked, Held
    <3>5. (h + 1) - 1 = h /\ h + 1 # 0
      BY <3>3
    <3> QED BY <3>1, <3>2, <3>4, <3>5
  <2> HIDE DEF x
  <2>3. NextBestIsChild'
    BY <2>1, <2>2 DEF NextBestIsChild, AnsweredWhileGrowing, Answered
  <2> QED BY <1>3, <2>1, <2>3
<1>7. CASE ReadTxids \/ ReadRow \/ ReadRowBlock
  <2>1. route = "txs"
    BY <1>7 DEF ReadTxids, ReadRow, ReadRowBlock, Base, Routes
  <2>2. ASSUME NEW n, NEW x, Continue(n, x), n \in {"row", "row_block"} PROVE StatusInv'
    BY <1>2, <1>3, <2>2
  <2> QED BY <1>4, <1>7, <2>1, <2>2, ZenonT(30) DEF ReadTxids, ReadRow, ReadRowBlock
<1> QED BY <1>5, <1>6, <1>7 DEF BlockHandler

\* A growing chain keeps the block where it was.
LEMMA StatusBeside ==
    ASSUME Base, StatusInv, Beside(Grows, FALSE) \/ Beside(Shrinks, TRUE)
    PROVE  StatusInv'
<1>1. NextBestIsChild'
  BY BesideNoAnswer, Zenon DEF NextBestIsChild, AnsweredWhileGrowing
<1>2. UNCHANGED <<route, key, step, got>>
  BY DEF Beside, asked
<1>3. CASE Beside(Grows, FALSE)
  <2>1. Grows /\ rolled' = rolled
    BY <1>3 DEF Beside, Base, Routes
  <2> QED BY <1>1, <1>2, <2>1, GrowsKeeps DEF StatusInv
<1>4. CASE Beside(Shrinks, TRUE)
  <2>1. step = "next_best" => rolled'
    BY <1>4, Zenon DEF Beside, Base, Routes
  <2> QED BY <1>1, <1>2, <2>1 DEF StatusInv
<1> QED BY <1>3, <1>4, Zenon

-----------------------------------------------------------------------------
(***************************************************************************)
(* outspends.                                                              *)
(***************************************************************************)

\* The other handlers do not touch an outspends request.
LEMMA OutspendsFrame ==
    ASSUME Base, Base', OutspendsInv, Elsewhere("outspends")
    PROVE  OutspendsInv'
<1>1. /\ Answered("outspends")' => Answered("outspends") /\ UNCHANGED <<seen, key, storeVars>>
      /\ UNCHANGED apiVars \/ route' # "outspends" \/ step' \in FirstSteps
  BY ElsewhereKeeps DEF Base
<1>2. UNCHANGED apiVars \/ step' # "spend"
  BY <1>1 DEF Base, Routes, FirstSteps
<1>3. OutspendInItsBlock'
  <2>1. CASE ~Answered("outspends")'
    BY <2>1 DEF OutspendInItsBlock, AnsweredWhileGrowing
  <2>2. CASE UNCHANGED <<reply, rolled>>
    BY <2>2 DEF OutspendsInv, OutspendInItsBlock, AnsweredWhileGrowing, Answered
  <2> QED BY <1>1, <2>1, <2>2 DEF seen
<1>4. CASE UNCHANGED apiVars
  <2>1. UNCHANGED <<step, got, rolled, blocks>>
    BY <1>4 DEF apiVars, asked, seen, storeVars, chainVars
  <2> QED BY <1>3, <2>1 DEF OutspendsInv, Spends
<1>5. CASE step' # "spend"
  BY <1>3, <1>5 DEF OutspendsInv
<1> QED BY <1>2, <1>4, <1>5

\* A row that reads as spent names the height of the block that spent it.
LEMMA OutspendsRead ==
    ASSUME LinkedRows, NEW o \in DOMAIN spent
    PROVE  /\ spent[o].height \in DOMAIN blocks
           /\ Spends(blocks[spent[o].height], o, spent[o])
<1>1. PICK h \in DOMAIN blocks : IsSpendAt(o, h)
  BY DEF LinkedRows, Rows, SpentSound
<1>2. /\ o \in DOMAIN Write[blocks[h]].spends
      /\ spent[o] = [source |-> Write[blocks[h]].spends[o].source,
                     kind   |-> Write[blocks[h]].spends[o].kind,
                     height |-> h]
  BY <1>1 DEF IsSpendAt, Held
<1>3. spent[o].height = h
  BY <1>2
<1>4. Write[blocks[h]].height = h
  BY DEF LinkedRows, Rows, TipIsTop, Held
<1>5. spent[o] = SpendRow(blocks[h], o)
  BY <1>2, <1>4 DEF SpendRow
<1> QED BY <1>2, <1>3, <1>5 DEF Spends

\* The block is looked up at the height of the spend, and found.
LEMMA OutspendsOwn ==
    ASSUME Base, OutspendsInv, OutspendsHandler
    PROVE  OutspendsInv'
<1>1. reply = NULL
  BY HandlerRoutes DEF Base, Routes
<1>2. ASSUME NEW n, NEW x, Continue(n, x)
      PROVE  OutspendInItsBlock'
  BY <1>1, <1>2 DEF Continue, seen, OutspendInItsBlock, AnsweredWhileGrowing, Answered
<1>3. CASE ReadOutspends
  <2>1. /\ got' = [todo |-> Outspends(key), out |-> {}] /\ UNCHANGED blocks
        /\ OutspendInItsBlock'
    BY <1>2, <1>3 DEF ReadOutspends, Continue, storeVars, chainVars
  <2>2. ASSUME NEW c \in Outspends(key), c.spend # NULL
        PROVE  /\ c.spend.height \in DOMAIN blocks
               /\ Spends(blocks[c.spend.height], c.coin, c.spend)
    <3>1. PICK o \in TxVout(key) :
              c = [coin |-> o, height |-> outputs[o].height,
                   spend |-> IF o \in DOMAIN spent THEN spent[o] ELSE NULL]
      BY <2>2 DEF Outspends
    <3>2. o \in DOMAIN spent /\ c.spend = spent[o] /\ c.coin = o
      BY <2>2, <3>1
    <3> QED BY <3>2, OutspendsRead DEF Base
  <2>3. got'.todo = Outspends(key) /\ got'.out = {}
    BY <2>1
  <2> QED BY <2>1, <2>2, <2>3 DEF OutspendsInv, Spends
<1>4. CASE ReadSpend /\ got.todo = {}
  <2>1. /\ step = "spend" /\ step' = "none" /\ UNCHANGED rolled
        /\ reply' = [route |-> route, body |-> got.out]
    BY <1>4 DEF ReadSpend, Answer
  <2>2. ~rolled => \A x \in got.out : x.by # NULL => Spends(x.block, x.coin, x.by)
    BY <2>1 DEF OutspendsInv
  <2>3. OutspendInItsBlock'
    BY <2>1, <2>2 DEF OutspendInItsBlock, AnsweredWhileGrowing, Answered, Spends
  <2> QED BY <2>1, <2>3 DEF OutspendsInv
<1>5. CASE ReadSpend /\ got.todo # {}
  <2>1. PICK c \in got.todo : Continue("spend", [todo |-> got.todo \ {c},
                                                 out |-> got.out \cup {newOutspend(c)}])
    BY <1>5 DEF ReadSpend
  <2>2. /\ got'.todo = got.todo \ {c} /\ got'.out = got.out \cup {newOutspend(c)}
        /\ UNCHANGED <<rolled, blocks>>
    BY <2>1 DEF Continue, seen, storeVars, chainVars
  <2>3. OutspendInItsBlock'
    BY <1>1, <2>1 DEF Continue, seen, OutspendInItsBlock, AnsweredWhileGrowing, Answered
  <2>4. step = "spend"
    BY <1>5 DEF ReadSpend
  <2>5. ASSUME ~rolled, newOutspend(c).by # NULL
        PROVE  Spends(newOutspend(c).block, newOutspend(c).coin, newOutspend(c).by)
    <3>1. /\ newOutspend(c).by = c.spend
          /\ newOutspend(c).coin = c.coin
          /\ c.spend # NULL => newOutspend(c).block = BlockAtHeight(c.spend.height)
      BY DEF newOutspend
    <3>2. /\ c.spend.height \in DOMAIN blocks
          /\ Spends(blocks[c.spend.height], c.coin, c.spend)
      BY <2>4, <2>5, <3>1 DEF OutspendsInv
    <3> QED BY <2>5, <3>1, <3>2 DEF BlockAtHeight
  <2>6. ~rolled => \A x \in got'.out : x.by # NULL => Spends(x.block, x.coin, x.by)
    BY <2>2, <2>4, <2>5 DEF OutspendsInv
  <2>7. ~rolled => \A d \in got'.todo : d.spend # NULL =>
                      /\ d.spend.height \in DOMAIN blocks
                      /\ Spends(blocks[d.spend.height], d.coin, d.spend)
    BY <2>2, <2>4 DEF OutspendsInv
  <2> QED BY <2>2, <2>3, <2>6, <2>7 DEF OutspendsInv, Spends
<1> QED BY <1>3, <1>4, <1>5 DEF OutspendsHandler

\* A growing chain keeps the spending block where it was.
LEMMA OutspendsBeside ==
    ASSUME Base, OutspendsInv, Beside(Grows, FALSE) \/ Beside(Shrinks, TRUE)
    PROVE  OutspendsInv'
<1>1. OutspendInItsBlock'
  BY BesideNoAnswer, Zenon DEF OutspendInItsBlock, AnsweredWhileGrowing
<1>2. UNCHANGED <<route, key, step, got>>
  BY DEF Beside, asked
<1>3. CASE Beside(Grows, FALSE)
  <2>1. Grows /\ rolled' = rolled
    BY <1>3 DEF Beside, Base, Routes
  <2> QED BY <1>1, <1>2, <2>1, GrowsKeeps DEF OutspendsInv, Spends
<1>4. CASE Beside(Shrinks, TRUE)
  <2>1. step = "spend" => rolled'
    BY <1>4, Zenon DEF Beside, Base, Routes
  <2> QED BY <1>1, <1>2, <2>1 DEF OutspendsInv
<1> QED BY <1>3, <1>4, Zenon


-----------------------------------------------------------------------------
(***************************************************************************)
(* recentActivity.  The tables are finite, since a txid and an outpoint    *)
(* have a fixed number of bytes.                                           *)
(***************************************************************************)

\* The other handlers do not touch a request for the feed.
LEMMA FeedFrame ==
    ASSUME Base, Base', FeedInv, Elsewhere("recent")
    PROVE  FeedInv'
<1>1. /\ Answered("recent")' => Answered("recent") /\ UNCHANGED <<seen, key, storeVars>>
      /\ UNCHANGED apiVars \/ route' # "recent" \/ step' \in FirstSteps
  BY ElsewhereKeeps DEF Base
<1>2. UNCHANGED apiVars \/ step' # "feed"
  BY <1>1 DEF Base, Routes, FirstSteps
<1>3. FeedLosesNothing'
  <2>1. CASE ~Answered("recent")'
    BY <2>1 DEF FeedLosesNothing, AnsweredWhileGrowing
  <2>2. CASE UNCHANGED <<reply, rolled, always>>
    BY <2>2 DEF FeedInv, FeedLosesNothing, AnsweredWhileGrowing, Answered
  <2> QED BY <1>1, <2>1, <2>2 DEF seen
<1>4. CASE UNCHANGED apiVars
  <2>1. UNCHANGED <<step, got, rolled, always, txs>>
    BY <1>4 DEF apiVars, asked, seen, storeVars, chainVars
  <2> QED BY <1>3, <2>1 DEF FeedInv, Pending
<1>5. CASE step' # "feed"
  BY <1>3, <1>5 DEF FeedInv
<1> QED BY <1>2, <1>4, <1>5

\* ORDER BY ... LIMIT n gives n rows, or all there are.
LEMMA NewestCounts ==
    ASSUME NEW rows, IsFiniteSet(rows), NEW n \in Nat, NEW newer,
           NEW some \in Newest(rows, n, newer)
    PROVE  /\ some \subseteq rows /\ IsFiniteSet(some)
           /\ Cardinality(some) \in Nat /\ Cardinality(some) <= n
           /\ Cardinality(some) = n \/ some = rows
<1> DEFINE all == Cardinality(rows)
<1>1. some \subseteq rows /\ Cardinality(some) = Min({n, all})
  BY DEF Newest, kSubset
<1>2. all \in Nat
  BY FS_CardinalityType
<1>3. Min({n, all}) \in {n, all} /\ Min({n, all}) <= n
  <2>1. \E x \in {n, all} : \A y \in {n, all} : x <= y
    BY <1>2
  <2> QED BY <2>1 DEF Min
<1>4. IsFiniteSet(some) /\ (Cardinality(rows) = Cardinality(some) => rows = some)
  BY <1>1, FS_Subset
<1> QED BY <1>1, <1>2, <1>3, <1>4

\* The rows of the mempool's part are as many as its transactions.
LEMMA PendingCounts ==
    ASSUME NEW ids, IsFiniteSet(ids)
    PROVE  IsFiniteSet(Pending(ids)) /\ Cardinality(Pending(ids)) = Cardinality(ids)
<1> DEFINE f == [t \in ids |-> [id |-> t, height |-> -1, ordinal |-> 0]]
<1>1. f \in [ids -> Pending(ids)]
  BY DEF Pending
<1>2. ASSUME NEW t \in ids, NEW u \in ids, f[t] = f[u] PROVE t = u
  <2>1. f[t].id = t /\ f[u].id = u
    OBVIOUS
  <2> QED BY <1>2, <2>1
<1>3. \A x \in Pending(ids) : \E t \in ids : f[t] = x
  BY DEF Pending
<1> HIDE DEF f
<1>4. f \in Bijection(ids, Pending(ids))
  BY <1>1, <1>2, <1>3 DEF Bijection, Injection, Surjection, IsInjective
<1>5. ExistsBijection(ids, Pending(ids))
  BY <1>4 DEF ExistsBijection
<1> QED BY <1>5, FS_Bijection

\* The chain's part of the list has a row for each transaction of the index, and none
\* that looks like one of the mempool's.
LEMMA FeedRows ==
    ASSUME IsFiniteSet(Txid), IsFiniteSet(OutPoint), LinkedRows
    PROVE  /\ IsFiniteSet(Feed)
           /\ \A t \in DOMAIN txs : \E x \in Feed : x.id = t
           /\ \A x \in Feed : x.height # -1
<1> DEFINE f == [t \in DOMAIN txs |-> [id |-> t, height |-> txs[t], ordinal |-> Ordinal(t)]]
           Mined == {[id |-> t, height |-> txs[t], ordinal |-> Ordinal(t)] : t \in DOMAIN txs}
           coins == {c \in DOMAIN outputs : c.kind = 2}
           g == [o \in coins |-> [id |-> o.source, height |-> outputs[o].height, ordinal |-> -1]]
           Deposits == {[id |-> o.source, height |-> outputs[o].height, ordinal |-> -1] :
                           o \in coins}
<1>1. IsFiniteSet(Mined)
  <2>1. IsFiniteSet(DOMAIN txs)
    BY FS_Subset DEF LinkedRows, TypeOK
  <2>2. f \in Surjection(DOMAIN txs, Mined)
    BY DEF Surjection
  <2> QED BY <2>1, <2>2, FS_Surjection
<1>2. IsFiniteSet(Deposits)
  <2>1. coins \subseteq OutPoint
    BY DEF LinkedRows, TypeOK
  <2>2. IsFiniteSet(coins)
    BY <2>1, FS_Subset
  <2>3. g \in Surjection(coins, Deposits)
    BY Zenon DEF Surjection
  <2> QED BY <2>2, <2>3, FS_Surjection
<1>3. Feed = {x \in Mined \cup Deposits : x.height \in DOMAIN blocks}
  BY DEF Feed
<1>4. IsFiniteSet(Mined \cup Deposits)
  BY <1>1, <1>2, FS_Union, Zenon
<1>5. IsFiniteSet(Feed)
  BY <1>3, <1>4, FS_Subset
<1>6. ASSUME NEW t \in DOMAIN txs PROVE \E x \in Feed : x.id = t
  <2> DEFINE x == [id |-> t, height |-> txs[t], ordinal |-> Ordinal(t)]
  <2>1. x \in Mined /\ x.height = txs[t] /\ x.id = t
    OBVIOUS
  <2>2. txs[t] \in DOMAIN blocks
    BY DEF LinkedRows, Rows, TxsExact
  <2> QED BY <1>3, <2>1, <2>2
<1>7. \A x \in Feed : x.height # -1
  <2>1. -1 \notin DOMAIN blocks
    BY WriteAssumption DEF LinkedRows, TypeOK, Height
  <2> QED BY <1>3, <2>1
<1> QED BY <1>5, <1>6, <1>7

\* The mempool is read first.  What is steady and not in its rows was in the chain
\* then, and is there still when the chain is read.
LEMMA FeedOwn ==
    ASSUME IsFiniteSet(Txid), IsFiniteSet(OutPoint), Base, FeedInv, RecentHandler
    PROVE  FeedInv'
<1>1. route = "recent" /\ reply = NULL /\ always \subseteq DOMAIN txs \cup DOMAIN mempool_txs
  BY HandlerRoutes DEF Base, Routes, Kept, Certain
<1>2. ListSize \in Nat
  BY ApiAssumption
<1>3. CASE ReadRecent
  <2>1. PICK rows \in PendingRows(ListSize) : Continue("feed", rows)
    BY <1>3 DEF ReadRecent, RecentQuery
  <2>2. PICK ids \in MempoolRecent(ListSize) : rows = Pending(ids)
    BY DEF PendingRows, Pending
  <2>3. DOMAIN mempool_txs \subseteq Txid
    BY DEF Base, LinkedRows, TypeOK
  <2>4. IsFiniteSet(DOMAIN mempool_txs)
    BY <2>3, FS_Subset
  <2>5. /\ ids \subseteq DOMAIN mempool_txs
        /\ Cardinality(ids) <= ListSize
        /\ Cardinality(ids) = ListSize \/ ids = DOMAIN mempool_txs
    BY <1>2, <2>4, NewestCounts DEF MempoolRecent
  <2>6. step' = "feed" /\ got' = Pending(ids) /\ UNCHANGED <<reply, always, rolled, txs>>
    BY <2>1, <2>2 DEF Continue, seen, storeVars, chainVars
  <2>7. FeedLosesNothing'
    BY <1>1, <2>6 DEF FeedLosesNothing, AnsweredWhileGrowing, Answered
  <2>8. /\ got' = Pending(ids)'
        /\ Cardinality(ids) = ListSize \/ always' \subseteq ids \cup DOMAIN txs'
    BY <1>1, <2>5, <2>6 DEF Pending
  <2> QED BY <2>3, <2>5, <2>7, <2>8 DEF FeedInv
<1>4. CASE ReadFeed
  <2>1. PICK rows \in Activity(ListSize - Cardinality(got)) : Answer(got \cup rows)
    BY <1>4, Zenon DEF ReadFeed, RecentQuery
  <2>2. /\ step = "feed" /\ step' = "none" /\ UNCHANGED <<always, rolled>>
        /\ reply' = [route |-> route, body |-> got \cup rows]
    BY <1>4, <2>1 DEF ReadFeed, Answer
  <2>3. ASSUME ~rolled
        PROVE  \/ always \subseteq {x.id : x \in got \cup rows}
               \/ Cardinality(got \cup rows) = ListSize
    <3>1. PICK ids \in SUBSET Txid :
             /\ got = Pending(ids)
             /\ Cardinality(ids) <= ListSize
             /\ Cardinality(ids) = ListSize \/ always \subseteq ids \cup DOMAIN txs
      BY <2>2, <2>3 DEF FeedInv
    <3>2. IsFiniteSet(ids) /\ Cardinality(ids) \in Nat
      BY FS_Subset, FS_CardinalityType
    <3>3. IsFiniteSet(got) /\ Cardinality(got) = Cardinality(ids)
      BY <3>1, <3>2, PendingCounts
    <3> DEFINE n == ListSize - Cardinality(got)
    <3>4. n \in Nat
      BY <1>2, <3>1, <3>2, <3>3
    <3>5. /\ IsFiniteSet(Feed)
          /\ \A t \in DOMAIN txs : \E x \in Feed : x.id = t
          /\ \A x \in Feed : x.height # -1
      BY FeedRows DEF Base
    <3>6. /\ rows \subseteq Feed /\ IsFiniteSet(rows)
          /\ Cardinality(rows) \in Nat /\ Cardinality(rows) <= n
          /\ Cardinality(rows) = n \/ rows = Feed
      BY <3>4, <3>5, NewestCounts DEF Activity
    <3>7. CASE Cardinality(rows) = n
      <4>1. \A x \in got : x.height = -1
        BY <3>1 DEF Pending
      <4>2. got \cap rows = {}
        BY <3>5, <3>6, <4>1
      <4>3. Cardinality(got \cup rows) =
                Cardinality(got) + Cardinality(rows) - Cardinality(got \cap rows)
        BY <3>3, <3>6, FS_Union
      <4>4. Cardinality(got \cap rows) = 0
        BY <4>2, FS_EmptySet
      <4> QED BY <1>2, <3>2, <3>3, <3>7, <4>3, <4>4
    <3>8. CASE Cardinality(rows) # n
      <4>1. rows = Feed /\ Cardinality(ids) # ListSize
        BY <1>2, <3>2, <3>3, <3>6, <3>8
      <4>2. ASSUME NEW t \in ids PROVE \E x \in got : x.id = t
        <5>1. [id |-> t, height |-> -1, ordinal |-> 0] \in got
          BY <3>1 DEF Pending
        <5> QED BY <5>1
      <4> QED BY <3>1, <3>5, <4>1, <4>2
    <3> QED BY <3>7, <3>8
  <2>4. FeedLosesNothing'
    BY <2>2, <2>3 DEF FeedLosesNothing, AnsweredWhileGrowing, Answered
  <2> QED BY <2>2, <2>4 DEF FeedInv
<1> QED BY <1>3, <1>4 DEF RecentHandler

\* A block that takes a transaction out of the mempool puts it into the chain, which is
\* read later.
LEMMA FeedBeside ==
    ASSUME Base, FeedInv, Beside(Grows, FALSE) \/ Beside(Shrinks, TRUE)
    PROVE  FeedInv'
<1>1. FeedLosesNothing'
  BY BesideNoAnswer, Zenon DEF FeedLosesNothing, AnsweredWhileGrowing
<1>2. UNCHANGED <<step, got>> /\ always' \subseteq always
  BY DEF Beside, asked
<1>3. CASE Beside(Grows, FALSE)
  <2>1. Grows /\ rolled' = rolled
    BY <1>3 DEF Beside, Base, Routes
  <2>2. DOMAIN txs \subseteq DOMAIN txs'
    BY <2>1, GrowsKeeps
  <2>3. ASSUME step' = "feed", ~rolled'
        PROVE  (\E ids \in SUBSET Txid :
                   /\ got = Pending(ids)
                   /\ Cardinality(ids) <= ListSize
                   /\ Cardinality(ids) = ListSize \/ always \subseteq ids \cup DOMAIN txs)'
    <3>1. PICK ids \in SUBSET Txid :
             /\ got = Pending(ids)
             /\ Cardinality(ids) <= ListSize
             /\ Cardinality(ids) = ListSize \/ always \subseteq ids \cup DOMAIN txs
      BY <1>2, <2>1, <2>3 DEF FeedInv
    <3>2. got' = Pending(ids)'
      BY <1>2, <3>1 DEF Pending
    <3> QED BY <1>2, <2>2, <3>1, <3>2
  <2> QED BY <1>1, <2>3 DEF FeedInv
<1>4. CASE Beside(Shrinks, TRUE)
  <2>1. step = "feed" => rolled'
    BY <1>4, Zenon DEF Beside, Base, Routes
  <2> QED BY <1>1, <1>2, <2>1 DEF FeedInv
<1> QED BY <1>3, <1>4, Zenon


-----------------------------------------------------------------------------
(***************************************************************************)
(* The theorems.  A step is a statement of the handler at hand, something  *)
(* elsewhere, or a write of the syncers.                                   *)
(***************************************************************************)

\* No request runs at first.
LEMMA ApiInitInv ==
    ASSUME ApiInit
    PROVE  Base /\ UtxoInv /\ TxInv /\ StatusInv /\ OutspendsInv /\ FeedInv
<1>1. /\ StoreInit /\ route = "none" /\ step = "none" /\ reply = NULL
      /\ rolled = FALSE
  BY DEF ApiInit
<1>2. Base
  BY <1>1, LinkedInit, Zenon DEF Base, Routes, Kept, Possible, UtxoSteps, TxSteps
<1>3. \A r : ~Answered(r)
  BY <1>1 DEF Answered
<1>4. UtxoInv /\ TxInv
  BY <1>1, <1>3 DEF UtxoInv, TxInv, SteadyCoinsListed, LateOnlyByBlock, SteadyTxFound,
                    AnsweredWhileGrowing
<1>5. StatusInv /\ OutspendsInv /\ FeedInv
  BY <1>1, <1>3 DEF StatusInv, OutspendsInv, FeedInv, NextBestIsChild, OutspendInItsBlock,
                    FeedLosesNothing, AnsweredWhileGrowing
<1> QED BY <1>2, <1>4, <1>5

\* What a step can be, seen from one handler.
LEMMA StepKinds ==
    ASSUME Routes, [ApiNext]_apiVars
    PROVE  \/ Beside(Grows, FALSE) \/ Beside(Shrinks, TRUE)
           \/ /\ UtxoHandler \/ Elsewhere("utxo")
              /\ TxHandler \/ Elsewhere("tx")
              /\ BlockHandler \/ Elsewhere("status")
              /\ BlockHandler \/ Elsewhere("txs")
              /\ OutspendsHandler \/ Elsewhere("outspends")
              /\ RecentHandler \/ Elsewhere("recent")
<1>1. CASE RequestStep
  BY <1>1, RequestKinds, Zenon
<1>2. ASSUME UNCHANGED apiVars, NEW r PROVE Elsewhere(r)
  BY <1>2 DEF Elsewhere
<1> QED BY <1>1, <1>2, Zenon DEF ApiNext

\* The invariant of addressUTXOs is inductive beside Base.
LEMMA UtxoStep == Base /\ UtxoInv /\ [ApiNext]_apiVars => UtxoInv'
<1> SUFFICES ASSUME Base, UtxoInv, [ApiNext]_apiVars PROVE UtxoInv'
  OBVIOUS
<1>1. Routes /\ Base'
  BY BaseStep DEF Base
<1> QED BY <1>1, StepKinds, UtxoFrame, UtxoOwn, UtxoBeside, Zenon

\* So is that of tx.
LEMMA TxStep == Base /\ TxInv /\ [ApiNext]_apiVars => TxInv'
<1> SUFFICES ASSUME Base, TxInv, [ApiNext]_apiVars PROVE TxInv'
  OBVIOUS
<1>1. Routes /\ Base'
  BY BaseStep DEF Base
<1> QED BY <1>1, StepKinds, TxFrame, TxOwn, TxBeside, Zenon

\* That of blockStatus.
LEMMA StatusStep == Base /\ StatusInv /\ [ApiNext]_apiVars => StatusInv'
<1> SUFFICES ASSUME Base, StatusInv, [ApiNext]_apiVars PROVE StatusInv'
  OBVIOUS
<1>1. Routes /\ Base'
  BY BaseStep DEF Base
<1> QED BY <1>1, StepKinds, StatusFrame, StatusOwn, StatusBeside, Zenon

\* That of outspends.
LEMMA OutspendsStep == Base /\ OutspendsInv /\ [ApiNext]_apiVars => OutspendsInv'
<1> SUFFICES ASSUME Base, OutspendsInv, [ApiNext]_apiVars PROVE OutspendsInv'
  OBVIOUS
<1>1. Routes /\ Base'
  BY BaseStep DEF Base
<1> QED BY <1>1, StepKinds, OutspendsFrame, OutspendsOwn, OutspendsBeside, Zenon

\* And that of recentActivity.
LEMMA FeedStep ==
    ASSUME IsFiniteSet(Txid), IsFiniteSet(OutPoint)
    PROVE  Base /\ FeedInv /\ [ApiNext]_apiVars => FeedInv'
<1> SUFFICES ASSUME Base, FeedInv, [ApiNext]_apiVars PROVE FeedInv'
  OBVIOUS
<1>1. Routes /\ Base'
  BY BaseStep DEF Base
<1> QED BY <1>1, StepKinds, FeedFrame, FeedOwn, FeedBeside, Zenon

\* The requests leave the store to the syncers: beside them it runs as LinkedSpec, so
\* that each property of that specification holds here.
THEOREM ApiImplementsLinked == ApiSpec => LinkedSpec
<1>1. ApiInit => StoreInit
  BY DEF ApiInit
<1> QED BY <1>1, ApiIsLinked, PTL DEF ApiSpec, LinkedSpec

\* addressUTXOs lists each coin, and tx finds each transaction, that the index holds all
\* through the request, for every index and every interleaving of their queries with
\* blocks, rollbacks and snapshots.
THEOREM ApiNothingSteadyLost == ApiSpec => []NothingSteadyLost
<1>1. ApiInit => Base /\ UtxoInv /\ TxInv
  BY ApiInitInv
<1>2. Base /\ UtxoInv /\ TxInv => NothingSteadyLost
  BY DEF UtxoInv, TxInv, NothingSteadyLost
<1> QED BY <1>1, <1>2, BaseStep, UtxoStep, TxStep, PTL DEF ApiSpec

\* A coin that addressUTXOs lists too late was spent by a block between its queries.
THEOREM ApiLateOnlyByBlock == ApiSpec => []LateOnlyByBlock
<1>1. ApiInit => Base /\ UtxoInv
  BY ApiInitInv
<1>2. Base /\ UtxoInv => LateOnlyByBlock
  BY DEF UtxoInv
<1> QED BY <1>1, <1>2, BaseStep, UtxoStep, PTL DEF ApiSpec

\* blockStatus names a child of the block that was asked for, and outspends the block
\* that spent the coin, though each reads the block by a height of an earlier query.
THEOREM ApiBlocksByHeight == ApiSpec => [](NextBestIsChild /\ OutspendInItsBlock)
<1>1. ApiInit => Base /\ StatusInv /\ OutspendsInv
  BY ApiInitInv
<1>2. Base /\ StatusInv /\ OutspendsInv => NextBestIsChild /\ OutspendInItsBlock
  BY DEF StatusInv, OutspendsInv
<1> QED BY <1>1, <1>2, BaseStep, StatusStep, OutspendsStep, PTL DEF ApiSpec

\* /txs/recent loses no transaction between its two queries, whatever the size of the
\* list.
THEOREM ApiFeedLosesNothing ==
    ASSUME IsFiniteSet(Txid), IsFiniteSet(OutPoint)
    PROVE  ApiSpec => []FeedLosesNothing
<1>1. ApiInit => Base /\ FeedInv
  BY ApiInitInv
<1>2. Base /\ FeedInv => FeedLosesNothing
  BY DEF FeedInv
<1>3. Base /\ FeedInv /\ [ApiNext]_apiVars => FeedInv'
  BY FeedStep
<1> QED BY <1>1, <1>2, <1>3, BaseStep, PTL DEF ApiSpec
=============================================================================
