# A verification of drivechain-esplora in TLA+

The program indexes one drivechain sidechain into Postgres and serves an Esplora-like
HTTP API from it.  This directory models the parts whose state changes, checks them with
TLC on small instances, and proves with TLAPS, for every instance, each safety property that the
passing runs check: of the store, the syncers, the service, the opening of the database, the two
mempool writers, the API's handlers and pages, the decoders, the outpoint codecs and `Prepare`.

## The system

| Part | State | Operations | What is hard about it |
|---|---|---|---|
| store (`internal/store`) | tables of blocks, transactions, coins, the tip, the mempool snapshot | `Apply`, `Rollback`, `SetMainHeight`, `ReplaceMempool`, reads | rollbacks by height, `ON CONFLICT DO NOTHING`, fees computed from rows, coins in two tables, a unique index, two transactions on the same rows |
| opening the store (`store.go`, `main.go`) | schema, migrations table, the claimed chain | `Open`, `migrate`, `Init` | several calls at once, a crash between two statements |
| block syncer (`internal/index/sync.go`) | where a pass is | `Once`: tip, start, fork search, apply, backfill | the node reorganizes at any moment; a pass ends at any call |
| mempool syncer (`mempool_sync.go`) | a listing under way | `Once`: list, replace | the listing is stale when it is written |
| prepare (`prepare.go`, `chain/block.go`) | none | block or listing to rows | one batch for what the node does step by step |
| outpoints and hashes (`chain/outpoint.go`, `chain/hash.go`) | none | keys, columns, JSON, rendered text | two byte orders, packed fields, signed columns |
| decoders (`internal/chain/*`) | none | output content to value | wrapping sums, narrow columns, seven dialects |
| service (`internal/service`) | a shared connection, its subscribers | `Get`, `Connect`, `Drop`, `Run`, `ConnectedChan` | everything interleaves |
| API (`internal/api`) | none | handlers that run one or several queries | writes land between two queries of one answer |

The syncers share the store and each have a node connection through a service; the API
reads the store through a service.  The sidechain node, the enforcer and Postgres are
outside `src/`: the node is a block tree with an active chain and a mempool, the enforcer
an answer that may fail, be missing or have no source, and a database transaction one step,
except in `Startup` and `Writers`, which take it apart into statements and row locks.

## Modules

| Module | Models | Composition |
|---|---|---|
| `Store` | the tables as functions from key to row (a key outside the domain has no row), the unique index on coinbase rows, one action per write | abstract specification for the two syncers: `StoreSpec` and, for blocks of one chain, `LinkedSpec` |
| `Startup` | the connector of `main.go`: `Open`, `migrate`, `Init`; a step is one statement, for several calls at once | alone |
| `Writers` | `ReplaceMempool` and `clearMempool` statement by statement and row by row at READ COMMITTED, with Postgres' deadlock detection; a block may carry trades that it skips, whose ids it clears and whose other rows it leaves | takes apart what `Store` has as one step; no refinement is checked between the two |
| `Kinds` | the discriminants of outpoints and spends | used by `Prepare` and `OutPoints` |
| `OutPoints` | `Key`, the JSON forms, `MarketFundsOutPoint`, the columns of a coin, the texts the API gives | alone |
| `Prepare`, `Preparing` | `Prepare`, `PrepareMempool`, `AuthorizationsFor` (which only tests call so far) as operators; a run over a set of blocks | `MCStore` gets its rows from it |
| `Syncer` | `Syncer.Once`; a step is one exchange with the node or the enforcer and the store transaction after it | extends `Store`, shown to implement `StoreSpec` / `LinkedSpec` |
| `MempoolSync` | `MempoolSyncer.Once` beside the block syncer, and the node's mempool | extends `Syncer`, shown to implement `LinkedSpec` |
| `Database` | a database that is opened, by `Startup`, and then written, by `Writers` | joins the two, which share no state |
| `Service` | a step is one critical section or atomic access | alone |
| `Decoders` | `DecodeContent` of all chains, with the integers' width a constant | alone; `Prepare` takes a decoder as a parameter |
| `Reads` | each query as an operator on the tables | extends `Store` |
| `Api` | `addressUTXOs`, `tx`, `blockStatus`, `blockTxs`, `outspends` and `recentActivity`, a step per SQL statement, beside the writes | extends `Reads` |
| `Paging` | a client that follows `last_seen` through `addressTxs` | extends `Reads` |
| `Requests` | single requests, and then a walk, over one index | joins `Api` and `Paging` |
| `StoreProofs`, `SyncerProofs`, `DatabaseProofs`, `ApiProofs`, `AnswerProofs`, `ReadsProofs`, `WireProofs`, `PrepareProofs` | theorems | each extends what it is about: `SyncerProofs` is of `Syncer` and `MempoolSync`, `AnswerProofs` of `Api`, `ReadsProofs` of `Reads` and `Paging`, `WireProofs` of `OutPoints` and `Service`, `PrepareProofs` of `Preparing` and `Decoders`; those that read the store also extend `StoreProofs` |

`MC*` modules hold instances only, but for `MCWire`, the sum of three parts that share no state:
it reads blocks, contents or names.
An operator named `<definition>_<Fault>` and commented
"Fault variant" is a mistake the code does not make; each shows that a property notices it.

Data is abstract: a block, txid or address is a name, an outpoint a record of kind, source
and position, a payload its numeric fields.  Raw bytes, sizes, timestamps of blocks and
JSON layout are left out.  In `OutPoints` a hash is a sequence of small bytes.  `Api` keeps
history variables: what a right answer held at some moment and at every moment of the request,
and whether the index was rolled back meanwhile.

## Runs that pass

| Run | Properties | Shows |
|---|---|---|
| `syncer_any` | `SyncerTypeOK`, `StoreSpec`, `TipIsTop`, `OutputsExact`, `TxsExact`, `SpentSound`, `MainHeightsExact`, `EventuallyMainHeights` | the node reorganizes and calls fail at any moment: `Syncer` still implements `StoreSpec`, the rows are those of the blocks held, even of blocks that form no chain or that name their coinbase alike (the first keeps the row), and mainchain heights fill in once there is an enforcer |
| `syncers` | `LinkedSpec`, `RollsBackStaleOnly`, `FirstSeenStable`, `EventuallyLevel`, `EventuallySnapshot` | both syncers, reorganizations between passes: `LinkedSpec` is implemented, only stale blocks are rolled back, the index and the snapshot come level with the node |
| `wire` | `RowKeysDistinct`, `BatchMatchesLedger`, `AuthorizationsPartition`; `ExactOrRefused`; `KeysTellApart`, `ReadsBack`, `TxidKept` | keys of rows are distinct, the batch leaves the coins of a step-by-step ledger, and signatures are partitioned; exact worth or an error, on both sides of every integer limit; two outputs never share a key, a coin reads back under its own, and its txid text is the node's |
| `database` | `DatabaseTypeOK`; `MigratedInOrder`, `OpenIsReady`, `EventuallyOpen`; `OwnedThroughout`, `KeysFree`, `Settles` | calls that open a database at once, and fail one another, migrate it once and in order, and claim it for one chain; blocks and replacements that write at once leave no row without its transaction but those of a trade that a block skipped since a replacement last committed (`swept`), never meet a taken key, and come to rest on the node's mempool |
| `service` | `ConnectionsOwned`, `NeverZeroClient`, `EventuallyConnected` | two callers, `Run`, a subscriber, a failure and a shutdown: no connection leaks (`NoLeak`), is closed twice (`ClosedOnce`), is held when closed (`HeldIsOpen`) or is handed out before it exists, and the service ends up connected |
| `requests` | `SpentExact`, `FeesExact`, `MempoolOwned`, `BalancesAgree`; `NothingSteadyLost`, `LateOnlyByBlock`, `AnswersOfOneBlock`, `FeedLosesNothing`; `NoRowTwice`, `WalkEnds` | when applied blocks extend the tip, spends, fees and mempool rows are exact, and `/address` and `/address/utxo` agree; coins and transactions untouched during a request are found, also through rollbacks; while the chain only grows, what an answer puts together from several queries is of one block, and a transaction that moves to the chain is not lost from the feed; a walk through a history lists no mined row twice, and ends |

## Runs that disagree with a comment

Each states a sentence of the repository and has a counterexample; PROJECT.json quotes it.

| Run | Property | What happens |
|---|---|---|
| `syncer_reorg` | `EventuallyLevel` | a reorganization inside a pass leaves two branches in the index for good |
| `syncer_genesis` | `NothingSurvivesGenesis` | a disagreement at genesis keeps the old genesis block |
| `mempool_half` | `NoHalfSnapshot` | a replacement that commits between two DELETEs of a block leaves a listed transaction without its spends or outputs (healed by the next poll) |
| `activity_txid` | `ActivityKeepsTxid` | the feed gives a deposit its mainchain txid with the bytes reversed |
| `paging_cover` | `PagesCover` | rows of a block that a page boundary cuts are on no page |
| `coinbase_rows` | `CoinbaseRowsKept` | of two blocks with one merkle root the second has no coinbase row: they collide in the primary key, where the second is skipped, and never in the index that is said to catch it |

The modelled operations also allow the following, which no property excludes.  A coin made and
spent twice reads as unspent after the second spend is rolled back, which is why `SpentExact`
needs `NoDoubleSpend`.  A trade that one block skips leaves `mempool_txs` with it, while its
outputs and spends stay in the snapshot, and in balances, until the next replacement; `MempoolOwned`
and `OwnedThroughout` name this as their exception.  A trade that one block skips and a later one carries with effect keeps
the row of the first, while its coins are those of the later, which is why `ApiMinedTxWhole`,
`ApiAnswersOfOneBlock` and `PagingNoRowTwice` need `RepeatsAddNothing`.  Between
mining and indexing a spent coin is back in the balance.  `IsConnected` stays true after
`close`.  A subscriber that is slow at the last change keeps the state before it (the comment on
`ConnectedChan` promises "one value per later change", the one in `setConnected` less).  A
transaction is "not found" for one that asks while it moves from the snapshot to the chain,
and a coin that the mempool spends is listed when its block lands between two queries
(`LateOnlyByBlock` says that nothing else lists one).  A stale listing puts a mined coin into
both tables until the next poll; `EventuallySnapshot` says that it does not stay.  As many
blocks that the enforcer does not hold as a pass asks for keep all older ones from being asked
for, which is the condition in `EventuallyMainHeights`.  `Settles` leaves out the behaviours in
which Postgres picks the block as the victim of a deadlock again and again.  A start height of
2^31 or more lists no block (`Blocks` casts where `History` clamps).  `ActivityInBlock` orders
by position downwards, where its comment says "in body order".

## Bounds

- Trees: `MCStore` has one genesis and two branches of two blocks that carry the same
  transactions in different places, an input-less transaction carried twice, a skipped
  trade that competes with a transaction for one coin, a deposit and a bundle spend.  `MCSyncer`
  has the same shape with fewer rows, plus a second genesis, and a coinbase that two blocks of one
  branch name alike.  `MCCoinbase` has three blocks, two of them with one merkle root.  Two levels are enough for a fork below the tip, a rollback by two, and
  a reorganization between two heights of a pass.
- `MaxMoves` (node changes) is 4 in the passing runs, enough to build a branch and replace it
  by the other, and `MaxFaults` (failed calls) 1; `syncer_reorg` and `syncer_genesis` need 2 and 0.
  `BackfillPerPass` is 1 or 2 for the code's 20, so that several passes are needed; with 2, one
  block that the enforcer does not hold leaves room for another.
- `MCDatabase` has two calls for one chain and one for another, with two faults, and then three
  transactions (two mined, one that competes with the first), two moves of the mempool, two
  blocks, the second of which skips its trade, and one fault: enough for a deadlock, a rollback and a retry.  The writers begin when
  the faults of the opening are used up; the opening alone meets every earlier state.
- `OutPoints` has bytes below 5, hashes of 4 bytes, positions of 2 and market ids of 1, so that
  every field is longer than a byte or shorter than its slot as in the code, and numbers reach
  both sides of the sign and of the width.
- `MaxConn` is what `ServiceAssumption` asks for, so that it stops no `Connect`.  No run uses
  symmetry.
- `MaxInt64` is 3, a three-bit word, with amounts on both sides of every limit.
- `PageSize` is 2 and 1 for the code's 25; the blocks hold up to two rows of the address, and up
  to three transactions.  `ListSize` is 3, and four transactions and a deposit can fill the feed.
- `MCRequests` and `MCPaging` leave mainchain heights out (no answer of theirs holds one).

## Fairness

`Syncer.Run` and `MempoolSyncer.Run` loop until the context ends, so a pass always takes its
next step (`WF` of `PassStep` and `PollStep`); the node moves and calls fail only a bounded
number of times and are never forced to.  In `Service` a call that has begun goes on, the
ticker fires, and a registered reader reads; nothing makes a caller call, and a shutdown may
come at any moment or never.  In `Paging` and `Requests` the client of a walk and the handler go on.
In `Startup` a call goes on and is made again, since `Service` retries for ever.  In `Writers`
both syncers begin pass after pass, Postgres ends a deadlock, and a DELETE that waits for a row
gets it in the end (`SF`), because row locks are handed on in the order of the queue.  Nothing
makes an operator restart the process with an enforcer (`RestartWithEnforcer` has no fairness).

## Proofs

A theorem holds for every value of the constants that meets the named assumptions.  Each
inductive invariant was checked with TLC on the run's instance before it was proved.

`StoreProofs` (`WriteAssumption`: the shape of prepared blocks):

1. `StoreTypeOK`: `TypeOK` (a conjunct of `SyncerTypeOK`) is inductive.
2. `StoreRows`: `Rows`, the conjunction of `TipIsTop`, `OutputsExact`, `TxsExact`, `SpentSound`
   and `MainHeightsExact`, is inductive with `TypeOK`.  None is alone: deleting by height is
   right only because the rows' heights are those of held blocks and the tip is the top.
   `StoreTipIsTop`, `StoreOutputsExact`, `StoreTxsExact`, `StoreSpentSound` and
   `StoreMainHeightsExact` follow.  `OutputsExact` is of the first block that makes a coin.
   `StoreIndexRefusesNothing` is the other half of `coinbase_rows`: if the coinbases of one block
   have one source (`CoinbaseOfOneSource`, what `Prepare` makes), the unique index refuses no block.
3. `LinkedSpentExact`, `LinkedFeesExact`: with the hypothesis `NoDoubleSpend` (a sidechain
   consensus rule, stated over all chains of the tree) and blocks linked by previous hash,
   no two held blocks spend one coin, so unspending by height restores exactly, and no later
   step touches a coin that a fee was computed from.
4. `StoreMempoolOwned`, `StoreFirstSeenStable`.  `MempoolOwned` needs to know of each
   unconfirmed spend that its transaction spends the coin (`MempoolRows`).

`SyncerProofs`, for every block tree:

1. `SyncerTypes` and `SyncerImplementsStore`: the refinement of `StoreSpec`, action by action.
   What a pass remembers across calls is right when it is used (`PassInv`): the next height is
   the one after the tip, a fork search stays at or below it, the rows to backfill have no height.
2. `MempoolSyncRollsBackStaleOnly`: the heights a fork search went past hold other blocks, as
   long as the node's tip is the one the pass read (`Passed`).
3. `MempoolSyncImplementsLinked`: the node may reorganize between passes; while one applies, the
   node has the block of the index's tip (`Anchored`), so each block applied is its child.
   Hypothesis `SharedGenesis`: all chains begin with one block; `syncer_genesis` has what
   happens without it.
4. `MempoolSyncSpentExact`, `MempoolSyncFirstSeenStable`: the store's theorems, of the syncers.

`DatabaseProofs`:

1. `StartupMigratedInOrder`, `StartupOpenIsReady` (`StartupAssumption`), for any number of calls,
   migrations and failures.  `StartupInv` says how far a call may be for the schema there is, and
   that one call at most has a migration, or the row of `sync_state`, uncommitted.
2. `WritersOwnedThroughout`, `WritersKeysFree` (`WritersAssumption`: a transaction has one row in
   `mempool_txs`), for any rows, blocks and skipped trades.  `OwnedThroughout` lets a row be without
   its transaction only if a block applied since a replacement last committed skipped it.  A DELETE is still to come to each row, has it still to
   take, or has taken it (`Accounted`): for the poller this is every row there is, for a block the
   rows of each executed transaction whose first row it holds locked.
3. `DatabaseTypes`, `DatabaseKeeps`: the same of `DatabaseSpec`, where the one follows the other.

`ApiProofs` and `AnswerProofs` (`ApiAssumption`; `ReadsAssumption`: finitely many coins and txids,
amounts that are naturals, a body that holds no transaction twice), for every index and every
interleaving with the writes:

1. `ApiImplementsLinked`: requests do not write.
2. `ApiNothingSteadyLost`, `ApiLateOnlyByBlock`, `ApiBlocksByHeight`: one invariant per handler
   (`UtxoInv`, `TxInv`, `StatusInv`, `OutspendsInv`) says what the results at hand are still worth
   when the next query runs.  A growing chain changes no row but to mark a coin as spent
   (`GrowsKeeps`).  `ApiBlocksByHeight` is `NextBestIsChild` and `OutspendInItsBlock`, two of the
   four parts of `AnswersOfOneBlock`.
3. `ApiFeedLosesNothing`: the mempool's part is full, or what is steady and not in it is in the chain
   (`FeedInv`).  Hypothesis: there are finitely many txids and outpoints, which are byte strings
   of a fixed length.
4. `ApiMinedTxWhole`, a third part of `AnswersOfOneBlock`: the row of the
   transaction keeps naming the block that was read (`WholeInv`), and in an index that is exact
   (`SpentExact`) the coins with its txid are that block's.  Hypothesis `Consensus`:
   `NoDoubleSpend`; the coins of a block are those of its transactions, which is what `prepareTx`
   makes (`CoinsOfTxs`); a block spends coins of its chain (`CoinsExist`); a transaction carried
   again adds nothing (`RepeatsAddNothing`, which leaves out a trade that is skipped first and
   executed later).  TLC evaluates all four on the tree of `MCStore`.
5. `ApiPageOfBlock`, the fourth part: the rows at hand are the first of a page of one listing of
   the block, and those still to read are the rest of it (`PageInv`).  `ApiAnswersOfOneBlock` puts
   the four parts together, and has the hypothesis of the third.

`ReadsProofs` (`ReadsAssumption`; `PagingAssumption`: a page has room for a row):

1. `PagingImplementsLinked`, and for every page size and every growing chain `PagingNoRowTwice`,
   under `Consensus` and `BundlesApart` (the m6id of a withdrawal bundle is no txid).  What is listed
   has no id twice and never goes up by height (`ListedDown`); the refs still to read go on at or
   below it (`RefsDown`, `RefsBelow`); a cursor is the last row listed, and the next page starts
   below its block (`CursorAtEnd`).
2. `LinkedBalancesAgree`, of `LinkedSpec`, which the syncers, the requests and the walks all
   implement.  From the rows alone: the coins that `Stats` and `MempoolStats` fund are those they
   spend and those that `UTXOs` and `MempoolUTXOs` list, in two disjoint sets, and the sum over a
   union of two disjoint sets is the sum of the sums (`ValueSumUnion`).

`WireProofs`:

1. `OutPointsKeysTellApart`, `OutPointsReadsBack`, `OutPointsTxidKept` (`OutPointsAssumption`: more
   than four byte values, a market id and a number shorter than a hash; `WiresAssumption`: what
   `json.Unmarshal` can give), for every number base and size of a field.  The bytes of a number
   give it back (`UintOfPutUint`); so a key gives back kind, source and position (`KeyBack`), and a
   market's source its id, height and fee flag (`MarketBack`).
2. `ServiceConnectionsOwned`, `ServiceNeverZeroClient` (`ServiceAssumption`), for any number of
   goroutines.  Each open connection is held by the service or is in the hands of exactly one
   goroutine (`OneOwner`); wherever a goroutine may go on to set `connected`, the client is there
   (`ClientThere`).

`PrepareProofs`:

1. `PreparingRowKeysDistinct`, `PreparingAuthorizationsPartition`, `PreparingBatchMatchesLedger`
   (`RawBlocksAssumption`: lists are lists), for blocks of any length.  The creates and the spends
   are lists of lists laid end to end; `AppendedPlaces` says where each entry ends up, `CreatesTold`
   and `SpendsTold` which parts of the block it comes from, and `RowPoints` and `LedgerIs` which
   coins the batch and the node's own order leave. Hypotheses about the node: `NamesApart` (the
   transactions of a block have txids of their own, and the coins it reports names of their own) for
   the first, `SpentInTurn` (a coin is taken only after the step that makes it) for the last. TLC
   evaluates both on the blocks of `MCPrepare`.
2. `WithdrawalExact`, `DecodersExact` (`DecodersAssumption`: amounts are naturals): one comparison
   after a wrapping addition finds every wrap, and `ExactOrRefused` holds for every width, content
   and chain.

The theorems about sums, digits and lists need induction over the numbers.  The prover cannot use
the library's induction theorems, whose parameter is an operator; `LeastOne` (a set of numbers has a
least one, from the well-foundedness of `<`), and in `WireProofs` and `PrepareProofs` `Induction`
for a set of numbers and `Recursion`, which gives a recursive function its equations, take their
place.

Only model-checked are the liveness properties (`EventuallyLevel`, `EventuallySnapshot`,
`EventuallyMainHeights`, `EventuallyOpen`, `Settles`, `EventuallyConnected`, `WalkEnds`): fairness
and ENABLED are out of the prover's reach.

## Not modelled

The lists of deposits and of blocks, `ActivityInBlock` and the summaries of the mempool: single
queries without a second read to disagree with.  `addressInfo` is two queries, which
`BalancesAgree` relates at one moment only.  The JSON form of `InPoint` and the base58 form of
an address: plain conversions.  Broadcast and withdrawal relays, the RPC and enforcer clients:
one HTTP call each, whose answers and failures are in `Syncer` and `MempoolSync`.  An outpoint object that leaves out its hash, which the code reads as
the zero hash, is not among the `Wires`.  The coins that a withdrawal bundle spends are not among
the keys of a block in `Writers`: no unconfirmed transaction of the model spends them.  Wire formats,
routing, flags and logging have no state.  Block times are left out, since `main` passes no
source for them.
