----------------------------- MODULE MempoolSync -----------------------------
(***************************************************************************)
(* The mempool poller of internal/index beside the block syncer.  The two  *)
(* run in goroutines of their own, over node connections of their own, and *)
(* meet in the database: a pass of the poller reads the node's mempool in  *)
(* one step and replaces the snapshot in a later one.                      *)
(***************************************************************************)
EXTENDS Syncer

VARIABLES
    pool,    \* the transactions in the node's mempool
    listed   \* what list_mempool returned to the pass under way, or NULL

pollVars == <<pool, listed>>
allVars == <<vars, pollVars>>

-----------------------------------------------------------------------------
(***************************************************************************)
(* The mempool of a node with the active chain c: transactions that no     *)
(* block of c carries, whose inputs exist and are unspent.                 *)
(***************************************************************************)
Carried(c) == UNION {Write[c[h]].txs : h \in DOMAIN c}
Created(c) == UNION {Write[c[h]].creates : h \in DOMAIN c}
Used(c) == UNION {DOMAIN Write[c[h]].spends : h \in DOMAIN c}

NodePools(c) ==
    {S \in Pools : \A t \in S :
        /\ t \notin Carried(c)
        /\ TxWrite[t].spends \cap Used(c) = {}
        /\ TxWrite[t].spends \subseteq Created(c) \cup UNION {TxWrite[u].creates : u \in S}}

\* The node takes up a block, or leaves its branch, and its mempool follows.
NodeMovesWithPool(c) ==
    /\ NodeMoves(c)
    /\ pool' \in NodePools(node')
    /\ UNCHANGED listed

\* Transactions arrive at the node, or it drops some.
PoolMoves ==
    /\ moves < MaxMoves
    /\ moves' = moves + 1
    /\ pool' \in NodePools(node) \ {pool}
    /\ UNCHANGED <<storeVars, node, heights, passVars, faults, listed>>

-----------------------------------------------------------------------------
\* MempoolSyncer.Once reads list_mempool.
ListMempool ==
    /\ listed = NULL
    /\ listed' = pool
    /\ UNCHANGED <<vars, pool>>

\* Fault variant: the pass adds what is new and drops nothing.
ReplaceListed_AddsOnly ==
    /\ listed # NULL
    /\ \E now \in Clock : ReplaceMempool(listed \cup DOMAIN mempool_txs, now)
    /\ listed' = NULL
    /\ UNCHANGED <<nodeVars, passVars, faults, pool>>

\* ... and hands the rows to Store.ReplaceMempool.
ReplaceListed ==
    /\ listed # NULL
    /\ \E now \in Clock : ReplaceMempool(listed, now)
    /\ listed' = NULL
    /\ UNCHANGED <<nodeVars, passVars, faults, pool>>

\* A failed call or a restart ends the pass; the last snapshot stays.
PollFails ==
    /\ listed # NULL /\ faults < MaxFaults
    /\ faults' = faults + 1
    /\ listed' = NULL
    /\ UNCHANGED <<storeVars, nodeVars, passVars, pool>>

PollStep == ListMempool \/ ReplaceListed

MempoolSyncInit == SyncerInit /\ pool = {} /\ listed = NULL

MempoolSyncNext ==
    \/ \E c \in Chains : (pc = "idle" \/ Extends(c)) /\ NodeMovesWithPool(c)
    \/ PoolMoves
    \/ (PassStep \/ PassFails \/ RestartWithEnforcer) /\ UNCHANGED pollVars
    \/ PollStep
    \/ PollFails

\* Both loops go on for ever; the node reorganizes between two block passes.
MempoolSyncSpec ==
    /\ MempoolSyncInit /\ [][MempoolSyncNext]_allVars
    /\ WF_allVars(PassStep /\ UNCHANGED pollVars)
    /\ WF_allVars(PollStep)

-----------------------------------------------------------------------------
\* clearMempool: "A coin that sits in both tables counts twice, so the block that
\* carries it takes it out of the unconfirmed set at the same time."
NoCoinTwice == mempool_outputs \cap DOMAIN outputs = {}

\* The tables are those of the node's mempool, with fees from the rows they hold.
SnapshotExact ==
    /\ DOMAIN mempool_txs = pool
    /\ mempool_outputs = UNION {TxWrite[t].creates : t \in pool}
    /\ DOMAIN mempool_spends = UNION {TxWrite[t].spends : t \in pool}
    /\ \A t \in pool : mempool_fee[t] = ValueSum(TxWrite[t].spends)
                                      - ValueSum(TxWrite[t].creates)

\* "MempoolSyncer keeps the unconfirmed set level with the node": once the node
\* is at rest the snapshot is the node's mempool, every fee is right, and no coin
\* counts twice, whatever a stale listing put there before.
EventuallySnapshot == <>[](SnapshotExact /\ NoCoinTwice)
=============================================================================
