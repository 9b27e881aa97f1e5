------------------------------- MODULE Syncer -------------------------------
(***************************************************************************)
(* The block syncer of internal/index over the store, and the sidechain    *)
(* node it reads.  One action is one exchange with the node or with the    *)
(* enforcer, together with the store transaction that follows it: only the *)
(* syncer writes the chain tables, so nothing comes between the two.       *)
(***************************************************************************)
EXTENDS Store

CONSTANTS
    BackfillPerPass,  \* backfillHeightsPerPass
    MaxMoves,         \* bound: how often the node changes its tip
    MaxFaults         \* bound: how many calls fail

ASSUME SyncerAssumption ==
    /\ BackfillPerPass \in Nat \ {0}
    /\ MaxMoves \in Nat
    /\ MaxFaults \in Nat

VARIABLES
    node,     \* the node's active chain: height -> hash
    moves,    \* tip changes so far
    faults,   \* failed calls so far
    heights,  \* whether the process has an enforcer to ask (Syncer.Heights)
    pc,       \* where the pass is
    nodeTip,  \* the height TipHeight returned at the start of the pass
    next,     \* the height the pass looks at
    missing   \* heights the backfill has still to resolve in this pass

nodeVars == <<node, moves, heights>>
passVars == <<pc, nodeTip, next, missing>>
vars == <<storeVars, nodeVars, passVars, faults>>

-----------------------------------------------------------------------------
(***************************************************************************)
(* The node.  It starts with no block (chain.ErrEmptyChain) and then       *)
(* follows any chain of the block tree.                                    *)
(***************************************************************************)
Chains == UNION {{c \in [0..n -> BlockHash] : IsChain(c, n)} : n \in Height}

NodeTipHeight == Cardinality(DOMAIN node) - 1

Extends(c) == DOMAIN node \subseteq DOMAIN c /\ \A h \in DOMAIN node : c[h] = node[h]

NodeMoves(c) ==
    /\ moves < MaxMoves
    /\ node # c
    /\ node' = c
    /\ moves' = moves + 1
    /\ UNCHANGED <<storeVars, heights, passVars, faults>>

\* node.BlockHashAt(h) = x; the node answers nil above its tip.
NodeHasAt(h, x) == h \in DOMAIN node /\ node[h] = x

-----------------------------------------------------------------------------
SyncerInit ==
    /\ StoreInit
    /\ node = EmptyTable
    /\ moves = 0
    /\ faults = 0
    /\ heights \in BOOLEAN
    /\ pc = "idle" /\ nodeTip = 0 /\ next = 0 /\ missing = {}

EndPass == pc' = "idle" /\ nodeTip' = 0 /\ next' = 0 /\ missing' = {}

GoTo(label, h) == pc' = label /\ next' = h /\ missing' = {}

\* Fault variant: the node's tip height taken for its block count.
ReadTip_OffByOne ==
    /\ pc = "idle"
    /\ node # EmptyTable
    /\ nodeTip' = Max({0, NodeTipHeight - 1})
    /\ GoTo("resolve", 0)
    /\ UNCHANGED <<storeVars, nodeVars, faults>>

\* Syncer.Once reads the node's tip; an empty chain ends the pass at once.
ReadTip ==
    /\ pc = "idle"
    /\ node # EmptyTable
    /\ nodeTip' = NodeTipHeight
    /\ GoTo("resolve", 0)
    /\ UNCHANGED <<storeVars, nodeVars, faults>>

\* Fault variant: the hashes at the tip's height are not compared.
ResolveStart_NoCompare ==
    /\ pc = "resolve"
    /\ GoTo("apply", tip.height + 1)
    /\ UNCHANGED <<storeVars, nodeVars, nodeTip, faults>>

\* resolveStart: nothing indexed, or the node still has our tip.
ResolveStart ==
    /\ pc = "resolve"
    /\ \/ tip = NoTip /\ GoTo("apply", 0)
       \/ tip # NoTip /\ NodeHasAt(tip.height, tip.hash) /\ GoTo("apply", tip.height + 1)
       \/ tip # NoTip /\ ~NodeHasAt(tip.height, tip.hash) /\ GoTo("fork", tip.height)
    /\ UNCHANGED <<storeVars, nodeVars, nodeTip, faults>>

\* One turn of findFork's loop: next - 1 is the height below.
ForkBelow ==
    /\ pc = "fork" /\ next > 0
    /\ ~(next - 1 \in DOMAIN blocks /\ NodeHasAt(next - 1, blocks[next - 1]))
    /\ GoTo("fork", next - 1)
    /\ UNCHANGED <<storeVars, nodeVars, nodeTip, faults>>

\* Fault variant: the pass resumes one height too high.
ForkFound_SkipsOne ==
    /\ pc = "fork" /\ next > 0
    /\ next - 1 \in DOMAIN blocks /\ NodeHasAt(next - 1, blocks[next - 1])
    /\ Rollback(next - 1)
    /\ GoTo("apply", next + 1)
    /\ UNCHANGED <<nodeVars, nodeTip, faults>>

\* Fault variant: the rollback takes the fork block as well.
ForkFound_TooDeep ==
    /\ pc = "fork" /\ next > 0
    /\ next - 1 \in DOMAIN blocks /\ NodeHasAt(next - 1, blocks[next - 1])
    /\ Rollback(next - 2)
    /\ GoTo("apply", next - 1)
    /\ UNCHANGED <<nodeVars, nodeTip, faults>>

\* The fork is found, and resolveStart rolls back to it.
ForkFound ==
    /\ pc = "fork" /\ next > 0
    /\ next - 1 \in DOMAIN blocks /\ NodeHasAt(next - 1, blocks[next - 1])
    /\ Rollback(next - 1)
    /\ GoTo("apply", next)
    /\ UNCHANGED <<nodeVars, nodeTip, faults>>

\* The loop ends without a fork: findFork rolls back to 0 and returns 0, and
\* resolveStart rolls back to 0 once more.
ForkAtGenesis ==
    /\ pc = "fork" /\ next = 0
    /\ Rollback(0)
    /\ GoTo("apply", 1)
    /\ UNCHANGED <<nodeVars, nodeTip, faults>>

\* mainHeight: NULL without an enforcer, and for a hash that it does not hold.
mainHeight(b) == IF heights THEN Write[b].main_height ELSE NULL

\* applyHeight.  A failed read of the mainchain height leaves it empty.
ApplyHeight ==
    /\ pc = "apply" /\ next <= nodeTip
    /\ next \in DOMAIN node
    /\ LET b == node[next] IN
       \/ Apply(b, mainHeight(b)) /\ UNCHANGED faults
       \/ heights /\ faults < MaxFaults /\ Apply(b, NULL) /\ faults' = faults + 1
    /\ GoTo("apply", next + 1)
    /\ UNCHANGED <<nodeVars, nodeTip>>

\* The node has no block at that height any more.
HeightGone ==
    /\ pc = "apply" /\ next <= nodeTip
    /\ next \notin DOMAIN node
    /\ EndPass
    /\ UNCHANGED <<storeVars, nodeVars, faults>>

\* Fault variant: no WHERE clause.
BlocksMissingMainHeight_All ==
    {h \in DOMAIN blocks : Cardinality({k \in DOMAIN blocks : k > h}) < BackfillPerPass}

\* Fault variant: LIMIT before WHERE.
BlocksMissingMainHeight_LimitFirst ==
    BlocksMissingMainHeight_All \ DOMAIN main_height

\* BlocksMissingMainHeight: the newest rows without a mainchain height.
BlocksMissingMainHeight ==
    LET rows == DOMAIN blocks \ DOMAIN main_height
    IN  {h \in rows : Cardinality({k \in rows : k > h}) < BackfillPerPass}

\* backfillMainHeights returns at once without an enforcer.
StartBackfill ==
    /\ pc = "apply" /\ next > nodeTip
    /\ pc' = "backfill" /\ missing' = IF heights THEN BlocksMissingMainHeight ELSE {}
    /\ UNCHANGED <<storeVars, nodeVars, nodeTip, next, faults>>

\* Fault variant: the mainchain hash comes from the node's block at that height.
BackfillOne_NodeBlock ==
    /\ pc = "backfill" /\ missing # {}
    /\ LET h == Max(missing) IN
       /\ h \in DOMAIN node /\ mainHeight(node[h]) # NULL
       /\ SetMainHeight(h, mainHeight(node[h]))
       /\ missing' = missing \ {h}
    /\ UNCHANGED <<nodeVars, pc, nodeTip, next, faults>>

\* One turn of backfillMainHeights: newest first, an unresolved one is skipped.
BackfillOne ==
    /\ pc = "backfill" /\ missing # {}
    /\ LET h == Max(missing)
           m == mainHeight(blocks[h]) IN
       /\ \/ m # NULL /\ SetMainHeight(h, m) /\ UNCHANGED faults
          \/ m = NULL /\ UNCHANGED <<storeVars, faults>>
          \/ faults < MaxFaults /\ faults' = faults + 1 /\ UNCHANGED storeVars
       /\ missing' = missing \ {h}
    /\ UNCHANGED <<nodeVars, pc, nodeTip, next>>

EndBackfill ==
    /\ pc = "backfill" /\ missing = {}
    /\ EndPass
    /\ UNCHANGED <<storeVars, nodeVars, faults>>

\* A failed call, a cancelled context or a restart: the pass ends where it is,
\* the database keeps what was committed, and Run starts a new pass.
PassFails ==
    /\ pc # "idle" /\ faults < MaxFaults
    /\ faults' = faults + 1
    /\ EndPass
    /\ UNCHANGED <<storeVars, nodeVars>>

\* The process is started again, with an enforcer this time.
RestartWithEnforcer ==
    /\ ~heights /\ heights' = TRUE
    /\ EndPass
    /\ UNCHANGED <<storeVars, node, moves, faults>>

PassStep ==
    \/ ReadTip \/ ResolveStart
    \/ ForkBelow \/ ForkFound \/ ForkAtGenesis
    \/ ApplyHeight \/ HeightGone
    \/ StartBackfill \/ BackfillOne \/ EndBackfill

SyncerNext ==
    \/ \E c \in Chains : NodeMoves(c)
    \/ PassStep
    \/ PassFails \/ RestartWithEnforcer

\* Syncer.Run never stops: there is always a next pass.
SyncerSpec == SyncerInit /\ [][SyncerNext]_vars /\ WF_vars(PassStep)

\* A node that reorganizes only between two passes, and may grow at any time.
CalmNext ==
    \/ \E c \in Chains : (pc = "idle" \/ Extends(c)) /\ NodeMoves(c)
    \/ PassStep
    \/ PassFails \/ RestartWithEnforcer

CalmSpec == SyncerInit /\ [][CalmNext]_vars /\ WF_vars(PassStep)

-----------------------------------------------------------------------------
\* The pass variables hold heights, and a backfill only rows without a
\* mainchain height.
SyncerTypeOK ==
    /\ TypeOK
    /\ node \in Chains \cup {EmptyTable}
    /\ pc \in {"idle", "resolve", "fork", "apply", "backfill"}
    /\ nodeTip \in Height
    /\ next \in 0..(MaxHeight + 1)
    /\ missing \subseteq DOMAIN blocks \ DOMAIN main_height

\* findFork "returns the highest height they share": unless the node grew since
\* the pass began, a rollback removes no block that is on the node's chain.
RollsBackStaleOnly ==
    [][NodeTipHeight = nodeTip =>
          \A h \in DOMAIN blocks \ DOMAIN blocks' : ~NodeHasAt(h, blocks[h])]_vars

\* "Syncer walks the chain forward and keeps the index level with the node":
\* when the node comes to rest, the index holds its chain and stays there.
EventuallyLevel == <>[](blocks = node)

\* The rows whose mainchain block the enforcer does not hold.
Unresolved == {h \in DOMAIN blocks : Held(h).main_height = NULL}

\* "A chain indexed before the mainchain height existed fills in over a few passes":
\* once there is an enforcer, every block that it can place gets its mainchain height,
\* though a pass asks for only BackfillPerPass of them, as long as fewer rows than
\* that stay unresolved: the newest rows are asked for first, and again in each pass.
EventuallyMainHeights ==
    <>[](heights /\ Cardinality(Unresolved) < BackfillPerPass =>
            DOMAIN main_height = DOMAIN blocks \ Unresolved)

\* findFork: "The chains disagree at genesis, so nothing survives."
NothingSurvivesGenesis ==
    [][pc = "fork" /\ next = 0 /\ pc' = "apply" => blocks' = EmptyTable]_vars

=============================================================================
