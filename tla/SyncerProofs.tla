---------------------------- MODULE SyncerProofs ----------------------------
(***************************************************************************)
(* Proofs about Syncer and MempoolSync: whatever the node does, what the   *)
(* two syncers do to the tables is what Store lets their callers do, so    *)
(* that every theorem of StoreProofs holds of the running program.         *)
(***************************************************************************)
EXTENDS MempoolSync, StoreProofs, FiniteSetTheorems, WellFoundedInduction

\* A leaf may take the solver longer than it is given by default.
USE SMTT(20), Zenon

-----------------------------------------------------------------------------
(***************************************************************************)
(* A pass remembers heights across calls to the node.  What it may rely on *)
(* when it uses them: there is a tip to look below, the next height is the *)
(* one after the tip, and the rows to backfill are rows without a height.  *)
(***************************************************************************)
PassInv ==
    /\ node \in Chains \cup {EmptyTable}
    /\ heights \in BOOLEAN
    /\ tip.height = -1 => tip = NoTip
    /\ pc \in {"idle", "resolve", "fork", "apply", "backfill"}
    /\ nodeTip \in Height
    /\ next \in 0..(MaxHeight + 1)
    /\ pc = "fork" => tip.height >= 0 /\ next <= tip.height
    /\ pc = "apply" => next = tip.height + 1
    /\ pc # "backfill" => missing = {}
    /\ missing \subseteq DOMAIN blocks \ DOMAIN main_height

SyncerInv == TypeOK /\ Rows /\ PassInv

\* While a pass runs, a node that only grows keeps the block of our tip once it was
\* found there, and the heights that findFork went past hold other blocks.
Anchored == pc = "apply" => tip.height = -1 \/ NodeHasAt(tip.height, tip.hash)

Passed ==
    /\ pc # "idle" => node # EmptyTable /\ nodeTip <= NodeTipHeight
    /\ pc = "fork" /\ NodeTipHeight = nodeTip =>
          \A h \in next..tip.height : ~NodeHasAt(h, blocks[h])

PollInv == pool \in Pools /\ (listed = NULL \/ listed \in Pools)

CalmInv == SyncerInv /\ Passed /\ PollInv

\* All chains of the block tree begin with the same block.
SharedGenesis ==
    \A a, b \in BlockHash :
        /\ Write[a].height = 0 /\ Write[a].prev_hash = NULL
        /\ Write[b].height = 0 /\ Write[b].prev_hash = NULL
        => a = b

-----------------------------------------------------------------------------
\* The newest row that backfillMainHeights asks for is one of them.
LEMMA MaxIsMember ==
    ASSUME NEW n \in Nat, NEW S \in SUBSET (0..n), S # {}
    PROVE  Max(S) \in S
<1> DEFINE T == {n - x : x \in S}
<1>1. T \subseteq Nat /\ T # {}
  <2>1. \A x \in S : n - x \in Nat
    OBVIOUS
  <2>2. PICK x : x \in S
    OBVIOUS
  <2>3. n - x \in T
    BY <2>2
  <2> QED BY <2>1, <2>3
<1>2. PICK d \in T : \A e \in T : <<e, d>> \notin OpToRel(<, Nat)
  <2> HIDE DEF T
  <2> QED BY <1>1, WFMin, NatLessThanWellFounded, Zenon
<1>3. \A e \in T : ~(e < d)
  BY <1>1, <1>2, Zenon DEF OpToRel
<1>4. PICK x \in S : d = n - x
  OBVIOUS
<1>5. \A y \in S : x >= y
  <2> TAKE y \in S
  <2>1. n - y \in T
    OBVIOUS
  <2>2. ~(n - y < n - x)
    BY <1>3, <1>4, <2>1
  <2> QED BY <2>2
<1> QED BY <1>4, <1>5, Zenon DEF Max

\* The height TipHeight returns is that of the last block of the chain.
LEMMA ChainTop ==
    ASSUME NEW c \in Chains
    PROVE  /\ Cardinality(DOMAIN c) - 1 \in Height
           /\ DOMAIN c = 0..(Cardinality(DOMAIN c) - 1)
<1>1. PICK n \in Height : c \in [0..n -> BlockHash]
  BY DEF Chains
<1>2. n \in Nat /\ DOMAIN c = 0..n
  BY <1>1, WriteAssumption DEF Height
<1>3. Cardinality(0..n) = n + 1
  BY <1>2, FS_Interval
<1> QED BY <1>1, <1>2, <1>3

\* The block a chain holds at a height is a block of that height, and a child of the
\* one below.
LEMMA ChainFacts ==
    ASSUME NEW c \in Chains
    PROVE  /\ DOMAIN c \subseteq Height
           /\ 0 \in DOMAIN c
           /\ c # EmptyTable
           /\ \A h \in DOMAIN c :
                 /\ c[h] \in BlockHash
                 /\ Write[c[h]].height = h
                 /\ Write[c[h]].prev_hash = IF h = 0 THEN NULL ELSE c[h - 1]
<1>1. PICK n \in Height : c \in [0..n -> BlockHash] /\ IsChain(c, n)
  BY DEF Chains
<1>2. n \in Nat /\ DOMAIN c = 0..n /\ n <= MaxHeight /\ MaxHeight \in Nat
  BY <1>1, WriteAssumption DEF Height
<1>3. DOMAIN EmptyTable = {}
  BY DEF EmptyTable
<1> QED BY <1>1, <1>2, <1>3 DEF IsChain, Height

\* What the node reports is of the shape of a chain, or there is no block yet.
LEMMA NodeFacts ==
    ASSUME PassInv, NEW h \in DOMAIN node
    PROVE  /\ node[h] \in BlockHash
           /\ h \in Height
           /\ Write[node[h]].height = h
<1>1. node # EmptyTable
  BY DEF EmptyTable
<1>2. node \in Chains
  BY <1>1 DEF PassInv
<1> QED BY <1>2, ChainFacts

-----------------------------------------------------------------------------
(***************************************************************************)
(* SyncerSpec implements StoreSpec.                                        *)
(***************************************************************************)

\* mainHeight answers nothing, or the height of the block that the header names.
LEMMA MainHeightFacts ==
    ASSUME NEW b, heights \in BOOLEAN
    PROVE  mainHeight(b) \in {NULL, Write[b].main_height}
BY DEF mainHeight

\* applyHeight hands Apply the block after the tip.
LEMMA ApplyHeightIsApply ==
    ASSUME SyncerInv, ApplyHeight
    PROVE  ApplyNext(node[next]) /\ node[next] \in BlockHash
<1>1. next \in DOMAIN node /\ pc = "apply"
  BY DEF ApplyHeight
<1>2. node[next] \in BlockHash /\ Write[node[next]].height = next
  BY <1>1, NodeFacts DEF SyncerInv
<1>3. next = tip.height + 1
  BY <1>1 DEF SyncerInv, PassInv
<1>4. \E m \in {NULL, Write[node[next]].main_height} : Apply(node[next], m)
  <2>1. CASE Apply(node[next], mainHeight(node[next]))
    BY <2>1, MainHeightFacts DEF SyncerInv, PassInv
  <2>2. CASE Apply(node[next], NULL)
    BY <2>2
  <2> QED BY <2>1, <2>2 DEF ApplyHeight
<1> QED BY <1>2, <1>3, <1>4 DEF ApplyNext

\* resolveStart rolls back to a height the index holds.
LEMMA ForkFoundIsRollback ==
    ASSUME SyncerInv, ForkFound
    PROVE  RollbackHeld(next - 1) /\ next - 1 \in Height
<1>1. next <= tip.height /\ next \in Int /\ tip.height \in Int
  BY WriteAssumption DEF ForkFound, SyncerInv, PassInv, TypeOK, Height
<1>2. next - 1 \in Height
  BY DEF ForkFound, SyncerInv, TypeOK
<1> QED BY <1>1, <1>2 DEF ForkFound, RollbackHeld

\* Also where it found no fork: the index holds height 0.
LEMMA ForkAtGenesisIsRollback ==
    ASSUME SyncerInv, ForkAtGenesis
    PROVE  RollbackHeld(0) /\ 0 \in Height
BY WriteAssumption DEF ForkAtGenesis, SyncerInv, PassInv, RollbackHeld, Height

\* The row that the backfill turns to has no mainchain height yet.
LEMMA MissingMax ==
    ASSUME SyncerInv, missing # {}
    PROVE  Max(missing) \in missing /\ Max(missing) \in Height
<1>1. missing \subseteq 0..MaxHeight /\ MaxHeight \in Nat
  BY WriteAssumption DEF SyncerInv, PassInv, TypeOK, Height
<1> QED BY <1>1, MaxIsMember, Zenon DEF Height

\* backfillMainHeights fills a row that has no height, and with that block's height.
LEMMA BackfillOneIsBackfill ==
    ASSUME SyncerInv, BackfillOne
    PROVE  (\E h \in Height : Backfill(h)) \/ UNCHANGED storeVars
<1> DEFINE h == Max(missing)
           m == mainHeight(blocks[h])
<1>1. h \in missing /\ h \in Height
  BY MissingMax DEF BackfillOne
<1> HIDE DEF h
<1>2. CASE m # NULL /\ SetMainHeight(h, m)
  <2>1. m = Write[blocks[h]].main_height
    BY <1>2, MainHeightFacts DEF SyncerInv, PassInv
  <2>2. h \in DOMAIN blocks \ DOMAIN main_height
    BY <1>1 DEF SyncerInv, PassInv
  <2> QED BY <1>1, <1>2, <2>1, <2>2 DEF Backfill
<1>3. CASE UNCHANGED storeVars
  BY <1>3
<1> QED BY <1>2, <1>3 DEF BackfillOne, h

\* Each step of a pass is a call of the store as Store describes it, or leaves the
\* tables alone.
LEMMA PassStepIsStore ==
    ASSUME SyncerInv, PassStep
    PROVE  StoreNext \/ UNCHANGED storeVars
<1>1. CASE ApplyHeight
  BY <1>1, ApplyHeightIsApply DEF StoreNext
<1>2. CASE ForkFound
  BY <1>2, ForkFoundIsRollback DEF StoreNext
<1>3. CASE ForkAtGenesis
  BY <1>3, ForkAtGenesisIsRollback DEF StoreNext
<1>4. CASE BackfillOne
  BY <1>4, BackfillOneIsBackfill DEF StoreNext
<1>5. CASE ReadTip \/ ResolveStart \/ ForkBelow \/ HeightGone \/ StartBackfill \/ EndBackfill
  BY <1>5 DEF ReadTip, ResolveStart, ForkBelow, HeightGone, StartBackfill, EndBackfill
<1> QED BY <1>1, <1>2, <1>3, <1>4, <1>5 DEF PassStep

\* A rollback to a height the index holds leaves the tip there.
LEMMA RollbackTip ==
    ASSUME TypeOK, TipIsTop, NEW h \in Height, RollbackHeld(h)
    PROVE  tip' = [height |-> h, hash |-> blocks[h]]
<1>1. h \in DOMAIN blocks
  BY WriteAssumption DEF TypeOK, TipIsTop, RollbackHeld, Height
<1> QED BY <1>1 DEF RollbackHeld, Rollback, tipAt

\* The pass begins: the node has a chain, and its height is a height.
LEMMA ReadTipInv == ASSUME SyncerInv, ReadTip PROVE PassInv'
<1>1. node \in Chains
  BY DEF SyncerInv, PassInv, ReadTip
<1>2. NodeTipHeight \in Height
  BY <1>1, ChainTop DEF NodeTipHeight
<1>3. UNCHANGED <<node, heights, tip, blocks, main_height>>
  BY DEF ReadTip, nodeVars, storeVars, chainVars
<1>4. 0 \in 0..(MaxHeight + 1)
  BY WriteAssumption
<1> QED BY <1>2, <1>3, <1>4 DEF ReadTip, GoTo, SyncerInv, PassInv

\* resolveStart goes on after the tip, or looks for the fork below it.
LEMMA ResolveStartInv == ASSUME SyncerInv, ResolveStart PROVE PassInv'
<1>1. UNCHANGED <<node, heights, tip, blocks, main_height, nodeTip>>
  BY DEF ResolveStart, nodeVars, storeVars, chainVars
<1>2. tip.height \in Height \cup {-1} /\ MaxHeight \in Nat
  BY WriteAssumption DEF SyncerInv, TypeOK
<1>3. missing' = {}
  BY DEF ResolveStart, GoTo
<1>4. \/ pc' = "apply" /\ next' = tip.height + 1
      \/ pc' = "fork" /\ next' = tip.height /\ tip # NoTip
  BY DEF ResolveStart, GoTo, NoTip
<1>5. next' \in 0..(MaxHeight + 1)
  BY <1>2, <1>4 DEF Height, SyncerInv, PassInv
<1>6. pc' = "fork" => tip.height >= 0
  BY <1>2, <1>4 DEF Height, SyncerInv, PassInv
<1> QED BY <1>1, <1>2, <1>3, <1>4, <1>5, <1>6 DEF SyncerInv, PassInv, Height

\* findFork goes one height down, and stays below the tip.
LEMMA ForkBelowInv == ASSUME SyncerInv, ForkBelow PROVE PassInv'
<1>1. UNCHANGED <<node, heights, tip, blocks, main_height, nodeTip>>
  BY DEF ForkBelow, nodeVars, storeVars, chainVars
<1>2. tip.height \in Int /\ MaxHeight \in Nat /\ next \in 0..(MaxHeight + 1)
  BY WriteAssumption DEF SyncerInv, TypeOK, Height, PassInv
<1>3. pc' = "fork" /\ next' = next - 1 /\ missing' = {} /\ next > 0 /\ pc = "fork"
  BY DEF ForkBelow, GoTo
<1> QED BY <1>1, <1>2, <1>3 DEF SyncerInv, PassInv

\* After either rollback the next height is the one after the new tip.
LEMMA ForkRollbackInv ==
    ASSUME SyncerInv, NEW h \in Height, RollbackHeld(h), GoTo("apply", h + 1),
           UNCHANGED <<nodeVars, nodeTip>>
    PROVE  PassInv'
<1>1. tip' = [height |-> h, hash |-> blocks[h]]
  BY RollbackTip DEF SyncerInv, Rows
<1>2. h \in 0..MaxHeight /\ MaxHeight \in Nat
  BY WriteAssumption DEF Height
<1>3. next' = h + 1 /\ pc' = "apply" /\ missing' = {}
  BY DEF GoTo
<1> QED BY <1>1, <1>2, <1>3 DEF nodeVars, SyncerInv, PassInv

\* The pass moves on with the tip.
LEMMA ApplyHeightInv == ASSUME SyncerInv, ApplyHeight PROVE PassInv'
<1>1. tip' = [height |-> next, hash |-> node[next]]
  <2>1. Write[node[next]].height = next
    BY NodeFacts DEF ApplyHeight, SyncerInv
  <2> QED BY <2>1, ApplyHeightIsApply DEF ApplyNext, Apply
<1>2. next \in Height /\ MaxHeight \in Nat
  BY NodeFacts, WriteAssumption DEF ApplyHeight, SyncerInv
<1>3. next' = next + 1 /\ pc' = "apply" /\ missing' = {}
  BY DEF ApplyHeight, GoTo
<1>4. UNCHANGED <<node, heights, nodeTip>>
  BY DEF ApplyHeight, nodeVars
<1> QED BY <1>1, <1>2, <1>3, <1>4 DEF Height, SyncerInv, PassInv

\* The backfill is given rows without a mainchain height.
LEMMA StartBackfillInv == ASSUME SyncerInv, StartBackfill PROVE PassInv'
<1>1. UNCHANGED <<node, heights, tip, blocks, main_height, nodeTip, next>>
  BY DEF StartBackfill, nodeVars, storeVars, chainVars
<1>2. missing' \subseteq DOMAIN blocks \ DOMAIN main_height
  BY DEF StartBackfill, BlocksMissingMainHeight
<1> QED BY <1>1, <1>2 DEF StartBackfill, SyncerInv, PassInv

\* A row that gets its height leaves the list in the same turn.
LEMMA BackfillOneInv == ASSUME SyncerInv, BackfillOne PROVE PassInv'
<1> DEFINE h == Max(missing)
<1>1. missing' = missing \ {h} /\ UNCHANGED <<node, heights, pc, nodeTip, next>>
  BY DEF BackfillOne, nodeVars
<1>2. UNCHANGED <<tip, blocks>>
  BY DEF BackfillOne, SetMainHeight, storeVars, chainVars
<1>3. DOMAIN main_height' \subseteq DOMAIN main_height \cup {h}
  BY DEF BackfillOne, SetMainHeight, storeVars, chainVars
<1>4. pc' = "backfill"
  BY <1>1 DEF BackfillOne
<1> HIDE DEF h
<1> QED BY <1>1, <1>2, <1>3, <1>4 DEF SyncerInv, PassInv

\* A pass that ends leaves nothing behind.
LEMMA EndPassInv ==
    ASSUME SyncerInv, EndPass, UNCHANGED <<storeVars, node>>, heights' \in BOOLEAN
    PROVE  PassInv'
<1>1. UNCHANGED <<tip, blocks, main_height>>
  BY DEF storeVars, chainVars
<1>2. 0 \in Height /\ 0 \in 0..(MaxHeight + 1)
  BY WriteAssumption DEF Height
<1> QED BY <1>1, <1>2 DEF EndPass, SyncerInv, PassInv

\* Each step of a pass keeps what the pass relies on.
LEMMA PassStepInv == ASSUME SyncerInv, PassStep PROVE PassInv'
<1>1. CASE ForkFound
  <2>1. next \in Int
    BY WriteAssumption DEF SyncerInv, PassInv
  <2>2. (next - 1) + 1 = next
    BY <2>1
  <2> QED BY <1>1, <2>2, ForkFoundIsRollback, ForkRollbackInv DEF ForkFound
<1>2. CASE ForkAtGenesis
  <2>1. 0 + 1 = 1
    OBVIOUS
  <2> QED BY <1>2, <2>1, ForkAtGenesisIsRollback, ForkRollbackInv DEF ForkAtGenesis
<1>3. CASE HeightGone \/ EndBackfill
  BY <1>3, EndPassInv DEF HeightGone, EndBackfill, nodeVars, SyncerInv, PassInv
<1> QED BY <1>1, <1>2, <1>3, ReadTipInv, ResolveStartInv, ForkBelowInv, ApplyHeightInv,
           StartBackfillInv, BackfillOneInv DEF PassStep

\* Where only the node moves, the pass and its rows stay.
LEMMA NodeMovesInv ==
    ASSUME SyncerInv, NEW c \in Chains, NodeMoves(c)
    PROVE  PassInv'
BY DEF NodeMoves, storeVars, chainVars, passVars, SyncerInv, PassInv

\* Nothing that happens outside the pass takes away what it relies on.
LEMMA OutsideInv ==
    ASSUME SyncerInv,
           \/ PassFails
           \/ RestartWithEnforcer
           \/ UNCHANGED <<chainVars, node, heights, passVars>>
    PROVE  PassInv'
<1>1. CASE PassFails
  BY <1>1, EndPassInv DEF PassFails, nodeVars, SyncerInv, PassInv
<1>2. CASE RestartWithEnforcer
  BY <1>2, EndPassInv DEF RestartWithEnforcer
<1>3. CASE UNCHANGED <<chainVars, node, heights, passVars>>
  BY <1>3 DEF chainVars, passVars, SyncerInv, PassInv
<1> QED BY <1>1, <1>2, <1>3

\* Every step of the syncer is a step of Store, or leaves the tables alone.
LEMMA SyncerStepIsStore ==
    SyncerInv /\ [SyncerNext]_vars => [StoreNext]_storeVars
<1> SUFFICES ASSUME SyncerInv, [SyncerNext]_vars PROVE StoreNext \/ UNCHANGED storeVars
  OBVIOUS
<1>1. ASSUME NEW c \in Chains, NodeMoves(c) PROVE UNCHANGED storeVars
  BY <1>1 DEF NodeMoves
<1>2. CASE PassStep
  BY <1>2, PassStepIsStore
<1>3. CASE PassFails \/ RestartWithEnforcer
  BY <1>3 DEF PassFails, RestartWithEnforcer
<1>4. CASE UNCHANGED vars
  BY <1>4 DEF vars
<1> QED BY <1>1, <1>2, <1>3, <1>4 DEF SyncerNext

\* The invariant of the syncer and of the tables below it is inductive.
LEMMA SyncerStep == SyncerInv /\ [SyncerNext]_vars => SyncerInv'
<1> SUFFICES ASSUME SyncerInv, [SyncerNext]_vars PROVE SyncerInv'
  OBVIOUS
<1>1. TypeOK' /\ Rows'
  BY SyncerStepIsStore, TypeOKStep, RowsStep DEF SyncerInv
<1>2. ASSUME UNCHANGED vars PROVE PassInv'
  BY <1>2, OutsideInv DEF vars, storeVars, nodeVars
<1>3. PassInv'
  BY <1>2, NodeMovesInv, PassStepInv, OutsideInv DEF SyncerNext
<1> QED BY <1>1, <1>3 DEF SyncerInv

\* The process starts with empty tables and no pass under way.
LEMMA SyncerInitInv == SyncerInit => SyncerInv
<1> SUFFICES ASSUME SyncerInit PROVE SyncerInv
  OBVIOUS
<1>1. TypeOK /\ Rows
  BY TypeOKInit, RowsInit DEF SyncerInit
<1>2. PassInv
  BY WriteAssumption DEF SyncerInit, StoreInit, PassInv, Height
<1> QED BY <1>1, <1>2 DEF SyncerInv

\* Whatever the node does between two calls of a pass, and wherever a pass fails, the
\* pass holds heights that exist, and a backfill only rows without a mainchain height.
THEOREM SyncerTypes == SyncerSpec => []SyncerTypeOK
<1>1. SyncerInv => SyncerTypeOK
  BY DEF SyncerInv, PassInv, SyncerTypeOK
<1> QED BY SyncerInitInv, SyncerStep, <1>1, PTL DEF SyncerSpec

\* The syncer implements the store's contract under a node that may reorganize at any
\* moment, and start from another genesis block: Syncer.Once applies only the height
\* after the tip and rolls back only to heights the index holds, though both were
\* decided before other calls to the node.
THEOREM SyncerImplementsStore == SyncerSpec => StoreSpec
<1>1. SyncerInit => StoreInit
  BY DEF SyncerInit
<1> QED BY <1>1, SyncerInitInv, SyncerStep, SyncerStepIsStore, PTL DEF SyncerSpec, StoreSpec

-----------------------------------------------------------------------------
(***************************************************************************)
(* The syncer and the mempool poller together, beside a node that          *)
(* reorganizes between two passes and may grow at any time.                *)
(***************************************************************************)

\* What the poller was told is a set of transactions a node can have listed.
LEMMA PollStepInv == ASSUME PollInv, [MempoolSyncNext]_allVars PROVE PollInv'
<1>1. \A c : NodePools(c) \subseteq Pools
  BY DEF NodePools
<1>2. ASSUME NEW c, NodeMovesWithPool(c) PROVE PollInv'
  BY <1>1, <1>2 DEF NodeMovesWithPool, PollInv
<1>3. CASE PoolMoves
  BY <1>1, <1>3 DEF PoolMoves, PollInv
<1>4. CASE UNCHANGED pollVars
  BY <1>4 DEF pollVars, PollInv
<1>5. CASE ListMempool
  BY <1>5 DEF ListMempool, PollInv
<1>6. CASE ReplaceListed
  BY <1>6 DEF ReplaceListed, PollInv
<1>7. CASE PollFails
  BY <1>7 DEF PollFails, PollInv
<1>8. CASE UNCHANGED allVars
  BY <1>4, <1>8 DEF allVars
<1> QED BY <1>2, <1>3, <1>4, <1>5, <1>6, <1>7, <1>8 DEF MempoolSyncNext, PollStep

\* The poller hands ReplaceMempool such a set, however old it is.
LEMMA ReplaceListedIsReplace ==
    ASSUME PollInv, ReplaceListed
    PROVE  \E S \in Pools, now \in Clock : ReplaceMempool(S, now)
BY DEF PollInv, ReplaceListed

\* Of the steps around the block pass, only ReplaceListed writes tables, and it leaves
\* those of the chain alone.
LEMMA AroundPass ==
    ASSUME PollStep \/ PollFails \/ PoolMoves \/ UNCHANGED allVars
    PROVE  /\ UNCHANGED <<chainVars, node, heights, passVars>>
           /\ ReplaceListed \/ UNCHANGED storeVars
<1>1. CASE ListMempool \/ UNCHANGED allVars
  BY <1>1 DEF ListMempool, allVars, vars, storeVars, nodeVars
<1>2. CASE ReplaceListed
  BY <1>2 DEF ReplaceListed, ReplaceMempool, nodeVars
<1>3. CASE PollFails
  BY <1>3 DEF PollFails, storeVars, nodeVars
<1>4. CASE PoolMoves
  BY <1>4 DEF PoolMoves, storeVars
<1> QED BY <1>1, <1>2, <1>3, <1>4 DEF PollStep

\* Every step of the two syncers is a step of Store, or leaves the tables alone.
LEMMA MempoolSyncStepIsStore ==
    ASSUME SyncerInv, PollInv, [MempoolSyncNext]_allVars
    PROVE  StoreNext \/ UNCHANGED storeVars
<1>1. ASSUME NEW c \in Chains, NodeMovesWithPool(c) PROVE UNCHANGED storeVars
  BY <1>1 DEF NodeMovesWithPool, NodeMoves
<1>2. CASE PassStep
  BY <1>2, PassStepIsStore
<1>3. CASE PassFails \/ RestartWithEnforcer
  BY <1>3 DEF PassFails, RestartWithEnforcer
<1>4. CASE PollStep \/ PollFails \/ PoolMoves \/ UNCHANGED allVars
  BY <1>4, AroundPass, ReplaceListedIsReplace DEF StoreNext
<1> QED BY <1>1, <1>2, <1>3, <1>4 DEF MempoolSyncNext

\* The syncer's invariant does not depend on the poller.
LEMMA MempoolSyncSyncerInv ==
    ASSUME SyncerInv, PollInv, [MempoolSyncNext]_allVars
    PROVE  SyncerInv'
<1>1. TypeOK' /\ Rows'
  BY MempoolSyncStepIsStore, TypeOKStep, RowsStep DEF SyncerInv
<1>2. ASSUME NEW c \in Chains, NodeMovesWithPool(c) PROVE PassInv'
  BY <1>2, NodeMovesInv DEF NodeMovesWithPool
<1>3. ASSUME PollStep \/ PollFails \/ PoolMoves \/ UNCHANGED allVars PROVE PassInv'
  BY <1>3, AroundPass, OutsideInv
<1>4. PassInv'
  BY <1>2, <1>3, PassStepInv, OutsideInv DEF MempoolSyncNext
<1> QED BY <1>1, <1>4 DEF SyncerInv

\* A node that grows during a pass has a tip above the one the pass read.
LEMMA GrowthIsSeen ==
    ASSUME node \in Chains, NEW c \in Chains, Extends(c), NodeMoves(c)
    PROVE  NodeTipHeight' > NodeTipHeight /\ NodeTipHeight \in Int
<1> DEFINE a == NodeTipHeight
           b == Cardinality(DOMAIN c) - 1
<1>1. a \in Height /\ DOMAIN node = 0..a
  BY ChainTop DEF NodeTipHeight
<1>2. b \in Height /\ DOMAIN c = 0..b
  BY ChainTop
<1>3. NodeTipHeight' = b
  BY DEF NodeMoves, NodeTipHeight
<1>4. a \in Nat /\ b \in Nat
  BY <1>1, <1>2, WriteAssumption DEF Height
<1>5. a <= b
  <2>1. a \in 0..b
    BY <1>1, <1>2, <1>4 DEF Extends
  <2> QED BY <2>1, <1>4
<1>6. a # b
  <2> SUFFICES ASSUME a = b PROVE FALSE
    OBVIOUS
  <2>1. DOMAIN node = DOMAIN c
    BY <1>1, <1>2
  <2>2. \A h \in DOMAIN c : c[h] = node[h]
    BY <2>1 DEF Extends
  <2>3. node = [h \in DOMAIN c |-> node[h]] /\ c = [h \in DOMAIN c |-> c[h]]
    BY <2>1 DEF Chains
  <2> QED BY <2>2, <2>3 DEF NodeMoves
<1> QED BY <1>3, <1>4, <1>5, <1>6

\* The node's step: during a pass it only grows, which findFork's caller can see.
LEMMA NodeMovesPassed ==
    ASSUME CalmInv, NEW c \in Chains, pc = "idle" \/ Extends(c), NodeMoves(c)
    PROVE  Passed'
<1>1. node' = c /\ UNCHANGED <<pc, nodeTip>>
  BY DEF NodeMoves, passVars
<1>2. CASE pc = "idle"
  BY <1>1, <1>2 DEF Passed
<1>3. CASE pc # "idle" /\ Extends(c)
  <2>1. node \in Chains /\ nodeTip <= NodeTipHeight
    BY <1>3 DEF CalmInv, SyncerInv, PassInv, Passed
  <2>2. NodeTipHeight' > NodeTipHeight /\ NodeTipHeight \in Int
    BY <1>3, <2>1, GrowthIsSeen
  <2>3. NodeTipHeight' \in Int /\ node' # EmptyTable
    BY <1>1, ChainTop, ChainFacts, WriteAssumption DEF NodeTipHeight, Height
  <2>4. nodeTip \in Int
    BY WriteAssumption DEF CalmInv, SyncerInv, PassInv, Height
  <2>5. nodeTip' < NodeTipHeight'
    BY <1>1, <2>1, <2>2, <2>3, <2>4
  <2>6. nodeTip' <= NodeTipHeight' /\ nodeTip' # NodeTipHeight'
    BY <1>1, <2>3, <2>4, <2>5
  <2> HIDE DEF NodeTipHeight
  <2> QED BY <2>3, <2>6 DEF Passed
<1> QED BY <1>2, <1>3

\* The steps of a pass: findFork goes past a height only when the node has another
\* block there.
LEMMA PassStepPassed == ASSUME CalmInv, PassStep PROVE Passed'
<1>1. node' = node /\ NodeTipHeight' = NodeTipHeight
  BY DEF PassStep, ReadTip, ResolveStart, ForkBelow, ForkFound, ForkAtGenesis, ApplyHeight,
         HeightGone, StartBackfill, BackfillOne, EndBackfill, nodeVars, NodeTipHeight
<1>2. tip.height \in Int /\ next \in Int
  BY WriteAssumption DEF CalmInv, SyncerInv, PassInv, TypeOK, Height
<1>3. CASE ReadTip
  <2>1. NodeTipHeight \in Int
    BY <1>3, ChainTop, WriteAssumption
       DEF ReadTip, CalmInv, SyncerInv, PassInv, NodeTipHeight, Height
  <2>2. pc' = "resolve" /\ nodeTip' = NodeTipHeight /\ node # EmptyTable
    BY <1>3 DEF ReadTip, GoTo
  <2> QED BY <1>1, <2>1, <2>2 DEF Passed
<1>4. ASSUME pc # "idle", UNCHANGED nodeTip, pc' # "fork" PROVE Passed'
  BY <1>1, <1>4 DEF CalmInv, Passed
<1>5. CASE ResolveStart
  <2>1. UNCHANGED <<nodeTip, blocks, tip>> /\ pc # "idle"
    BY <1>5 DEF ResolveStart, storeVars, chainVars
  <2>2. pc' = "fork" => next' = tip.height /\ ~NodeHasAt(tip.height, tip.hash)
    BY <1>5 DEF ResolveStart, GoTo
  <2>3. pc' = "fork" => tip.height >= 0
    <3>1. PassInv'
      BY <1>5, ResolveStartInv DEF CalmInv
    <3> QED BY <2>1, <3>1 DEF PassInv
  <2>4. tip.height >= 0 => tip.hash = blocks[tip.height]
    BY <1>2 DEF CalmInv, SyncerInv, Rows, TipIsTop
  <2>5. pc' = "fork" => \A h \in next'..tip'.height : ~NodeHasAt(h, blocks[h])
    BY <1>2, <2>1, <2>2, <2>3, <2>4
  <2> QED BY <1>1, <2>1, <2>5 DEF CalmInv, Passed, NodeHasAt
<1>6. CASE ForkBelow
  <2>1. UNCHANGED <<nodeTip, blocks, tip>> /\ pc = "fork" /\ next' = next - 1 /\ next > 0
    BY <1>6 DEF ForkBelow, GoTo, storeVars, chainVars
  <2>2. next - 1 \in DOMAIN blocks
    BY <1>2, <2>1 DEF CalmInv, SyncerInv, PassInv, Rows, TipIsTop
  <2>3. ~NodeHasAt(next - 1, blocks[next - 1])
    BY <1>6, <2>2 DEF ForkBelow
  <2>4. NodeTipHeight = nodeTip => \A h \in next'..tip.height : ~NodeHasAt(h, blocks[h])
    <3> SUFFICES ASSUME NodeTipHeight = nodeTip, NEW h \in (next - 1)..tip.height
                 PROVE  ~NodeHasAt(h, blocks[h])
      BY <2>1
    <3>1. h = next - 1 \/ h \in next..tip.height
      BY <1>2
    <3> QED BY <2>1, <2>3, <3>1 DEF CalmInv, Passed
  <2> QED BY <1>1, <2>1, <2>4 DEF CalmInv, Passed, NodeHasAt
<1>7. CASE HeightGone \/ EndBackfill
  BY <1>7 DEF HeightGone, EndBackfill, EndPass, Passed
<1>8. CASE ForkFound \/ ForkAtGenesis \/ ApplyHeight \/ StartBackfill \/ BackfillOne
  <2>1. pc # "idle" /\ UNCHANGED nodeTip /\ pc' # "fork"
    BY <1>8 DEF ForkFound, ForkAtGenesis, ApplyHeight, StartBackfill, BackfillOne, GoTo
  <2> QED BY <1>4, <2>1
<1> QED BY <1>3, <1>5, <1>6, <1>7, <1>8 DEF PassStep

\* What the pass knows of the node survives every step of the system.
LEMMA CalmStep == CalmInv /\ [MempoolSyncNext]_allVars => CalmInv'
<1> SUFFICES ASSUME CalmInv, [MempoolSyncNext]_allVars PROVE CalmInv'
  OBVIOUS
<1>1. SyncerInv' /\ PollInv'
  BY MempoolSyncSyncerInv, PollStepInv DEF CalmInv
<1>2. ASSUME NEW c \in Chains, pc = "idle" \/ Extends(c), NodeMovesWithPool(c)
      PROVE  Passed'
  BY <1>2, NodeMovesPassed DEF NodeMovesWithPool
<1>3. ASSUME PassStep PROVE Passed'
  BY <1>3, PassStepPassed
<1>4. ASSUME PassFails \/ RestartWithEnforcer PROVE Passed'
  BY <1>4 DEF PassFails, RestartWithEnforcer, EndPass, Passed
<1>5. ASSUME PollStep \/ PollFails \/ PoolMoves \/ UNCHANGED allVars PROVE Passed'
  <2>1. UNCHANGED <<chainVars, node, passVars>>
    BY <1>5, AroundPass
  <2> QED BY <2>1 DEF chainVars, passVars, CalmInv, Passed, NodeHasAt, NodeTipHeight
<1>6. Passed'
  BY <1>2, <1>3, <1>4, <1>5 DEF MempoolSyncNext
<1> QED BY <1>1, <1>6 DEF CalmInv

\* The invariant holds when both loops start.
LEMMA CalmInit == MempoolSyncInit => CalmInv
<1> SUFFICES ASSUME MempoolSyncInit PROVE CalmInv
  OBVIOUS
<1>1. SyncerInv
  BY SyncerInitInv DEF MempoolSyncInit
<1>2. Passed /\ PollInv
  BY DEF MempoolSyncInit, SyncerInit, Passed, PollInv, Pools
<1> QED BY <1>1, <1>2 DEF CalmInv

\* A rollback takes away only blocks that the node has replaced, as long as the node
\* has not grown since the pass read its tip.
TakesStaleOnly ==
    NodeTipHeight = nodeTip =>
        \A h \in DOMAIN blocks \ DOMAIN blocks' : ~NodeHasAt(h, blocks[h])

\* Only a rollback takes blocks away, and those above the height it goes to.
LEMMA OnlyRollbackTakes ==
    ASSUME SyncerInv, PollInv, [MempoolSyncNext]_allVars,
           NEW h \in DOMAIN blocks \ DOMAIN blocks'
    PROVE  pc = "fork" /\ h \in next..tip.height
<1>1. h \in 0..tip.height /\ tip.height \in Int /\ next \in Int
  BY WriteAssumption DEF SyncerInv, PassInv, Rows, TipIsTop, TypeOK, Height
<1>2. UNCHANGED blocks => FALSE
  OBVIOUS
<1>3. CASE ForkFound
  <2>1. DOMAIN blocks' = {k \in DOMAIN blocks : k <= next - 1}
    BY <1>3, RestrictFacts DEF ForkFound, Rollback
  <2>2. h >= next
    BY <1>1, <2>1
  <2> QED BY <1>1, <1>3, <2>2 DEF ForkFound
<1>4. CASE ForkAtGenesis
  <2>1. pc = "fork" /\ next = 0
    BY <1>4 DEF ForkAtGenesis
  <2> QED BY <1>1, <2>1
<1>5. CASE ApplyHeight
  <2>1. DOMAIN blocks \subseteq DOMAIN blocks'
    BY <1>5, ApplyHeightIsApply DEF ApplyNext, Apply, insertBlock
  <2> QED BY <2>1
<1>6. CASE \/ ReadTip \/ ResolveStart \/ ForkBelow \/ HeightGone
           \/ StartBackfill \/ BackfillOne \/ EndBackfill
  <2>1. UNCHANGED blocks
    BY <1>6 DEF ReadTip, ResolveStart, ForkBelow, HeightGone, StartBackfill, BackfillOne,
                EndBackfill, SetMainHeight, storeVars, chainVars
  <2> QED BY <1>2, <2>1
<1>7. CASE PassFails \/ RestartWithEnforcer
  <2>1. UNCHANGED blocks
    BY <1>7 DEF PassFails, RestartWithEnforcer, storeVars, chainVars
  <2> QED BY <1>2, <2>1
<1>8. CASE PollStep \/ PollFails \/ PoolMoves \/ UNCHANGED allVars
  <2>1. UNCHANGED blocks
    BY <1>8, AroundPass DEF chainVars
  <2> QED BY <1>2, <2>1
<1>9. ASSUME NEW c \in Chains, NodeMovesWithPool(c) PROVE FALSE
  <2>1. UNCHANGED blocks
    BY <1>9 DEF NodeMovesWithPool, NodeMoves, storeVars, chainVars
  <2> QED BY <1>2, <2>1
<1> QED BY <1>3, <1>4, <1>5, <1>6, <1>7, <1>8, <1>9 DEF MempoolSyncNext, PassStep

\* findFork "returns the highest height they share": with the poller, failed calls and
\* restarts around it, a rollback of the syncer removes no block of the node's chain
\* unless the node has grown since the pass read its tip.
THEOREM MempoolSyncRollsBackStaleOnly == MempoolSyncSpec => RollsBackStaleOnly
<1>1. CalmInv /\ [MempoolSyncNext]_allVars => [TakesStaleOnly]_vars
  <2> SUFFICES ASSUME CalmInv, [MempoolSyncNext]_allVars, NodeTipHeight = nodeTip,
                      NEW h \in DOMAIN blocks \ DOMAIN blocks'
               PROVE  ~NodeHasAt(h, blocks[h])
    BY DEF TakesStaleOnly
  <2>1. pc = "fork" /\ h \in next..tip.height
    BY OnlyRollbackTakes DEF CalmInv
  <2> QED BY <2>1 DEF CalmInv, Passed
<1> QED BY CalmInit, CalmStep, <1>1, PTL
        DEF MempoolSyncSpec, RollsBackStaleOnly, TakesStaleOnly

-----------------------------------------------------------------------------
(***************************************************************************)
(* MempoolSyncSpec implements LinkedSpec when all chains share a genesis   *)
(* block.  Without that, ForkAtGenesis keeps the old genesis block and the *)
(* pass goes on with a block that is no child of it.                       *)
(***************************************************************************)
LinkedInv == CalmInv /\ Linked /\ Anchored

\* The block applied is a child of the tip: the node still has the tip's block.
LEMMA ApplyHeightIsLinked ==
    ASSUME LinkedInv, ApplyHeight
    PROVE  LinkedApply(node[next]) /\ node[next] \in BlockHash
<1>1. ApplyNext(node[next]) /\ node[next] \in BlockHash
  BY ApplyHeightIsApply DEF LinkedInv, CalmInv
<1>2. pc = "apply" /\ next \in DOMAIN node /\ next = tip.height + 1
  BY DEF ApplyHeight, LinkedInv, CalmInv, SyncerInv, PassInv
<1>3. tip.height \in Int
  BY WriteAssumption DEF LinkedInv, CalmInv, SyncerInv, TypeOK, Height
<1>4. node \in Chains
  BY <1>2 DEF LinkedInv, CalmInv, SyncerInv, PassInv, EmptyTable
<1>5. Write[node[next]].prev_hash = IF next = 0 THEN NULL ELSE node[next - 1]
  BY <1>2, <1>4, ChainFacts
<1>6. CASE tip.height = -1
  BY <1>1, <1>2, <1>5, <1>6 DEF LinkedApply, LinkedInv, CalmInv, SyncerInv, Rows, TipIsTop
<1>7. CASE NodeHasAt(tip.height, tip.hash)
  <2>1. tip.height \in DOMAIN node /\ node[tip.height] = tip.hash
    BY <1>7 DEF NodeHasAt
  <2>2. tip.height >= 0
    BY <1>4, <2>1, ChainFacts, WriteAssumption DEF Height
  <2>3. Write[node[next]].prev_hash = tip.hash
    BY <1>2, <1>3, <1>5, <2>1, <2>2
  <2> QED BY <1>1, <2>3 DEF LinkedApply
<1> QED BY <1>2, <1>6, <1>7 DEF LinkedInv, Anchored

\* Every step of the two syncers is one that LinkedSpec allows.
LEMMA MempoolSyncStepIsLinked ==
    LinkedInv /\ [MempoolSyncNext]_allVars => [LinkedNext]_storeVars
<1> SUFFICES ASSUME LinkedInv, [MempoolSyncNext]_allVars
             PROVE  LinkedNext \/ UNCHANGED storeVars
  OBVIOUS
<1> USE DEF LinkedInv, CalmInv
<1>1. ASSUME NEW c \in Chains, NodeMovesWithPool(c) PROVE UNCHANGED storeVars
  BY <1>1 DEF NodeMovesWithPool, NodeMoves
<1>2. CASE ApplyHeight
  BY <1>2, ApplyHeightIsLinked DEF LinkedNext
<1>3. CASE ForkFound
  BY <1>3, ForkFoundIsRollback DEF LinkedNext
<1>4. CASE ForkAtGenesis
  BY <1>4, ForkAtGenesisIsRollback DEF LinkedNext
<1>5. CASE BackfillOne
  BY <1>5, BackfillOneIsBackfill DEF LinkedNext
<1>6. CASE ReadTip \/ ResolveStart \/ ForkBelow \/ HeightGone \/ StartBackfill \/ EndBackfill
  BY <1>6 DEF ReadTip, ResolveStart, ForkBelow, HeightGone, StartBackfill, EndBackfill
<1>7. CASE PassFails \/ RestartWithEnforcer
  BY <1>7 DEF PassFails, RestartWithEnforcer
<1>8. CASE PollStep \/ PollFails \/ PoolMoves \/ UNCHANGED allVars
  BY <1>8, AroundPass, ReplaceListedIsReplace DEF LinkedNext
<1> QED BY <1>1, <1>2, <1>3, <1>4, <1>5, <1>6, <1>7, <1>8 DEF MempoolSyncNext, PassStep

\* With one genesis block, the index and the node agree at height 0.
LEMMA GenesisShared ==
    ASSUME SharedGenesis, LinkedInv, pc # "idle", tip.height >= 0
    PROVE  NodeHasAt(0, blocks[0])
<1>1. node \in Chains
  BY DEF LinkedInv, CalmInv, SyncerInv, PassInv, Passed
<1>2. /\ 0 \in DOMAIN node
      /\ node[0] \in BlockHash
      /\ Write[node[0]].height = 0
      /\ Write[node[0]].prev_hash = NULL
  BY <1>1, ChainFacts
<1>3. 0 \in DOMAIN blocks
  BY WriteAssumption DEF LinkedInv, CalmInv, SyncerInv, Rows, TipIsTop, TypeOK, Height
<1>4. /\ blocks[0] \in BlockHash
      /\ Write[blocks[0]].height = 0
      /\ Write[blocks[0]].prev_hash = NULL
  BY <1>3 DEF LinkedInv, CalmInv, SyncerInv, Rows, TipIsTop, TypeOK, Linked, Held
<1>5. node[0] = blocks[0]
  BY <1>2, <1>4 DEF SharedGenesis
<1> QED BY <1>2, <1>5 DEF NodeHasAt

\* From the compare of the hashes until the last block of the pass, the node has the
\* block of our tip.
LEMMA AnchoredStep ==
    ASSUME SharedGenesis, LinkedInv, [MempoolSyncNext]_allVars
    PROVE  Anchored'
<1> USE DEF LinkedInv, CalmInv
<1>1. ASSUME NEW c \in Chains, pc = "idle" \/ Extends(c), NodeMovesWithPool(c)
      PROVE  Anchored'
  <2>1. node' = c /\ UNCHANGED <<tip, pc>>
    BY <1>1 DEF NodeMovesWithPool, NodeMoves, storeVars, chainVars, passVars
  <2>2. pc = "apply" => Extends(c)
    BY <1>1
  <2> QED BY <2>1, <2>2 DEF Anchored, NodeHasAt, Extends
<1>2. CASE ResolveStart
  <2>1. UNCHANGED <<tip, node>>
    BY <1>2 DEF ResolveStart, storeVars, chainVars, nodeVars
  <2>2. pc' = "apply" => tip = NoTip \/ NodeHasAt(tip.height, tip.hash)
    BY <1>2 DEF ResolveStart, GoTo
  <2> QED BY <2>1, <2>2 DEF Anchored, NodeHasAt, NoTip
<1>3. CASE ApplyHeight
  <2>1. next \in DOMAIN node /\ UNCHANGED node
    BY <1>3 DEF ApplyHeight, nodeVars
  <2>2. Write[node[next]].height = next
    BY <2>1, NodeFacts DEF SyncerInv
  <2>3. tip' = [height |-> next, hash |-> node[next]]
    BY <1>3, <2>2, ApplyHeightIsApply DEF ApplyNext, Apply
  <2> QED BY <2>1, <2>3 DEF Anchored, NodeHasAt
<1>4. CASE ForkFound
  <2>1. tip' = [height |-> next - 1, hash |-> blocks[next - 1]]
    BY <1>4, ForkFoundIsRollback, RollbackTip DEF SyncerInv, Rows
  <2>2. NodeHasAt(next - 1, blocks[next - 1]) /\ UNCHANGED node
    BY <1>4 DEF ForkFound, nodeVars
  <2> QED BY <2>1, <2>2 DEF Anchored, NodeHasAt
<1>5. CASE ForkAtGenesis
  <2>1. tip' = [height |-> 0, hash |-> blocks[0]]
    BY <1>5, ForkAtGenesisIsRollback, RollbackTip DEF SyncerInv, Rows
  <2>2. pc = "fork" /\ UNCHANGED node
    BY <1>5 DEF ForkAtGenesis, nodeVars
  <2>3. NodeHasAt(0, blocks[0])
    BY <2>2, GenesisShared DEF SyncerInv, PassInv
  <2> QED BY <2>1, <2>2, <2>3 DEF Anchored, NodeHasAt
<1>6. CASE \/ ReadTip \/ ForkBelow \/ HeightGone \/ StartBackfill \/ BackfillOne
           \/ EndBackfill \/ PassFails \/ RestartWithEnforcer
  <2>1. pc' # "apply"
    BY <1>6 DEF ReadTip, ForkBelow, HeightGone, StartBackfill, BackfillOne, EndBackfill,
                PassFails, RestartWithEnforcer, GoTo, EndPass
  <2> QED BY <2>1 DEF Anchored
<1>7. CASE PollStep \/ PollFails \/ PoolMoves \/ UNCHANGED allVars
  <2>1. UNCHANGED <<chainVars, node, passVars>>
    BY <1>7, AroundPass
  <2> QED BY <2>1 DEF chainVars, passVars, Anchored, NodeHasAt
<1> QED BY <1>1, <1>2, <1>3, <1>4, <1>5, <1>6, <1>7 DEF MempoolSyncNext, PassStep

\* The invariant under one genesis block is inductive.
LEMMA LinkedInvStep ==
    ASSUME SharedGenesis
    PROVE  LinkedInv /\ [MempoolSyncNext]_allVars => LinkedInv'
<1> SUFFICES ASSUME LinkedInv, [MempoolSyncNext]_allVars PROVE LinkedInv'
  OBVIOUS
<1>1. CalmInv'
  BY CalmStep DEF LinkedInv
<1>2. Linked'
  <2>1. [LinkedNext]_storeVars
    BY MempoolSyncStepIsLinked
  <2>2. LinkedRows
    BY DEF LinkedInv, CalmInv, SyncerInv, LinkedRows
  <2> QED BY <2>1, <2>2, LinkedStep DEF LinkedRows
<1>3. Anchored'
  BY AnchoredStep
<1> QED BY <1>1, <1>2, <1>3 DEF LinkedInv

\* The empty index is linked, and no pass is under way.
LEMMA LinkedInvInit == MempoolSyncInit => LinkedInv
<1>1. MempoolSyncInit => Linked /\ Anchored
  BY LinkedInit DEF MempoolSyncInit, SyncerInit, LinkedRows, Anchored
<1> QED BY <1>1, CalmInit DEF LinkedInv

\* Syncer and poller, interleaved in any way with a node that reorganizes between two
\* passes, drive the store as LinkedSpec says: every block applied is a child of the
\* tip, though the pass compared the hashes many calls earlier.
THEOREM MempoolSyncImplementsLinked ==
    ASSUME SharedGenesis
    PROVE  MempoolSyncSpec => LinkedSpec
<1>1. MempoolSyncInit => StoreInit
  BY DEF MempoolSyncInit, SyncerInit
<1>2. LinkedInv /\ [MempoolSyncNext]_allVars => LinkedInv'
  BY LinkedInvStep, SharedGenesis
<1> QED BY <1>1, <1>2, LinkedInvInit, MempoolSyncStepIsLinked, PTL
        DEF MempoolSyncSpec, LinkedSpec

\* What StoreProofs shows of linked blocks holds of the running syncers: on a chain
\* without double spends every spent column and every fee are those of the blocks held,
\* through reorganizations, failed passes and restarts.
THEOREM MempoolSyncSpentExact ==
    ASSUME SharedGenesis, NoDoubleSpend
    PROVE  MempoolSyncSpec => []SpentExact /\ []FeesExact
<1>1. MempoolSyncSpec => LinkedSpec
  BY MempoolSyncImplementsLinked, SharedGenesis
<1>2. LinkedSpec => []SpentExact
  BY LinkedSpentExact, NoDoubleSpend
<1>3. LinkedSpec => []FeesExact
  BY LinkedFeesExact, NoDoubleSpend
<1> QED BY <1>1, <1>2, <1>3, PTL

\* Whatever the genesis blocks, the two syncers keep to the store's contract, so that a
\* transaction that stays in the snapshot keeps its arrival time, and every unconfirmed
\* row its transaction, while blocks clear parts of the snapshot and stale listings
\* replace it.
THEOREM MempoolSyncFirstSeenStable ==
    MempoolSyncSpec => FirstSeenStable /\ []MempoolOwned
<1>1. MempoolSyncInit => StoreInit
  BY DEF MempoolSyncInit, SyncerInit
<1>2. CalmInv /\ [MempoolSyncNext]_allVars => [StoreNext]_storeVars
  BY MempoolSyncStepIsStore DEF CalmInv
<1>3. MempoolSyncSpec => StoreSpec
  BY <1>1, <1>2, CalmInit, CalmStep, PTL DEF MempoolSyncSpec, StoreSpec
<1> QED BY <1>3, StoreFirstSeenStable, StoreMempoolOwned, PTL
=============================================================================
