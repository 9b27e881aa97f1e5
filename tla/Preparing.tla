----------------------------- MODULE Preparing -----------------------------
(***************************************************************************)
(* Runs Prepare on one block of a set of inputs after the other, and says  *)
(* what its rows must be.                                                  *)
(***************************************************************************)
EXTENDS Prepare, FiniteSets

CONSTANTS
    RawBlocks,  \* records [block, index]: what the node returns for one block
    Hash        \* the hash of the block that is prepared

IsList(s) == s \in Seq(Range(s))

\* The lists of a block and of its index.
ASSUME RawBlocksAssumption ==
    \A r \in RawBlocks :
        LET body == r.block.body
            index == r.index
        IN  /\ IsList(body.coinbase.outputs) /\ IsList(body.authorizations)
            /\ IsList(body.transactions)
            /\ \A i \in DOMAIN body.transactions :
                  IsList(body.transactions[i].inputs) /\ IsList(body.transactions[i].outputs)
            /\ IsList(index.txs) /\ IsList(index.deposits) /\ IsList(index.bundle_spends)
            /\ IsList(index.market_creates) /\ IsList(index.market_deletes)

\* A node gives a transaction of a block one txid, and a coin one name; the coins that
\* the market code makes are of its own two kinds.
NamesApart(index) ==
    /\ \A i, j \in DOMAIN index.txs : i # j => index.txs[i].txid # index.txs[j].txid
    /\ \A list \in {index.deposits, index.market_creates} :
          \A i, j \in DOMAIN list : i # j => list[i].outpoint # list[j].outpoint
    /\ \A i \in DOMAIN index.market_creates :
          index.market_creates[i].outpoint.kind \in {KindMarketFunds, KindPayout}

Names(list) == {list[j].outpoint : j \in DOMAIN list}

\* A node takes a coin only after the step of the block that makes it.
SpentInTurn(block, index) ==
    /\ \A i \in DOMAIN index.txs : ~index.txs[i].skipped =>
          \A o \in Range(block.body.transactions[i].inputs) :
              /\ o \notin Names(index.deposits) \cup Names(index.market_creates)
              /\ \A j \in DOMAIN index.txs :
                    j >= i /\ ~index.txs[j].skipped =>
                       ~(o.kind = KindRegular /\ o.source = index.txs[j].txid)
    /\ Names(index.bundle_spends) \cap Names(index.market_creates) = {}

VARIABLES given, rows

preparingVars == <<given, rows>>

PrepareNext ==
    \E i \in RawBlocks : /\ given' = i
                      /\ rows' = Prepared(Hash, i.block, i.index)

PrepareInit == \E i \in RawBlocks : given = i /\ rows = Prepared(Hash, i.block, i.index)

PreparingSpec == PrepareInit /\ [][PrepareNext]_preparingVars

-----------------------------------------------------------------------------
\* The coins that Prepare numbers itself never share an outpoint with each
\* other or with the coins the node names: kind, source and position tell the
\* four ways to create a coin apart.
CoinsDistinct ==
    \A i, j \in DOMAIN rows.creates :
        i # j => rows.creates[i].outpoint # rows.creates[j].outpoint

\* A spend is told apart from every other spend of the block by what the row
\* records of it: its kind, its source and its position.
SpendsDistinct ==
    \A i, j \in DOMAIN rows.spends :
        i # j => Spend(0, rows.spends[i].source, rows.spends[i].kind, rows.spends[i].vin)
              # Spend(0, rows.spends[j].source, rows.spends[j].kind, rows.spends[j].vin)

\* No two rows of a prepared block stand for the same coin or the same spend.
RowKeysDistinct == CoinsDistinct /\ SpendsDistinct

(***************************************************************************)
(* The ledger of a node, step by step: the coinbase, then each transaction *)
(* that takes effect spends and creates in its turn, then the deposits,    *)
(* the bundles, and the market code, which settles what it just created.   *)
(***************************************************************************)
LedgerTx(coins, txid, tx) ==
    (coins \ Range(tx.inputs))
    \cup {OutPointOf(KindRegular, txid, j - 1) : j \in DOMAIN tx.outputs}

Ledger(before, block, index) ==
    LET coinbase == {OutPointOf(KindCoinbase, CoinbaseSource(block), j - 1) :
                        j \in DOMAIN block.body.coinbase.outputs}
        after[i \in 0..Len(index.txs)] ==
            IF i = 0 THEN before \cup coinbase
            ELSE IF index.txs[i].skipped THEN after[i - 1]
            ELSE LedgerTx(after[i - 1], index.txs[i].txid, block.body.transactions[i])
    IN  (((after[Len(index.txs)] \cup Names(index.deposits)) \ Names(index.bundle_spends))
            \cup Names(index.market_creates)) \ Names(index.market_deletes)

\* Store.Apply writes all creates of a block before all of its spends, where the
\* node goes through the block in order; both end with the same coins, also for
\* a chain of transactions and a treasury created and settled in one block.
BatchMatchesLedger ==
    LET b == given.block
        x == given.index
        created == {c.outpoint : c \in Range(rows.creates)}
        gone == {s.outpoint : s \in Range(rows.spends)}
        before == gone \ created
    IN  Prepares(b, x) => (before \cup created) \ gone = Ledger(before, b, x)

\* Body.AuthorizationsFor: "one signature per input, in transaction order".  Of a
\* body with a signature per input every transaction gets as many as it has
\* inputs, and together they are the list.
AuthorizationsPartition ==
    LET body == given.block.body
        n == Len(body.transactions)
        parts == [i \in 1..n |-> AuthorizationsFor(body, i - 1)]
    IN  InputsBefore(body, n) = Len(body.authorizations) =>
            /\ \A i \in 1..n : HasAuthorizations(body, i - 1)
            /\ \A i \in 1..n : Len(parts[i]) = Len(body.transactions[i].inputs)
            /\ Appended(parts) = body.authorizations
=============================================================================
