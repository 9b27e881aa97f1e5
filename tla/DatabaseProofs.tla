--------------------------- MODULE DatabaseProofs ---------------------------
(***************************************************************************)
(* Proofs about Startup, Writers and the two together, for any number of   *)
(* calls of the connector, migrations, transactions, rows, blocks and      *)
(* failures.  The migrations take effect in order, once each, and a store  *)
(* that opens is complete and has the chain it is configured for.  No      *)
(* committed row of the mempool is without its transaction, unless a block *)
(* skipped that transaction since the last replacement, and the INSERTs of *)
(* ReplaceMempool find their keys free, however its statements and those   *)
(* of clearMempool interleave.                                             *)
(***************************************************************************)
EXTENDS Database, TLAPS

\* A leaf may take the solver longer than it is given by default.
USE SMTT(20), Zenon

\* Lists with the same members in the same places are one list.
LEMMA SameLists ==
    ASSUME NEW T, NEW s \in Seq(T), NEW t \in Seq(T), Len(s) = Len(t),
           \A i \in 1..Len(s) : s[i] = t[i]
    PROVE  s = t
OBVIOUS

\* A member of a list of blocks or of names is a block or a name.
LEMMA Member ==
    ASSUME NEW T, NEW s \in Seq(T), NEW i \in 1..Len(s)
    PROVE  s[i] \in T
OBVIOUS

\* The first members of a list.
LEMMA FirstPart ==
    ASSUME NEW T, NEW s \in Seq(T), NEW n \in 0..Len(s)
    PROVE  /\ SubSeq(s, 1, n) \in Seq(T) /\ Len(SubSeq(s, 1, n)) = n
           /\ \A i \in 1..n : SubSeq(s, 1, n)[i] = s[i]
OBVIOUS

\* A list that has grown by one.
LEMMA Appended ==
    ASSUME NEW T, NEW s \in Seq(T), NEW x \in T
    PROVE  /\ Append(s, x) \in Seq(T) /\ Len(Append(s, x)) = Len(s) + 1
           /\ \A i \in 1..Len(s) : Append(s, x)[i] = s[i]
           /\ Append(s, x)[Len(s) + 1] = x
OBVIOUS

Place == {"idle", "create", "check", "body", "record", "commit", "look", "insert", "open"}
Written == {"nothing", "body", "record", "row"}

\* The transaction of a migration, between its body and its commit.
InMigration(w) == w \in {"body", "record"}

\* The schema is the first migrations in order, and their names are the recorded ones.
InOrder ==
    /\ schema \in Seq(STRING) /\ Len(schema) <= Len(Names)
    /\ \A i \in 1..Len(schema) : schema[i] = Names[i]
    /\ recorded = Range(schema)

\* A call of o may be at l, have come to the migration n and have written w.  It is never
\* ahead of the schema; one that has run a body is exactly at its end; one that is
\* past the migrations has found them all; the row of sync_state is written once.
Fits(o, l, n, w) ==
    /\ n <= Len(schema) + 1
    /\ l = "body" \/ InMigration(w) => n <= Len(Names)
    /\ InMigration(w) => n = Len(schema) + 1
    /\ l \in {"look", "insert", "open"} \/ w = "row" => n = Len(Names) + 1
    /\ l = "record" <=> w = "body"
    /\ l = "commit" <=> w \in {"record", "row"}
    /\ l = "open" => chain = Wanted[o]
    /\ w = "row" => chain = NoChain

\* At most one call has a migration open, and at most one the row of sync_state.
Alone ==
    \A o, p \in Opener :
        /\ InMigration(wrote[o]) /\ InMigration(wrote[p]) => o = p
        /\ wrote[o] = "row" /\ wrote[p] = "row" => o = p

\* The inductive invariant of Startup.
StartupInv ==
    /\ table \in BOOLEAN /\ chain \in {Wanted[o] : o \in Opener} \cup {NoChain}
    /\ at \in [Opener -> Place] /\ wrote \in [Opener -> Written]
    /\ name \in [Opener -> 1..(Len(Names) + 1)]
    /\ InOrder
    /\ \A o \in Opener : Fits(o, at[o], name[o], wrote[o])
    /\ Alone
-----------------------------------------------------------------------------
\* migrate and Init begin on an empty database, with nothing done.
LEMMA StartupInitInv == StartupInit => StartupInv
  <1> SUFFICES ASSUME StartupInit PROVE StartupInv
    OBVIOUS
  <1>1. Names \in Seq(STRING) /\ Len(Names) \in Nat
    BY StartupAssumption
  <1>2. InOrder
    BY <1>1 DEF StartupInit, InOrder, Range
  <1>3. \A o \in Opener : Fits(o, at[o], name[o], wrote[o])
    BY <1>1 DEF StartupInit, Fits, InMigration
  <1>4. Alone
    BY DEF StartupInit, Alone, InMigration
  <1>5. at \in [Opener -> Place] /\ wrote \in [Opener -> Written]
    BY DEF StartupInit, Place, Written
  <1>6. name \in [Opener -> 1..(Len(Names) + 1)]
    BY <1>1 DEF StartupInit
  <1> QED
    BY <1>2, <1>3, <1>4, <1>5, <1>6, Zenon DEF StartupInit, StartupInv

\* A statement that commits nothing moves one call to a place that fits the database,
\* and opens a transaction only where no other has it open.
LEMMA OneMoves ==
    ASSUME StartupInv, NEW o \in Opener,
           NEW l \in Place, NEW n \in 1..(Len(Names) + 1), NEW w \in Written,
           at' = [at EXCEPT ![o] = l], name' = [name EXCEPT ![o] = n],
           wrote' = [wrote EXCEPT ![o] = w],
           table' \in BOOLEAN, UNCHANGED <<schema, recorded, chain>>,
           Fits(o, l, n, w),
           \A p \in Opener \ {o} : /\ InMigration(w) => ~InMigration(wrote[p])
                                   /\ w = "row" => wrote[p] # "row"
    PROVE  StartupInv'
  <1>1. /\ at' \in [Opener -> Place] /\ wrote' \in [Opener -> Written]
        /\ name' \in [Opener -> 1..(Len(Names) + 1)]
    BY DEF StartupInv
  <1>2. InOrder'
    BY DEF StartupInv, InOrder
  <1>3. (\A p \in Opener : Fits(p, at[p], name[p], wrote[p]))'
    BY DEF StartupInv, Fits
  <1>4. Alone'
    BY DEF StartupInv, Alone
  <1> QED
    BY <1>1, <1>2, <1>3, <1>4 DEF StartupInv

\* A call that gives up is back where it began.
LEMMA GivesUpInv ==
    ASSUME StartupInv, NEW o \in Opener, GivesUp(o)
    PROVE  StartupInv'
  <1>1. Fits(o, "idle", 1, "nothing")
    BY StartupAssumption DEF StartupInv, InOrder, Fits, InMigration
  <1>2. /\ 1 \in 1..(Len(Names) + 1) /\ "idle" \in Place /\ "nothing" \in Written
        /\ ~InMigration("nothing")
    BY StartupAssumption DEF Place, Written, InMigration
  <1>3. table' \in BOOLEAN
    BY DEF StartupInv, GivesUp, dbVars
  <1>4. /\ at' = [at EXCEPT ![o] = "idle"] /\ name' = [name EXCEPT ![o] = 1]
        /\ wrote' = [wrote EXCEPT ![o] = "nothing"]
        /\ UNCHANGED <<schema, recorded, chain>>
    BY DEF GivesUp, To, Wrote, dbVars
  <1> QED
    BY <1>1, <1>2, <1>3, <1>4, OneMoves, Zenon

\* The statements of migrate up to the commit.
LEMMA MigrateInv ==
    ASSUME StartupInv, NEW o \in Opener,
           LookForTable(o) \/ CreateTable(o) \/ CheckApplied(o) \/ RunBody(o) \/ RecordName(o)
    PROVE  StartupInv'
  <1> DEFINE N == Len(Names)
             k == Len(schema)
  <1>0. /\ N \in Nat /\ k \in Nat /\ k <= N /\ name[o] \in 1..(N + 1)
        /\ Fits(o, at[o], name[o], wrote[o])
    BY StartupAssumption DEF StartupInv, InOrder
  <1>1. ASSUME NEW l \in Place, Fits(o, l, name[o], "nothing"), wrote[o] = "nothing",
               at' = [at EXCEPT ![o] = l], table' \in BOOLEAN,
               UNCHANGED <<schema, recorded, chain, name, wrote>>
        PROVE  StartupInv'
    <2>1. name' = [name EXCEPT ![o] = name[o]] /\ wrote' = [wrote EXCEPT ![o] = "nothing"]
      BY <1>1 DEF StartupInv
    <2> QED
      BY <1>0, <1>1, <2>1, OneMoves, Zenon DEF Written, InMigration
  <1>2. CASE LookForTable(o)
    BY <1>0, <1>1, <1>2, Zenon
       DEF LookForTable, To, Place, Fits, InMigration, dbVars, StartupInv, Written
  <1>3. CASE CreateTable(o)
    BY <1>0, <1>1, <1>3, GivesUpInv, Zenon
       DEF CreateTable, To, Place, Fits, InMigration, dbVars, StartupInv, Written
  <1>4. CASE CheckApplied(o)
    <2>1. wrote[o] = "nothing"
      BY <1>0, <1>4 DEF CheckApplied, Fits, StartupInv, Written
    <2>2. CASE name[o] > N
      BY <1>0, <1>1, <1>4, <2>1, <2>2
         DEF CheckApplied, To, Place, Fits, InMigration, dbVars, StartupInv
    <2>3. CASE name[o] <= N /\ Names[name[o]] \in recorded
      <3>1. name[o] <= k
        <4>0. /\ DOMAIN schema = 1..k /\ recorded = {schema[i] : i \in DOMAIN schema}
              /\ \A i \in 1..k : schema[i] = Names[i]
          BY DEF StartupInv, InOrder, Range
        <4>1. PICK i \in 1..k : Names[name[o]] = Names[i]
          <5> HIDE DEF k
          <5> QED BY <2>3, <4>0
        <4> QED
          BY <4>1, <1>0, <2>3, StartupAssumption DEF IsInjective
      <3>2. Fits(o, "check", name[o] + 1, "nothing") /\ name[o] + 1 \in 1..(N + 1)
        BY <1>0, <2>3, <3>1 DEF Fits, InMigration
      <3>3. /\ at' = [at EXCEPT ![o] = "check"] /\ name' = [name EXCEPT ![o] = name[o] + 1]
            /\ wrote' = [wrote EXCEPT ![o] = "nothing"] /\ table' \in BOOLEAN
            /\ UNCHANGED <<schema, recorded, chain>>
        BY <1>0, <1>4, <2>1, <2>3 DEF CheckApplied, dbVars, StartupInv
      <3> QED
        BY <3>2, <3>3, OneMoves, Zenon DEF Place, Written, InMigration
    <2>4. CASE name[o] <= N /\ Names[name[o]] \notin recorded
      BY <1>0, <1>1, <1>4, <2>1, <2>4
         DEF CheckApplied, To, Place, Fits, InMigration, dbVars, StartupInv
    <2> QED
      BY <1>0, <2>2, <2>3, <2>4
  <1>5. CASE RunBody(o)
    <2>1. CASE Names[name[o]] \in Range(schema)
      BY <1>5, <2>1, GivesUpInv DEF RunBody
    <2>2. CASE Names[name[o]] \notin Range(schema)
      <3>1. name[o] = k + 1
        <4>1. \A i \in 1..k : Names[i] \in Range(schema)
          BY <1>0 DEF StartupInv, InOrder, Range
        <4> QED
          BY <4>1, <1>0, <2>2 DEF Fits
      <3>2. \A p \in Opener \ {o} : ~InMigration(wrote[p])
        BY <3>1, <1>5, <1>0 DEF RunBody, BodyBusy, InMigration, Fits, StartupInv
      <3>3. Fits(o, "record", name[o], "body")
        BY <3>1, <1>0, <1>5 DEF Fits, InMigration, RunBody
      <3>4. /\ at' = [at EXCEPT ![o] = "record"] /\ name' = [name EXCEPT ![o] = name[o]]
            /\ wrote' = [wrote EXCEPT ![o] = "body"] /\ table' \in BOOLEAN
            /\ UNCHANGED <<schema, recorded, chain>>
        BY <1>5, <2>2 DEF RunBody, To, Wrote, dbVars, StartupInv
      <3> QED
        BY <1>0, <3>2, <3>3, <3>4, OneMoves, Zenon DEF Place, Written
    <2> QED
      BY <2>1, <2>2
  <1>6. CASE RecordName(o)
    <2>1. wrote[o] = "body"
      BY <1>0, <1>6 DEF RecordName, Fits
    <2>2. \A p \in Opener \ {o} : ~InMigration(wrote[p])
      BY <2>1 DEF StartupInv, Alone, InMigration
    <2>3. Fits(o, "commit", name[o], "record")
      BY <2>1, <1>0 DEF Fits, InMigration
    <2>4. /\ at' = [at EXCEPT ![o] = "commit"] /\ name' = [name EXCEPT ![o] = name[o]]
          /\ wrote' = [wrote EXCEPT ![o] = "record"] /\ table' \in BOOLEAN
          /\ UNCHANGED <<schema, recorded, chain>>
      BY <1>6 DEF RecordName, To, Wrote, dbVars, StartupInv
    <2> QED
      BY <1>0, <2>2, <2>3, <2>4, OneMoves, Zenon DEF Place, Written
  <1> QED
    BY <1>2, <1>3, <1>4, <1>5, <1>6

\* The commit of a migration adds the next name to the schema and to the table
\* migrations at once, and no other call had that migration open.
LEMMA CommitMigrationInv ==
    ASSUME StartupInv, NEW o \in Opener, CommitMigration(o)
    PROVE  StartupInv'
  <1> DEFINE N == Len(Names)
             k == Len(schema)
  <1>1. /\ N \in Nat /\ k \in Nat /\ schema \in Seq(STRING) /\ name[o] = k + 1 /\ k + 1 <= N
        /\ Names[k + 1] \in STRING
    BY StartupAssumption DEF StartupInv, InOrder, CommitMigration, Fits, InMigration
  <1>2. /\ schema' = Append(schema, Names[k + 1])
        /\ recorded' = recorded \cup {Names[k + 1]}
        /\ at' = [at EXCEPT ![o] = "check"] /\ name' = [name EXCEPT ![o] = k + 2]
        /\ wrote' = [wrote EXCEPT ![o] = "nothing"]
        /\ UNCHANGED <<table, chain>>
    BY <1>1 DEF CommitMigration, To, Wrote
  <1>3. /\ schema' \in Seq(STRING) /\ Len(schema') = k + 1
        /\ \A i \in 1..k : schema'[i] = schema[i]
        /\ schema'[k + 1] = Names[k + 1]
    BY <1>1, <1>2, Appended
  <1>4. InOrder'
    <2>1. \A i \in 1..(k + 1) : schema'[i] = Names[i]
      <3>1. \A i \in 1..k : schema[i] = Names[i]
        BY DEF StartupInv, InOrder
      <3>2. ASSUME NEW i \in 1..(k + 1) PROVE i \in 1..k \/ i = k + 1
        <4> HIDE DEF k
        <4> QED BY <1>1
      <3> HIDE DEF k
      <3> QED BY <1>3, <3>1, <3>2
    <2>2. Range(schema') = Range(schema) \cup {Names[k + 1]}
      BY <1>1, <1>3 DEF Range
    <2> QED
      BY <1>1, <1>2, <1>3, <2>1, <2>2 DEF StartupInv, InOrder
  <1>5. /\ at' \in [Opener -> Place] /\ wrote' \in [Opener -> Written]
        /\ name' \in [Opener -> 1..(N + 1)]
    BY <1>1, <1>2 DEF StartupInv, Place, Written
  <1>6. (\A p \in Opener : Fits(p, at[p], name[p], wrote[p]))'
    <2>1. ASSUME NEW p \in Opener \ {o}
          PROVE  Fits(p, at[p], name[p], wrote[p])'
      <3>1. ~InMigration(wrote[p]) /\ Fits(p, at[p], name[p], wrote[p])
        BY DEF StartupInv, Alone, CommitMigration, InMigration
      <3>2. at'[p] = at[p] /\ name'[p] = name[p] /\ wrote'[p] = wrote[p] /\ name[p] \in Nat
        BY <1>1, <1>2 DEF StartupInv
      <3> QED
        BY <1>1, <1>2, <1>3, <3>1, <3>2 DEF Fits
    <2>2. Fits(o, at[o], name[o], wrote[o])'
      <3>1. at'[o] = "check" /\ name'[o] = k + 2 /\ wrote'[o] = "nothing"
        BY <1>2 DEF StartupInv
      <3> QED
        BY <3>1, <1>1, <1>3 DEF Fits, InMigration
    <2> QED
      BY <2>1, <2>2
  <1>7. Alone'
    BY <1>2 DEF StartupInv, Alone, InMigration
  <1> QED
    BY <1>2, <1>4, <1>5, <1>6, <1>7 DEF StartupInv

\* The statements of Init up to the commit: a call goes on only where sync_state holds
\* no chain, or its own.
LEMMA InitInv ==
    ASSUME StartupInv, NEW o \in Opener, LookForChain(o) \/ InsertChain(o)
    PROVE  StartupInv'
  <1>0. name[o] \in 1..(Len(Names) + 1) /\ Fits(o, at[o], name[o], wrote[o])
    BY DEF StartupInv
  <1>1. CASE GivesUp(o)
    BY <1>1, GivesUpInv
  <1>2. CASE LookForChain(o) /\ ~GivesUp(o)
    <2>1. /\ wrote[o] = "nothing"
          /\ name' = [name EXCEPT ![o] = name[o]] /\ wrote' = [wrote EXCEPT ![o] = "nothing"]
          /\ table' \in BOOLEAN /\ UNCHANGED <<schema, recorded, chain>>
      BY <1>0, <1>2 DEF LookForChain, Fits, StartupInv, Written, dbVars
    <2>2. CASE at' = [at EXCEPT ![o] = "insert"]
      <3>1. Fits(o, "insert", name[o], "nothing")
        BY <1>0, <1>2, <2>1 DEF LookForChain, Fits, InMigration
      <3> QED
        BY <1>0, <2>1, <2>2, <3>1, OneMoves, Zenon DEF Place, Written, InMigration
    <2>3. CASE at' = [at EXCEPT ![o] = "open"] /\ chain = Wanted[o]
      <3>1. Fits(o, "open", name[o], "nothing")
        BY <1>0, <1>2, <2>1, <2>3 DEF LookForChain, Fits, InMigration
      <3> QED
        BY <1>0, <2>1, <2>3, <3>1, OneMoves, Zenon DEF Place, Written, InMigration
    <2> QED
      BY <1>2, <2>2, <2>3 DEF LookForChain, To
  <1>3. CASE InsertChain(o) /\ ~GivesUp(o)
    <2>1. Fits(o, "commit", name[o], "row")
      BY <1>0, <1>3 DEF InsertChain, Fits, InMigration
    <2>2. /\ at' = [at EXCEPT ![o] = "commit"] /\ name' = [name EXCEPT ![o] = name[o]]
          /\ wrote' = [wrote EXCEPT ![o] = "row"] /\ table' \in BOOLEAN
          /\ UNCHANGED <<schema, recorded, chain>>
          /\ \A p \in Opener \ {o} : wrote[p] # "row"
      BY <1>3 DEF InsertChain, To, Wrote, dbVars, StartupInv
    <2> QED
      BY <1>0, <2>1, <2>2, OneMoves, Zenon DEF Place, Written, InMigration
  <1> QED
    BY <1>1, <1>2, <1>3

\* The commit of Init's row: sync_state was empty until then, so no call was open.
LEMMA CommitChainInv ==
    ASSUME StartupInv, NEW o \in Opener, CommitChain(o)
    PROVE  StartupInv'
  <1>1. /\ chain = NoChain /\ NoChain # Wanted[o]
        /\ \A p \in Opener \ {o} : wrote[p] # "row" /\ at[p] # "open"
    BY StartupAssumption DEF StartupInv, Fits, Alone, CommitChain
  <1>2. /\ at' = [at EXCEPT ![o] = "open"] /\ wrote' = [wrote EXCEPT ![o] = "nothing"]
        /\ chain' = Wanted[o] /\ UNCHANGED <<table, schema, recorded, name>>
    BY DEF CommitChain, To, Wrote
  <1>3. (\A p \in Opener : Fits(p, at[p], name[p], wrote[p]))'
    BY <1>1, <1>2 DEF StartupInv, Fits, InMigration, CommitChain
  <1>4. InOrder' /\ Alone'
    BY <1>2 DEF StartupInv, InOrder, Alone, InMigration
  <1>5. at' \in [Opener -> Place] /\ wrote' \in [Opener -> Written]
    BY <1>2 DEF StartupInv, Place, Written
  <1> QED
    BY <1>2, <1>3, <1>4, <1>5 DEF StartupInv

\* Every statement of every call keeps the invariant.
LEMMA StartupStep == StartupInv /\ [StartupNext]_startupVars => StartupInv'
  <1> SUFFICES ASSUME StartupInv, [StartupNext]_startupVars PROVE StartupInv'
    OBVIOUS
  <1>1. ASSUME NEW o \in Opener, OpenStep(o) PROVE StartupInv'
    BY <1>1, MigrateInv, CommitMigrationInv, InitInv, CommitChainInv DEF OpenStep
  <1>2. ASSUME NEW o \in Opener, OpenFails(o) PROVE StartupInv'
    BY <1>2, GivesUpInv DEF OpenFails
  <1>3. CASE UNCHANGED startupVars
    BY <1>3 DEF startupVars, dbVars, openVars, StartupInv, InOrder, Fits, Alone, InMigration
  <1> QED
    BY <1>1, <1>2, <1>3 DEF StartupNext

\* The invariant holds of every state that calls of the connector reach.
LEMMA StartupInvariant == StartupSpec => []StartupInv
  BY StartupInitInv, StartupStep, PTL DEF StartupSpec

\* The statement that a call is at tells what its transaction has written.
LEMMA StartupInvTypes == StartupInv => StartupTypeOK
  <1> SUFFICES ASSUME StartupInv PROVE StartupTypeOK
    OBVIOUS
  <1>1. recorded \subseteq Range(Names)
    <2>1. /\ Len(schema) \in Nat /\ Len(Names) \in Nat /\ Len(schema) <= Len(Names)
          /\ DOMAIN schema = 1..Len(schema) /\ DOMAIN Names = 1..Len(Names)
          /\ \A i \in 1..Len(schema) : schema[i] = Names[i]
          /\ recorded = Range(schema)
      BY StartupAssumption DEF StartupInv, InOrder
    <2> QED
      BY <2>1 DEF Range
  <1>2. ASSUME NEW o \in Opener
        PROVE  wrote[o] = CASE at[o] = "record" -> "body"
                            [] at[o] = "commit" -> IF name[o] > Len(Names)
                                                   THEN "row" ELSE "record"
                            [] OTHER -> "nothing"
    <2>1. /\ Fits(o, at[o], name[o], wrote[o]) /\ wrote[o] \in Written
          /\ name[o] \in Nat /\ Len(Names) \in Nat
      BY StartupAssumption DEF StartupInv
    <2> QED
      BY <2>1 DEF Fits, InMigration, Written
  <1> QED
    BY <1>1, <1>2 DEF StartupInv, StartupTypeOK

\* Open rolls back what it does not commit: whichever statement a call of it ends at, its
\* transaction has done what that statement may have done, and nothing is left of it.
THEOREM StartupTypes == StartupSpec => []StartupTypeOK
BY StartupInvariant, StartupInvTypes, PTL

\* The committed bodies are the first of the names, one for one.
LEMMA StartupInvOrder == StartupInv => MigratedInOrder
  <1> SUFFICES ASSUME StartupInv PROVE MigratedInOrder
    OBVIOUS
  <1> DEFINE k == Len(schema)
  <1>1. /\ k \in Nat /\ k <= Len(Names) /\ recorded = Range(schema)
        /\ \A i \in 1..k : schema[i] \in STRING /\ Names[i] = schema[i]
    BY DEF StartupInv, InOrder
  <1>2. SubSeq(schema, 1, k) = SubSeq(Names, 1, k)
    <2> DEFINE s == SubSeq(schema, 1, k)
               t == SubSeq(Names, 1, k)
    <2>1. s \in Seq(STRING) /\ Len(s) = k /\ \A i \in 1..k : s[i] = schema[i]
      BY <1>1, StartupAssumption, FirstPart DEF StartupInv, InOrder
    <2>2. t \in Seq(STRING) /\ Len(t) = k /\ \A i \in 1..k : t[i] = Names[i]
      BY <1>1, StartupAssumption, FirstPart DEF StartupInv, InOrder
    <2> QED
      BY <1>1, <2>1, <2>2, SameLists
  <1>3. schema = SubSeq(schema, 1, k)
    BY DEF StartupInv, InOrder
  <1>4. k \in 0..Len(Names)
    BY <1>1, StartupAssumption
  <1> QED
    BY <1>1, <1>2, <1>3, <1>4, Zenon DEF MigratedInOrder

\* migrate: whichever calls run at once and whichever of them die, every migration body
\* takes effect once, in the order of the names, together with its record.
THEOREM StartupMigratedInOrder == StartupSpec => []MigratedInOrder
BY StartupInvariant, StartupInvOrder, PTL

\* A call that is through has passed the whole list and seen its own chain.
LEMMA StartupInvReady == StartupInv => OpenIsReady
  <1> SUFFICES ASSUME StartupInv, NEW o \in Opener, at[o] = "open"
               PROVE  schema = Names /\ chain = Wanted[o]
    BY DEF OpenIsReady
  <1>1. Fits(o, "open", name[o], wrote[o])
    BY DEF StartupInv
  <1>2. /\ schema \in Seq(STRING) /\ Names \in Seq(STRING) /\ Len(schema) = Len(Names)
        /\ \A i \in 1..Len(schema) : schema[i] = Names[i]
    BY <1>1, StartupAssumption DEF StartupInv, InOrder, Fits
  <1> QED
    BY <1>1, <1>2, SameLists DEF Fits

\* Store.Open and Store.Init: a store that opens has the whole schema, and the database
\* holds the chain that it is configured for, whoever else opened it and when.
THEOREM StartupOpenIsReady == StartupSpec => []OpenIsReady
BY StartupInvariant, StartupInvReady, PTL

-----------------------------------------------------------------------------

AnyRow == KeysOf(Txid)

\* Which statement of w deletes the table of r, and which of the poller fills it.
DeletedAt(w, r) ==
    CASE r.table = "mempool_txs"     -> IF w = "block" THEN 1 ELSE 3
      [] r.table = "mempool_outputs" -> 2
      [] r.table = "mempool_spends"  -> IF w = "block" THEN 3 ELSE 1
InsertedAt(r) ==
    CASE r.table = "mempool_txs"     -> 4
      [] r.table = "mempool_outputs" -> 5
      [] r.table = "mempool_spends"  -> 6

\* The blocks that the node mines are counted.
LEMMA BodiesCounted == Len(Bodies) \in Nat
  <1>1. Bodies \in Seq([txs : SUBSET Txid, skipped : SUBSET Txid])
    BY WritersAssumption
  <1> QED
    BY <1>1

\* Types, and what a transaction has in hand at each of its statements.
InHand ==
    /\ pool \subseteq Txid /\ listed \subseteq Txid
    /\ swept \in Nat /\ applied \in Nat /\ mined \in Nat
    /\ swept <= applied /\ applied <= mined /\ mined <= Len(Bodies)
    /\ stmt["block"] # 0 => applied < mined
    /\ live \subseteq AnyRow
    /\ stmt \in [Writer -> 0..7] /\ stmt["block"] <= 4
    /\ todo \in [Writer -> (SUBSET AnyRow) \cup {NULL}]
    /\ \A w \in Writer : todo[w] # NULL => /\ stmt[w] \in 1..3
                                           /\ todo[w] \subseteq live
                                           /\ \A r \in todo[w] : DeletedAt(w, r) = stmt[w]
    /\ gone \in [Writer -> SUBSET live] /\ gone["block"] \cap gone["poll"] = {}
    /\ \A w \in Writer : stmt[w] = 0 => gone[w] = {}
    /\ added \in [Writer -> SUBSET AnyRow] /\ added["block"] = {}
    /\ added["poll"] = {r \in KeysOf(listed) : InsertedAt(r) < stmt["poll"]}

\* The DELETE of w is through with r: it is still to come, has r still to take, or has
\* taken it.
Accounted(w, r) ==
    \/ DeletedAt(w, r) > stmt[w]
    \/ DeletedAt(w, r) = stmt[w] /\ (todo[w] = NULL \/ r \in todo[w])
    \/ r \in gone[w]

\* The poller deletes every row there is, since nobody else adds one.
PollClears == \A r \in live : Accounted("poll", r)

\* A block that holds the row of a transaction that it executes deletes every other row
\* of that transaction: no replacement commits while it holds the first.
BlockClears ==
    /\ stmt["block"] # 0 => gone["block"] \subseteq Cleared(applied + 1)
    /\ todo["block"] # NULL => todo["block"] \subseteq Cleared(applied + 1)
    /\ \A t \in Txid : TxRow(t) \in gone["block"] =>
           \/ t \in Bodies[applied + 1].skipped
           \/ \A r \in live \cap Rows[t] : Accounted("block", r)

\* The inductive invariant of Writers.
WritersInv == InHand /\ PollClears /\ BlockClears /\ OwnedThroughout
-----------------------------------------------------------------------------
(***************************************************************************)
(* What the statements of the two transactions are.                        *)
(***************************************************************************)

\* Every row is of one of the three tables, which both transactions delete from in
\* their first three statements, and which the poller fills in its last three.
LEMMA RowFacts ==
    ASSUME NEW r \in AnyRow
    PROVE  /\ r.table \in Table
           /\ DeletedAt("block", r) \in 1..3 /\ DeletedAt("poll", r) \in 1..3
           /\ InsertedAt(r) \in 4..6
           /\ r.table = "mempool_txs" <=> DeletedAt("block", r) = 1
           /\ r.table = "mempool_txs" <=> DeletedAt("poll", r) = 3
  <1>1. r.table \in Table
    BY WritersAssumption DEF AnyRow, KeysOf
  <1> QED
    BY <1>1 DEF Table, DeletedAt, InsertedAt

\* clearMempool has three statements, all of them DELETEs.
LEMMA BlockStatements ==
    /\ Len(Plan("block")) = 3 /\ DOMAIN Plan("block") = 1..3
    /\ \A i \in 1..3 : Plan("block")[i].do = "delete"
    /\ \A i \in 1..3, r \in AnyRow :
          r.table = Plan("block")[i].table <=> DeletedAt("block", r) = i
  <1>1. Plan("block") = <<Delete("mempool_txs"), Delete("mempool_outputs"),
                          Delete("mempool_spends")>>
    BY DEF Plan, clearMempool
  <1>2. Len(Plan("block")) = 3 /\ DOMAIN Plan("block") = 1..3
    BY <1>1
  <1>3. /\ Plan("block")[1] = Delete("mempool_txs")
        /\ Plan("block")[2] = Delete("mempool_outputs")
        /\ Plan("block")[3] = Delete("mempool_spends")
    BY <1>1
  <1>4. \A i \in 1..3 : Plan("block")[i].do = "delete"
    BY <1>3 DEF Delete
  <1>5. \A i \in 1..3, r \in AnyRow :
            r.table = Plan("block")[i].table <=> DeletedAt("block", r) = i
    BY <1>3, RowFacts DEF Delete, DeletedAt, Table
  <1> QED
    BY <1>2, <1>4, <1>5

\* ReplaceMempool has three DELETEs, and three INSERTs after them.
LEMMA PollStatements ==
    /\ Len(Plan("poll")) = 6 /\ DOMAIN Plan("poll") = 1..6
    /\ \A i \in 1..6 : Plan("poll")[i].do = IF i <= 3 THEN "delete" ELSE "insert"
    /\ \A i \in 1..3, r \in AnyRow :
          r.table = Plan("poll")[i].table <=> DeletedAt("poll", r) = i
    /\ \A i \in 4..6, r \in AnyRow :
          r.table = Plan("poll")[i].table <=> InsertedAt(r) = i
  <1>1. Plan("poll") = <<Delete("mempool_spends"), Delete("mempool_outputs"),
                         Delete("mempool_txs"), Insert("mempool_txs"),
                         Insert("mempool_outputs"), Insert("mempool_spends")>>
    BY DEF Plan, ReplaceMempool
  <1>2. Len(Plan("poll")) = 6 /\ DOMAIN Plan("poll") = 1..6
    BY <1>1
  <1>3. /\ Plan("poll")[1] = Delete("mempool_spends")
        /\ Plan("poll")[2] = Delete("mempool_outputs")
        /\ Plan("poll")[3] = Delete("mempool_txs")
        /\ Plan("poll")[4] = Insert("mempool_txs")
        /\ Plan("poll")[5] = Insert("mempool_outputs")
        /\ Plan("poll")[6] = Insert("mempool_spends")
    BY <1>1
  <1>4. \A i \in 1..6 : Plan("poll")[i].do = IF i <= 3 THEN "delete" ELSE "insert"
    BY <1>3 DEF Delete, Insert
  <1>5. \A i \in 1..3, r \in AnyRow :
            r.table = Plan("poll")[i].table <=> DeletedAt("poll", r) = i
    BY <1>3, RowFacts DEF Delete, DeletedAt, Table
  <1>6. \A i \in 4..6, r \in AnyRow :
            r.table = Plan("poll")[i].table <=> InsertedAt(r) = i
    BY <1>3, RowFacts DEF Insert, InsertedAt, Table
  <1> QED
    BY <1>2, <1>4, <1>5, <1>6

\* A transaction at a DELETE looks for the rows of the table whose turn it is.
LEMMA DeleteFacts ==
    ASSUME NEW w \in Writer, stmt[w] \in Nat, Runs(w, "delete")
    PROVE  /\ stmt[w] \in 1..3
           /\ \A r \in AnyRow : Matches(w, r) <=>
                 /\ DeletedAt(w, r) = stmt[w]
                 /\ w = "block" => r \in Cleared(applied + 1)
  <1>1. CASE w = "block"
    BY <1>1, BlockStatements DEF Runs, Statement, Matches
  <1>2. CASE w = "poll"
    BY <1>2, PollStatements DEF Runs, Statement, Matches
  <1> QED
    BY <1>1, <1>2 DEF Writer

\* Only the poller has INSERTs.
LEMMA InsertFacts ==
    ASSUME NEW w \in Writer, stmt[w] \in Nat, Runs(w, "insert")
    PROVE  /\ w = "poll" /\ stmt[w] \in 4..6
           /\ \A r \in AnyRow : r.table = Statement(w).table <=> InsertedAt(r) = stmt[w]
  <1>1. w # "block"
    BY BlockStatements DEF Runs, Statement
  <1> QED
    BY <1>1, PollStatements DEF Runs, Statement, Writer

\* A transaction's id is in its own row only, so the blocks and the poller tell the
\* rows of mempool_txs apart by it.
LEMMA TxRowFacts ==
    ASSUME NEW t \in Txid
    PROVE  /\ TxRow(t) \in AnyRow /\ TxRow(t) \in Rows[t]
           /\ DeletedAt("block", TxRow(t)) = 1 /\ DeletedAt("poll", TxRow(t)) = 3
           /\ \A r \in Rows[t] : DeletedAt("block", r) = 1 => r = TxRow(t)
           /\ \A i \in 1..Len(Bodies) : TxRow(t) \in Cleared(i) => t \in Bodies[i].txs
  <1>1. TxRow(t) \in Rows[t] /\ TxRow(t) \in AnyRow
    BY WritersAssumption DEF AnyRow, KeysOf
  <1>2. TxRow(t).table = "mempool_txs"
    BY DEF TxRow
  <1>3. \A r \in Rows[t] : r \in AnyRow
    BY DEF AnyRow, KeysOf
  <1>4. \A r \in Rows[t] : DeletedAt("block", r) = 1 => r = TxRow(t)
    BY <1>3, RowFacts, WritersAssumption
  <1>5. ASSUME NEW i \in 1..Len(Bodies), TxRow(t) \in Cleared(i)
        PROVE  t \in Bodies[i].txs
    <2>0. Bodies[i].txs \subseteq Txid
      <3>1. Bodies[i] \in [txs : SUBSET Txid, skipped : SUBSET Txid]
        BY WritersAssumption, Member
      <3> QED
        BY <3>1
    <2>1. PICK u \in Bodies[i].txs : TxRow(t) = TxRow(u) \/ TxRow(t) \in Rows[u]
      BY <1>5 DEF Cleared, Executed, KeysOf
    <2>2. TxRow(t) = TxRow(u)
      BY <1>2, <2>0, <2>1, WritersAssumption
    <2>3. TxRow(t).key = t /\ TxRow(u).key = u
      BY DEF TxRow
    <2> QED
      BY <2>2, <2>3
  <1> QED
    BY <1>1, <1>2, <1>4, <1>5, RowFacts
-----------------------------------------------------------------------------
(***************************************************************************)
(* The invariant, statement by statement.                                  *)
(***************************************************************************)

\* The database is empty and no transaction is open.
LEMMA WritersInitInv == WritersInit => WritersInv
  <1> SUFFICES ASSUME WritersInit PROVE WritersInv
    OBVIOUS
  <1>1. InHand
    <2>1. KeysOf(listed) = {}
      <3>1. \A r : r \notin KeysOf({})
        BY DEF KeysOf
      <3> QED
        BY <3>1 DEF WritersInit
    <2>2. Len(Bodies) \in Nat
      BY BodiesCounted
    <2> QED
      BY <2>1, <2>2 DEF WritersInit, InHand, Writer
  <1>2. PollClears /\ BlockClears /\ OwnedThroughout
    BY DEF WritersInit, PollClears, BlockClears, OwnedThroughout, Skipped, Writer
  <1> QED
    BY <1>1, <1>2 DEF WritersInv

\* The rows of some transactions are rows of transactions.
LEMMA KeysAreRows ==
    /\ \A S \in SUBSET Txid : KeysOf(S) \subseteq AnyRow
    /\ \A S \in SUBSET AnyRow : S # NULL
  BY WritersAssumption DEF AnyRow, KeysOf

\* What Begin reads: the poller's listing is the node's mempool.
LEMMA BeginInv ==
    ASSUME WritersInv, NEW w \in Writer, Begin(w)
    PROVE  WritersInv'
  <1>1. /\ stmt' = [stmt EXCEPT ![w] = 1] /\ stmt[w] = 0
        /\ UNCHANGED <<pool, mined, applied, swept, live, todo, gone, added>>
        /\ todo[w] = NULL /\ gone[w] = {}
        /\ listed' \in SUBSET Txid
    BY DEF WritersInv, InHand, Begin, nodeVars
  <1>2. added'["poll"] = {r \in KeysOf(listed') : InsertedAt(r) < stmt'["poll"]}
    <2>1. CASE w = "poll"
      <3>1. \A S \in SUBSET Txid : \A r \in KeysOf(S) : InsertedAt(r) \in 4..6
        BY KeysAreRows, RowFacts
      <3>2. stmt["poll"] = 0 /\ stmt'["poll"] = 1 /\ listed \in SUBSET Txid
        BY <1>1, <2>1 DEF WritersInv, InHand
      <3>3. {r \in KeysOf(listed') : InsertedAt(r) < 1} = {}
        BY <1>1, <3>1
      <3>4. {r \in KeysOf(listed) : InsertedAt(r) < 0} = {}
        BY <3>1, <3>2
      <3> QED
        BY <1>1, <3>2, <3>3, <3>4 DEF WritersInv, InHand
    <2>2. CASE w = "block"
      BY <1>1, <2>2 DEF WritersInv, InHand, Begin
    <2> QED
      BY <2>1, <2>2 DEF Writer
  <1>3. stmt'["block"] # 0 => applied' < mined'
    BY <1>1 DEF WritersInv, InHand, Begin, Writer
  <1>4. InHand'
    BY <1>1, <1>2, <1>3 DEF WritersInv, InHand
  <1>5. PollClears' /\ OwnedThroughout'
    <2>1. \A r \in live : DeletedAt("poll", r) \in 1..3
      BY RowFacts DEF WritersInv, InHand
    <2> QED
      BY <1>1, <2>1 DEF WritersInv, InHand, PollClears, Accounted, OwnedThroughout, Skipped, Listed, Writer
  <1>6. BlockClears'
    BY <1>1 DEF WritersInv, InHand, BlockClears, Accounted, Writer
  <1> QED
    BY <1>4, <1>5, <1>6 DEF WritersInv

\* A DELETE looks: what it sees is all there is of its table, less what its own
\* transaction has deleted; for a block, of the transactions it carries.
LEMMA LookInv ==
    ASSUME WritersInv, NEW w \in Writer, Look(w)
    PROVE  WritersInv'
  <1> DEFINE seen == {r \in live \ gone[w] : Matches(w, r)}
  <1>1. /\ todo' = [todo EXCEPT ![w] = seen] /\ todo[w] = NULL
        /\ UNCHANGED <<pool, mined, applied, swept, live, stmt, gone, added, listed>>
    BY DEF Look, nodeVars
  <1>2. stmt[w] \in 1..3 /\ live \subseteq AnyRow
    BY DeleteFacts DEF Look, WritersInv, InHand
  <1>3. \A r \in live : r \in seen <=> /\ r \notin gone[w] /\ DeletedAt(w, r) = stmt[w]
                                       /\ w = "block" => r \in Cleared(applied + 1)
    BY <1>2, DeleteFacts DEF Look, WritersInv, InHand
  <1>4. seen \in SUBSET live /\ seen \in SUBSET AnyRow /\ seen # NULL
    BY <1>2, KeysAreRows
  <1> HIDE DEF seen
  <1>5. InHand'
    BY <1>1, <1>2, <1>3, <1>4 DEF WritersInv, InHand
  <1>6. PollClears' /\ OwnedThroughout'
    BY <1>1, <1>3, <1>4
       DEF WritersInv, InHand, PollClears, Accounted, OwnedThroughout, Skipped, Listed, Writer
  <1>7. BlockClears'
    <2>1. CASE w = "poll"
      BY <1>1, <2>1 DEF WritersInv, InHand, BlockClears, Accounted, Writer
    <2>2. CASE w = "block"
      <3>1. todo'["block"] = seen /\ todo["block"] = NULL /\ stmt["block"] # 0
        BY <1>1, <1>2, <2>2 DEF WritersInv, InHand
      <3>2. ASSUME NEW t \in Txid, TxRow(t) \in gone["block"],
                   t \notin Bodies[applied + 1].skipped, NEW r \in live \cap Rows[t]
            PROVE  Accounted("block", r)'
        <4>1. applied + 1 \in 1..Len(Bodies)
          BY <3>1, BodiesCounted DEF WritersInv, InHand
        <4>2. t \in Executed(applied + 1)
          BY <3>1, <3>2, <4>1, TxRowFacts DEF WritersInv, BlockClears, Executed
        <4>3. r \in Cleared(applied + 1)
          BY <3>2, <4>2 DEF Cleared, KeysOf
        <4>4. Accounted("block", r)
          BY <3>2 DEF WritersInv, BlockClears
        <4> QED
          BY <1>1, <1>3, <2>2, <3>1, <3>2, <4>3, <4>4 DEF Accounted
      <3>3. \A r \in seen : r \in Cleared(applied + 1)
        BY <1>3, <1>4, <2>2
      <3> QED
        BY <1>1, <3>1, <3>2, <3>3 DEF WritersInv, BlockClears
    <2> QED
      BY <2>1, <2>2 DEF Writer
  <1> QED
    BY <1>5, <1>6, <1>7 DEF WritersInv

\* A DELETE takes a row that the other transaction does not hold.
LEMMA DeleteRowInv ==
    ASSUME WritersInv, NEW w \in Writer, DeleteRow(w)
    PROVE  WritersInv'
  <1>1. PICK r \in todo[w] \ gone[Other(w)] :
            /\ gone' = [gone EXCEPT ![w] = @ \cup {r}]
            /\ todo' = [todo EXCEPT ![w] = @ \ {r}]
    BY Zenon DEF DeleteRow
  <1>2. /\ todo[w] # NULL /\ todo[w] \in SUBSET AnyRow /\ r \in live /\ r \in AnyRow
        /\ stmt[w] \in 1..3 /\ DeletedAt(w, r) = stmt[w]
    BY <1>1 DEF WritersInv, InHand, DeleteRow
  <1>3. UNCHANGED <<pool, mined, applied, swept, live, stmt, added, listed>>
    BY DEF DeleteRow, nodeVars
  <1>4. /\ todo[w] \ {r} \in SUBSET AnyRow /\ todo[w] \ {r} # NULL
        /\ gone'[w] = gone[w] \cup {r} /\ todo'[w] = todo[w] \ {r}
        /\ \A v \in Writer \ {w} : gone'[v] = gone[v] /\ todo'[v] = todo[v]
    BY <1>1, <1>2, KeysAreRows DEF WritersInv, InHand
  <1>5. InHand'
    <2>1. gone' \in [Writer -> SUBSET live]
      BY <1>1, <1>2 DEF WritersInv, InHand
    <2>2. gone'["block"] \cap gone'["poll"] = {}
      BY <1>1, <1>4 DEF WritersInv, InHand, Writer, Other
    <2>3. todo' \in [Writer -> (SUBSET AnyRow) \cup {NULL}]
      BY <1>1, <1>4 DEF WritersInv, InHand
    <2>4. \A v \in Writer : todo'[v] # NULL => /\ stmt[v] \in 1..3
                                               /\ todo'[v] \subseteq live
                                               /\ \A q \in todo'[v] : DeletedAt(v, q) = stmt[v]
      BY <1>2, <1>4 DEF WritersInv, InHand
    <2>5. \A v \in Writer : stmt[v] = 0 => gone'[v] = {}
      BY <1>2, <1>4 DEF WritersInv, InHand
    <2> QED
      BY <1>3, <2>1, <2>2, <2>3, <2>4, <2>5 DEF WritersInv, InHand
  <1>6. \A v \in Writer, q \in live : Accounted(v, q) => Accounted(v, q)'
    BY <1>2, <1>3, <1>4 DEF Accounted
  <1>7. PollClears' /\ OwnedThroughout'
    BY <1>3, <1>6 DEF WritersInv, PollClears, OwnedThroughout, Skipped, Listed, Writer
  <1>8. BlockClears'
    <2>1. CASE w = "poll"
      BY <1>3, <1>4, <1>6, <2>1 DEF WritersInv, BlockClears, Writer
    <2>2. CASE w = "block"
      <3>1. ASSUME NEW t \in Txid, TxRow(t) \in gone'["block"],
                   t \notin Bodies[applied + 1].skipped, NEW q \in live \cap Rows[t]
            PROVE  Accounted("block", q)'
        <4>1. CASE TxRow(t) \in gone["block"]
          BY <1>6, <3>1, <4>1 DEF WritersInv, BlockClears, Writer
        <4>2. CASE TxRow(t) = r
          <5>1. stmt'["block"] = 1
            BY <1>2, <1>3, <2>2, <4>2, TxRowFacts
          <5>2. q \in AnyRow /\ (DeletedAt("block", q) = 1 => q = r)
            BY <3>1, <4>2, TxRowFacts DEF AnyRow, KeysOf
          <5> QED
            BY <1>4, <2>2, <5>1, <5>2, RowFacts DEF Accounted
        <4> QED
          BY <1>4, <2>2, <3>1, <4>1, <4>2
      <3>2. r \in Cleared(applied + 1)
        BY <1>1, <1>2, <2>2 DEF WritersInv, BlockClears
      <3> QED
        BY <1>2, <1>3, <1>4, <2>2, <3>1, <3>2 DEF WritersInv, BlockClears
    <2> QED
      BY <2>1, <2>2 DEF Writer
  <1> QED
    BY <1>5, <1>7, <1>8 DEF WritersInv

\* A DELETE is over when it has taken, or passed over, all it saw.
LEMMA DeletedInv ==
    ASSUME WritersInv, NEW w \in Writer, Deleted(w)
    PROVE  WritersInv'
  <1>1. /\ todo[w] = {} /\ todo[w] # NULL /\ stmt[w] \in 1..3
        /\ todo' = [todo EXCEPT ![w] = NULL] /\ stmt' = [stmt EXCEPT ![w] = stmt[w] + 1]
        /\ UNCHANGED <<pool, mined, applied, swept, live, gone, added, listed>>
    BY KeysAreRows DEF WritersInv, InHand, Deleted, nodeVars
  <1>2. /\ todo'[w] = NULL /\ stmt'[w] = stmt[w] + 1
        /\ \A v \in Writer \ {w} : todo'[v] = todo[v] /\ stmt'[v] = stmt[v]
    BY <1>1 DEF WritersInv, InHand
  <1>3. added'["poll"] = {r \in KeysOf(listed') : InsertedAt(r) < stmt'["poll"]}
    <2>1. \A r \in KeysOf(listed) : InsertedAt(r) \in 4..6
      BY KeysAreRows, RowFacts DEF WritersInv, InHand
    <2> QED
      BY <1>1, <1>2, <2>1 DEF WritersInv, InHand, Writer
  <1>4. /\ stmt' \in [Writer -> 0..7] /\ stmt'["block"] <= 4
        /\ stmt'["block"] # 0 => applied < mined
    BY <1>1, <1>2 DEF WritersInv, InHand, Writer
  <1>5. InHand'
    BY <1>1, <1>2, <1>3, <1>4 DEF WritersInv, InHand
  <1>6. \A v \in Writer, r \in live : Accounted(v, r) => Accounted(v, r)'
    <2>1. \A r \in live : DeletedAt("block", r) \in Nat /\ DeletedAt("poll", r) \in Nat
      BY RowFacts DEF WritersInv, InHand
    <2> QED
      BY <1>1, <1>2, <2>1 DEF Accounted, Writer
  <1>7. PollClears' /\ OwnedThroughout'
    BY <1>1, <1>6 DEF WritersInv, PollClears, OwnedThroughout, Skipped, Listed, Writer
  <1>8. BlockClears'
    BY <1>1, <1>2, <1>6 DEF WritersInv, BlockClears, Writer
  <1> QED
    BY <1>5, <1>7, <1>8 DEF WritersInv

\* An INSERT adds the rows of one table of the listing, after every DELETE.
LEMMA InsertRowsInv ==
    ASSUME WritersInv, NEW w \in Writer, InsertRows(w)
    PROVE  WritersInv'
  <1> DEFINE more == {r \in KeysOf(listed) : r.table = Statement("poll").table}
  <1>1. /\ w = "poll" /\ stmt["poll"] \in 4..6
        /\ added' = [added EXCEPT !["poll"] = added["poll"] \cup more]
        /\ stmt' = [stmt EXCEPT !["poll"] = stmt["poll"] + 1]
        /\ UNCHANGED <<pool, mined, applied, swept, live, todo, gone, listed>>
    <2>1. w = "poll" /\ stmt["poll"] \in 4..6
      BY InsertFacts DEF WritersInv, InHand, InsertRows
    <2> QED
      BY <2>1 DEF InsertRows, nodeVars
  <1>2. \A r \in KeysOf(listed) :
            /\ r \in AnyRow /\ InsertedAt(r) \in Nat
            /\ r \in more <=> InsertedAt(r) = stmt["poll"]
    BY <1>1, InsertFacts, KeysAreRows, RowFacts DEF WritersInv, InHand, InsertRows
  <1>3. more \subseteq KeysOf(listed)
    OBVIOUS
  <1> HIDE DEF more
  <1>4. /\ stmt'["poll"] = stmt["poll"] + 1 /\ stmt'["block"] = stmt["block"]
        /\ added'["poll"] = added["poll"] \cup more /\ added'["block"] = added["block"]
    BY <1>1 DEF WritersInv, InHand, Writer
  <1>5. added'["poll"] = {r \in KeysOf(listed) : InsertedAt(r) < stmt'["poll"]}
    BY <1>1, <1>2, <1>3, <1>4 DEF WritersInv, InHand
  <1>6. added' \in [Writer -> SUBSET AnyRow] /\ stmt' \in [Writer -> 0..7]
    BY <1>1, <1>2, <1>3 DEF WritersInv, InHand
  <1>7. InHand'
    BY <1>1, <1>4, <1>5, <1>6 DEF WritersInv, InHand, Writer
  <1>8. \A r \in live : Accounted("poll", r) => Accounted("poll", r)'
    <2>1. \A r \in live : DeletedAt("poll", r) \in 1..3
      BY RowFacts DEF WritersInv, InHand
    <2>2. stmt["poll"] \in Nat /\ stmt["poll"] >= 4 /\ stmt'["poll"] = stmt["poll"] + 1
      BY <1>1, <1>4
    <2>3. \A r \in live : Accounted("poll", r) => r \in gone["poll"]
      BY <2>1, <2>2 DEF Accounted
    <2> QED
      BY <1>1, <2>3 DEF Accounted
  <1>9. PollClears' /\ OwnedThroughout'
    BY <1>1, <1>8 DEF WritersInv, PollClears, OwnedThroughout, Skipped, Listed
  <1>10. BlockClears'
    BY <1>1, <1>4 DEF WritersInv, BlockClears, Accounted
  <1> QED
    BY <1>7, <1>9, <1>10 DEF WritersInv

\* A transaction that is rolled back leaves the rows as they were.
LEMMA RollbackInv ==
    ASSUME WritersInv, NEW w \in Writer, Rollback(w)
    PROVE  WritersInv'
  <1>1. /\ todo' = [todo EXCEPT ![w] = NULL] /\ stmt' = [stmt EXCEPT ![w] = 0]
        /\ gone' = [gone EXCEPT ![w] = {}] /\ added' = [added EXCEPT ![w] = {}]
        /\ listed' = IF w = "poll" THEN {} ELSE listed
        /\ UNCHANGED <<pool, mined, applied, swept, live>>
    BY DEF Rollback, Ends, nodeVars
  <1>2. /\ todo'[w] = NULL /\ stmt'[w] = 0 /\ gone'[w] = {} /\ added'[w] = {}
        /\ \A v \in Writer \ {w} : /\ todo'[v] = todo[v] /\ stmt'[v] = stmt[v]
                                    /\ gone'[v] = gone[v] /\ added'[v] = added[v]
    BY <1>1 DEF WritersInv, InHand
  <1>3. added'["poll"] = {r \in KeysOf(listed') : InsertedAt(r) < stmt'["poll"]}
    <2>1. CASE w = "poll"
      <3>1. \A r \in KeysOf({}) : InsertedAt(r) \in 4..6
        BY KeysAreRows, RowFacts
      <3> QED
        BY <1>1, <1>2, <2>1, <3>1
    <2>2. CASE w = "block"
      BY <1>1, <1>2, <2>2 DEF WritersInv, InHand, Writer
    <2> QED
      BY <2>1, <2>2 DEF Writer
  <1>4. InHand'
    <2>1. /\ stmt' \in [Writer -> 0..7] /\ todo' \in [Writer -> (SUBSET AnyRow) \cup {NULL}]
          /\ gone' \in [Writer -> SUBSET live] /\ added' \in [Writer -> SUBSET AnyRow]
      BY <1>1 DEF WritersInv, InHand
    <2>2. /\ stmt'["block"] <= 4 /\ (stmt'["block"] # 0 => applied < mined)
          /\ gone'["block"] \cap gone'["poll"] = {} /\ added'["block"] = {}
          /\ listed' \subseteq Txid
      BY <1>1, <1>2 DEF WritersInv, InHand, Writer
    <2>3. \A v \in Writer : /\ todo'[v] # NULL => /\ stmt'[v] \in 1..3 /\ todo'[v] \subseteq live
                                                  /\ \A r \in todo'[v] : DeletedAt(v, r) = stmt'[v]
                            /\ stmt'[v] = 0 => gone'[v] = {}
      BY <1>2, Zenon DEF WritersInv, InHand
    <2> QED
      BY <1>1, <1>3, <2>1, <2>2, <2>3 DEF WritersInv, InHand
  <1>5. PollClears' /\ OwnedThroughout'
    <2>1. \A r \in live : DeletedAt("poll", r) \in 1..3
      BY RowFacts DEF WritersInv, InHand
    <2>2. OwnedThroughout'
      BY <1>1, Zenon DEF WritersInv, OwnedThroughout, Skipped, Listed
    <2>3. ASSUME NEW r \in live PROVE Accounted("poll", r)'
      <3>1. Accounted("poll", r)
        BY DEF WritersInv, PollClears
      <3>2. CASE w = "poll"
        <4>1. DeletedAt("poll", r) > stmt'["poll"]
          BY <1>2, <2>1, <3>2
        <4> QED
          BY <4>1 DEF Accounted
      <3>3. CASE w # "poll"
        BY <1>2, <3>1, <3>3, Zenon DEF Accounted, DeletedAt, Writer
      <3> QED
        BY <3>2, <3>3
    <2> QED
      BY <1>1, <2>2, <2>3 DEF PollClears
  <1>6. BlockClears'
    BY <1>1, <1>2, Zenon DEF WritersInv, BlockClears, Accounted, Writer
  <1> QED
    BY <1>4, <1>5, <1>6 DEF WritersInv

\* A block commits: with the row of a transaction that it executes go all its other
\* rows, and a trade that it skipped is from now on one of Skipped.
LEMMA CommitBlockInv ==
    ASSUME WritersInv, Commit("block")
    PROVE  WritersInv'
  <1>1. /\ stmt["block"] = 4 /\ live' = live \ gone["block"] /\ applied' = applied + 1
        /\ todo' = [todo EXCEPT !["poll"] = IF @ = NULL THEN NULL ELSE @ \ gone["block"]]
        /\ stmt' = [stmt EXCEPT !["block"] = 0] /\ gone' = [gone EXCEPT !["block"] = {}]
        /\ added' = [added EXCEPT !["block"] = {}]
        /\ UNCHANGED <<pool, mined, swept, listed>>
    BY BlockStatements DEF WritersInv, InHand, Commit, Ends, Other, nodeVars
  <1>2. /\ stmt'["block"] = 0 /\ gone'["block"] = {} /\ added'["block"] = {}
        /\ todo'["block"] = todo["block"] /\ todo["block"] = NULL
        /\ stmt'["poll"] = stmt["poll"] /\ gone'["poll"] = gone["poll"]
        /\ added'["poll"] = added["poll"]
        /\ todo'["poll"] = IF todo["poll"] = NULL THEN NULL ELSE todo["poll"] \ gone["block"]
    BY <1>1 DEF WritersInv, InHand, Writer
  <1>3. /\ gone["poll"] \subseteq live'
        /\ todo["poll"] # NULL => /\ todo'["poll"] \subseteq live'
                                  /\ todo'["poll"] # NULL /\ todo'["poll"] \subseteq AnyRow
    BY <1>1, <1>2, KeysAreRows DEF WritersInv, InHand, Writer
  <1>4. InHand'
    <2>0. stmt' \in [Writer -> 0..7]
      <3>1. stmt \in [Writer -> 0..7]
        BY DEF WritersInv, InHand
      <3>2. stmt' = [stmt EXCEPT !["block"] = 0]
        BY <1>1
      <3> QED
        BY <3>1, <3>2 DEF Writer
    <2>1. added' \in [Writer -> SUBSET AnyRow]
      BY <1>1, Zenon DEF WritersInv, InHand
    <2>2. gone' \in [Writer -> SUBSET live']
      BY <1>1, <1>2, <1>3 DEF WritersInv, InHand, Writer
    <2>3. todo' \in [Writer -> (SUBSET AnyRow) \cup {NULL}]
      BY <1>1, <1>2, <1>3 DEF WritersInv, InHand, Writer
    <2>4. \A v \in Writer : /\ todo'[v] # NULL => /\ stmt'[v] \in 1..3 /\ todo'[v] \subseteq live'
                                                  /\ \A r \in todo'[v] : DeletedAt(v, r) = stmt'[v]
                            /\ stmt'[v] = 0 => gone'[v] = {}
      <3>1. CASE todo["poll"] = NULL
        BY <1>2, <3>1 DEF WritersInv, InHand, Writer
      <3>2. CASE todo["poll"] # NULL
        <4>1. /\ todo'["poll"] \subseteq todo["poll"] /\ stmt["poll"] \in 1..3
              /\ \A r \in todo["poll"] : DeletedAt("poll", r) = stmt["poll"]
          BY <1>2, <3>2 DEF WritersInv, InHand, Writer
        <4>2. stmt'["poll"] \in 1..3 /\ \A r \in todo'["poll"] : DeletedAt("poll", r) = stmt'["poll"]
          BY <1>2, <4>1
        <4>3. stmt'["poll"] # 0
          BY <4>2
        <4>4. todo'["poll"] \subseteq live' /\ todo'["block"] = NULL /\ gone'["block"] = {}
          BY <1>2, <1>3, <3>2
        <4> QED
          BY <4>2, <4>3, <4>4 DEF Writer
      <3> QED
        BY <3>1, <3>2, Zenon
    <2>5. applied' \in Nat /\ applied' <= mined
      BY <1>1 DEF WritersInv, InHand
    <2> QED
      BY <1>1, <1>2, <2>0, <2>1, <2>2, <2>3, <2>4, <2>5 DEF WritersInv, InHand
  <1>5. PollClears'
    BY <1>1, <1>2, <1>3 DEF WritersInv, PollClears, Accounted
  <1>6. BlockClears'
    BY <1>2 DEF BlockClears
  <1>7. OwnedThroughout'
    <2>1. /\ Skipped \subseteq Skipped' /\ applied + 1 \in (swept' + 1)..applied'
          /\ Bodies[applied + 1].skipped \subseteq Skipped'
      <3>1. swept \in Nat /\ applied \in Nat /\ swept <= applied
        BY DEF WritersInv, InHand
      <3> QED
        BY <1>1, <3>1 DEF Skipped
    <2> SUFFICES ASSUME NEW r \in live'
                 PROVE  \E t \in Txid : r \in Rows[t] /\ (TxRow(t) \in live' \/ t \in Skipped')
      BY DEF OwnedThroughout, Listed
    <2>2. PICK t \in Txid : r \in Rows[t] /\ (TxRow(t) \in live \/ t \in Skipped)
      BY <1>1 DEF WritersInv, OwnedThroughout, Listed
    <2>3. CASE TxRow(t) \in gone["block"]
      <3> SUFFICES ASSUME t \notin Bodies[applied + 1].skipped PROVE FALSE
        BY <2>1, <2>2
      <3>1. Accounted("block", r)
        BY <1>1, <2>2, <2>3 DEF WritersInv, BlockClears
      <3>2. DeletedAt("block", r) \in 1..3
        BY <2>2, RowFacts DEF AnyRow, KeysOf
      <3> QED
        BY <1>1, <3>1, <3>2 DEF Accounted
    <2> QED
      BY <1>1, <2>1, <2>2, <2>3
  <1> QED
    BY <1>4, <1>5, <1>6, <1>7 DEF WritersInv

\* The poller commits: it holds every row there was, so its listing is what there is,
\* and the block holds none.
LEMMA CommitPollInv ==
    ASSUME WritersInv, Commit("poll")
    PROVE  WritersInv'
  <1>1. /\ stmt["poll"] = 7 /\ live' = (live \ gone["poll"]) \cup added["poll"]
        /\ todo' = [todo EXCEPT !["block"] = IF @ = NULL THEN NULL ELSE @ \ gone["poll"]]
        /\ stmt' = [stmt EXCEPT !["poll"] = 0] /\ gone' = [gone EXCEPT !["poll"] = {}]
        /\ added' = [added EXCEPT !["poll"] = {}] /\ listed' = {}
        /\ swept' = applied /\ UNCHANGED <<pool, mined, applied>>
    <2>1. stmt["poll"] = 7
      <3>1. stmt["poll"] = Len(Plan("poll")) + 1
        BY DEF Commit
      <3>2. Len(Plan("poll")) + 1 = 7
        BY DEF Plan, ReplaceMempool
      <3> QED
        BY <3>1, <3>2
    <2>2. /\ Other("poll") = "block" /\ ~("poll" = "block")
      BY DEF Other
    <2>3. /\ live' = (live \ gone["poll"]) \cup added["poll"] /\ listed' = {}
          /\ swept' = applied /\ UNCHANGED <<pool, mined, applied>>
      BY <2>2 DEF Commit, Ends, nodeVars
    <2>4. todo' = [todo EXCEPT !["block"] = IF @ = NULL THEN NULL ELSE @ \ gone["poll"]]
      BY <2>2, Zenon DEF Commit
    <2> QED
      BY <2>1, <2>3, <2>4, Zenon DEF Commit, Ends
  <1>2. live \subseteq gone["poll"] /\ gone["block"] = {}
    <2>1. ASSUME NEW r \in live PROVE r \in gone["poll"]
      <3>1. DeletedAt("poll", r) \in 1..3 /\ Accounted("poll", r)
        BY RowFacts DEF WritersInv, InHand, PollClears
      <3> QED
        BY <1>1, <3>1 DEF Accounted
    <2>2. gone["block"] \subseteq live
      BY DEF WritersInv, InHand, Writer
    <2> QED
      BY <2>1, <2>2 DEF WritersInv, InHand
  <1>3. live' = KeysOf(listed) /\ listed \in SUBSET Txid
    <2>1. \A r \in KeysOf(listed) : InsertedAt(r) \in 4..6
      BY KeysAreRows, RowFacts DEF WritersInv, InHand
    <2> QED
      BY <1>1, <1>2, <2>1 DEF WritersInv, InHand
  <1>4. todo["block"] # NULL => todo["block"] \ gone["poll"] = {} /\ {} # NULL
    BY <1>2, KeysAreRows DEF WritersInv, InHand, Writer
  <1>5. /\ stmt'["poll"] = 0 /\ gone'["poll"] = {} /\ added'["poll"] = {}
        /\ todo'["poll"] = todo["poll"] /\ todo["poll"] = NULL
        /\ stmt'["block"] = stmt["block"] /\ gone'["block"] = {} /\ added'["block"] = {}
        /\ todo'["block"] = IF todo["block"] = NULL THEN NULL ELSE {}
    <2>1. /\ stmt'["poll"] = 0 /\ gone'["poll"] = {} /\ added'["poll"] = {}
          /\ stmt'["block"] = stmt["block"] /\ gone'["block"] = {} /\ added'["block"] = {}
      BY <1>1, <1>2 DEF WritersInv, InHand, Writer
    <2>2. todo'["poll"] = todo["poll"] /\ todo["poll"] = NULL
      BY <1>1 DEF WritersInv, InHand, Writer
    <2>3. todo'["block"] = IF todo["block"] = NULL THEN NULL ELSE {}
      BY <1>1, <1>4, Zenon DEF WritersInv, InHand, Writer
    <2> QED
      BY <2>1, <2>2, <2>3
  <1>6. InHand'
    <2>0. stmt' \in [Writer -> 0..7]
      <3>1. stmt \in [Writer -> 0..7]
        BY DEF WritersInv, InHand
      <3>2. stmt' = [stmt EXCEPT !["poll"] = 0]
        BY <1>1
      <3> QED
        BY <3>1, <3>2 DEF Writer
    <2>1. added' \in [Writer -> SUBSET AnyRow]
      BY <1>1, Zenon DEF WritersInv, InHand
    <2>2. gone' \in [Writer -> SUBSET live']
      BY <1>1, <1>5 DEF WritersInv, InHand, Writer
    <2>3. todo' \in [Writer -> (SUBSET AnyRow) \cup {NULL}]
      BY <1>1, <1>5 DEF WritersInv, InHand, Writer
    <2>4. \A v \in Writer : /\ todo'[v] # NULL => /\ stmt'[v] \in 1..3 /\ todo'[v] \subseteq live'
                                                  /\ \A r \in todo'[v] : DeletedAt(v, r) = stmt'[v]
                            /\ stmt'[v] = 0 => gone'[v] = {}
      BY <1>5 DEF WritersInv, InHand, Writer
    <2>5. {r \in KeysOf({}) : InsertedAt(r) < 0} = {}
      <3>1. \A r \in KeysOf({}) : InsertedAt(r) \in 4..6
        BY KeysAreRows, RowFacts
      <3> QED
        BY <3>1
    <2>6. live' \subseteq AnyRow
      BY <1>3, KeysAreRows
    <2> QED
      BY <1>1, <1>5, <2>0, <2>1, <2>2, <2>3, <2>4, <2>5, <2>6 DEF WritersInv, InHand
  <1>7. PollClears'
    <2>1. \A r \in live' : DeletedAt("poll", r) \in 1..3
      BY <1>3, KeysAreRows, RowFacts
    <2> QED
      BY <1>5, <2>1 DEF PollClears, Accounted
  <1>8. BlockClears'
    BY <1>5 DEF BlockClears
  <1>9. OwnedThroughout'
    BY <1>3, WritersAssumption DEF OwnedThroughout, Skipped, Listed, KeysOf
  <1> QED
    BY <1>6, <1>7, <1>8, <1>9 DEF WritersInv

\* The node's own steps touch neither transaction.
LEMMA NodeInv ==
    ASSUME WritersInv, PoolMoves \/ NodeMines
    PROVE  WritersInv'
  <1>1. /\ pool' \subseteq Txid
        /\ UNCHANGED <<applied, swept, live, stmt, todo, gone, added, listed>>
    BY DEF WritersInv, InHand, PoolMoves, NodeMines, txVars
  <1>2. mined' \in Nat /\ mined <= mined' /\ mined' <= Len(Bodies)
    <2>1. mined \in Nat /\ Len(Bodies) \in Nat /\ mined <= Len(Bodies)
      BY BodiesCounted DEF WritersInv, InHand
    <2>2. mined' = mined \/ (mined < Len(Bodies) /\ mined' = mined + 1)
      <3>1. CASE PoolMoves
        BY <3>1 DEF PoolMoves
      <3>2. CASE NodeMines
        BY <3>2 DEF NodeMines
      <3> QED
        BY <3>1, <3>2
    <2> QED
      BY <2>1, <2>2
  <1>3. InHand'
    BY <1>1, <1>2 DEF WritersInv, InHand
  <1>4. PollClears' /\ BlockClears' /\ OwnedThroughout'
    BY <1>1 DEF WritersInv, PollClears, BlockClears, OwnedThroughout, Skipped, Listed, Accounted
  <1> QED
    BY <1>3, <1>4 DEF WritersInv

\* Every step of the node and of the two transactions keeps the invariant.
LEMMA WritersStep == WritersInv /\ [WritersNext]_writersVars => WritersInv'
  <1> SUFFICES ASSUME WritersInv, [WritersNext]_writersVars PROVE WritersInv'
    OBVIOUS
  <1>1. ASSUME NEW w \in Writer, Commit(w) PROVE WritersInv'
    <2>1. CASE w = "block"
      BY <1>1, <2>1, CommitBlockInv
    <2>2. CASE w = "poll"
      BY <1>1, <2>2, CommitPollInv
    <2> QED
      BY <2>1, <2>2 DEF Writer
  <1>2. ASSUME NEW w \in Writer, WriterStep(w) PROVE WritersInv'
    BY <1>1, <1>2, BeginInv, LookInv, DeleteRowInv, DeletedInv, InsertRowsInv DEF WriterStep
  <1>3. ASSUME NEW w \in Writer, Deadlock(w) \/ Fails(w) PROVE WritersInv'
    BY <1>3, RollbackInv DEF Deadlock, Fails
  <1>4. CASE UNCHANGED writersVars
    BY <1>4, Zenon DEF writersVars, nodeVars, txVars, WritersInv, InHand, PollClears, BlockClears,
                OwnedThroughout, Skipped, Listed, Accounted
  <1> QED
    BY <1>2, <1>3, <1>4, NodeInv DEF WritersNext

\* The invariant holds of every state that the two transactions reach.
LEMMA WritersInvariant == WritersSpec => []WritersInv
  BY WritersInitInv, WritersStep, PTL DEF WritersSpec

\* The statement that a transaction is at bounds what it holds.
LEMMA WritersInvTypes == WritersInv => WritersTypeOK
  <1> SUFFICES ASSUME WritersInv PROVE WritersTypeOK
    OBVIOUS
  <1>1. stmt["block"] \in 0..(Len(Plan("block")) + 1)
    <2>1. stmt["block"] \in 0..4
      BY DEF WritersInv, InHand, Writer
    <2> QED
      BY <2>1 DEF Plan, clearMempool
  <1>2. stmt["poll"] \in 0..(Len(Plan("poll")) + 1)
    <2>1. stmt["poll"] \in 0..7
      BY DEF WritersInv, InHand, Writer
    <2> QED
      BY <2>1 DEF Plan, ReplaceMempool
  <1>3. stmt["poll"] = 0 => added["poll"] = {}
    <2>1. \A r \in KeysOf(listed) : InsertedAt(r) \in 4..6
      BY KeysAreRows, RowFacts DEF WritersInv, InHand
    <2> QED
      BY <2>1 DEF WritersInv, InHand
  <1>4. \A w \in Writer : stmt[w] = 0 => todo[w] = NULL /\ gone[w] = {} /\ added[w] = {}
    BY <1>3 DEF WritersInv, InHand, Writer
  <1> QED
    BY <1>1, <1>2, <1>4 DEF WritersInv, InHand, WritersTypeOK, Writer

\* inTx rolls back what it does not commit: the two transactions never hold one row
\* both, only the poller inserts, and one that is over holds nothing.
THEOREM WritersTypes == WritersSpec => []WritersTypeOK
BY WritersInvariant, WritersInvTypes, PTL

\* clearMempool and ReplaceMempool: at no moment does the database show an unconfirmed
\* coin or spend without its transaction, wherever the two transactions stand, but for
\* those of a trade that a block skipped since a replacement last committed.
THEOREM WritersOwnedThroughout == WritersSpec => []OwnedThroughout
  <1>1. WritersInv => OwnedThroughout
    BY DEF WritersInv
  <1> QED
    BY WritersInvariant, <1>1, PTL

\* A row that is in the way of an INSERT would have been deleted by statement 3.
LEMMA WritersInvKeysFree == WritersInv => KeysFree
  <1> SUFFICES ASSUME WritersInv, NEW r \in added["poll"], r \in live, r \notin gone["poll"]
               PROVE  FALSE
    BY DEF KeysFree
  <1>1. /\ InsertedAt(r) \in 4..6 /\ DeletedAt("poll", r) \in 1..3
        /\ InsertedAt(r) < stmt["poll"] /\ stmt["poll"] \in Nat
    BY RowFacts DEF WritersInv, InHand, Writer
  <1>2. Accounted("poll", r)
    BY DEF WritersInv, PollClears
  <1> QED
    BY <1>1, <1>2 DEF Accounted

\* ReplaceMempool: when its INSERTs run, every row there is has been deleted by its own
\* transaction, so no key that it writes is taken.
THEOREM WritersKeysFree == WritersSpec => []KeysFree
BY WritersInvariant, WritersInvKeysFree, PTL

-----------------------------------------------------------------------------

\* A step of the database is one of its opening or one of its writers.
LEMMA DatabaseSteps ==
    [DatabaseNext]_databaseVars => [StartupNext]_startupVars /\ [WritersNext]_writersVars
BY DEF DatabaseNext, OpenFirst, ThenWrite, databaseVars

\* The opening runs as StartupSpec beside the writers, and they as WritersSpec, but for
\* the fairness.
LEMMA DatabaseInvariant == DatabaseSpec => [](StartupInv /\ WritersInv)
<1>1. DatabaseInit => StartupInv /\ WritersInv
  BY StartupInitInv, WritersInitInv DEF DatabaseInit
<1> QED BY <1>1, StartupStep, WritersStep, DatabaseSteps, PTL DEF DatabaseSpec

\* Open and inTx roll back what they do not commit: in the database that the one opens
\* and the other writes, a call or a transaction that is over has left nothing behind.
THEOREM DatabaseTypes == DatabaseSpec => []DatabaseTypeOK
<1>1. StartupInv /\ WritersInv => DatabaseTypeOK
  BY StartupInvTypes, WritersInvTypes DEF DatabaseTypeOK
<1> QED BY <1>1, DatabaseInvariant, PTL

\* What migrate, Init, clearMempool and ReplaceMempool keep, each by itself, the database
\* keeps from its first statement on, through the opening and the writing.
THEOREM DatabaseKeeps ==
    DatabaseSpec => [](MigratedInOrder /\ OpenIsReady /\ OwnedThroughout /\ KeysFree)
<1>1. StartupInv /\ WritersInv => MigratedInOrder /\ OpenIsReady /\ OwnedThroughout /\ KeysFree
  BY StartupInvOrder, StartupInvReady, WritersInvKeysFree DEF WritersInv
<1> QED BY <1>1, DatabaseInvariant, PTL
=============================================================================
