------------------------------- MODULE Startup -------------------------------
(***************************************************************************)
(* How a store is opened: the connector of main.go calls Store.Open, which *)
(* applies the missing migrations, and Store.Init, which claims the        *)
(* database for one chain.  Service.Connect does not serialize connectors, *)
(* and two processes may share a database, so several Openers run at once. *)
(* A step is one statement.  A statement that meets an uncommitted write   *)
(* of the same table, column or key waits for the other transaction, and   *)
(* fails once that has committed.                                          *)
(***************************************************************************)
EXTENDS Naturals, Sequences, Functions

CONSTANTS
    Opener,      \* calls of the connector: goroutines of one process or of two
    Names,       \* migrationNames: the embedded files, sorted
    Wanted,      \* Wanted[o]: the chain and network that o is configured for
    MaxFaults,   \* bound: statements that fail and processes that die
    NoChain      \* what sync_state holds before Init

ASSUME StartupAssumption ==
    /\ Names \in Seq(STRING) /\ IsInjective(Names)
    /\ NoChain \notin {Wanted[o] : o \in Opener}
    /\ MaxFaults \in Nat

VARIABLES
    table,      \* whether the table migrations exists
    schema,     \* the migration bodies that have been committed, in that order
    recorded,   \* the names in the table migrations
    chain,      \* chain and network of sync_state, or NoChain while it has no row
    at,         \* where each Opener is
    name,       \* the index in Names that it has come to
    wrote,      \* what its transaction has done: "nothing", "body", "record", "row"
    failures

dbVars == <<table, schema, recorded, chain>>
openVars == <<at, name, wrote>>
startupVars == <<dbVars, openVars, failures>>

StartupInit ==
    /\ table = FALSE /\ schema = <<>> /\ recorded = {} /\ chain = NoChain
    /\ at = [o \in Opener |-> "idle"]
    /\ name = [o \in Opener |-> 1]
    /\ wrote = [o \in Opener |-> "nothing"]
    /\ failures = 0

To(o, label) == at' = [at EXCEPT ![o] = label]
Wrote(o, what) == wrote' = [wrote EXCEPT ![o] = what]

\* Fault variant: the transaction is left open.
GivesUp_Open(o) ==
    /\ To(o, "idle") /\ name' = [name EXCEPT ![o] = 1]
    /\ UNCHANGED <<dbVars, wrote>>

\* The call returns an error: its transaction is rolled back, its pool is closed,
\* and the service calls the connector again later.
GivesUp(o) ==
    /\ To(o, "idle") /\ Wrote(o, "nothing")
    /\ name' = [name EXCEPT ![o] = 1]
    /\ UNCHANGED dbVars

-----------------------------------------------------------------------------
(***************************************************************************)
(* Store.migrate.                                                          *)
(***************************************************************************)

\* CREATE TABLE IF NOT EXISTS looks first; two that both find nothing both create.
LookForTable(o) ==
    /\ at[o] = "idle"
    /\ To(o, IF table THEN "check" ELSE "create")
    /\ UNCHANGED <<dbVars, name, wrote, failures>>

CreateTable(o) ==
    /\ at[o] = "create"
    /\ IF table
       THEN GivesUp(o)
       ELSE /\ table' = TRUE /\ To(o, "check")
            /\ UNCHANGED <<schema, recorded, chain, name, wrote>>
    /\ UNCHANGED failures

\* migrationApplied, and the end of the loop.
CheckApplied(o) ==
    /\ at[o] = "check"
    /\ IF name[o] > Len(Names)
       THEN To(o, "look") /\ UNCHANGED name
       ELSE IF Names[name[o]] \in recorded
       THEN name' = [name EXCEPT ![o] = @ + 1] /\ UNCHANGED at
       ELSE To(o, "body") /\ UNCHANGED name
    /\ UNCHANGED <<dbVars, wrote, failures>>

\* Another transaction has created what the body of o's migration creates.
BodyBusy(o) ==
    \E p \in Opener \ {o} : wrote[p] \in {"body", "record"} /\ name[p] = name[o]

\* The body is CREATE TABLE and ADD COLUMN: it fails on a schema that has it.
RunBody(o) ==
    /\ at[o] = "body" /\ ~BodyBusy(o)
    /\ IF Names[name[o]] \in Range(schema)
       THEN GivesUp(o)
       ELSE To(o, "record") /\ Wrote(o, "body") /\ UNCHANGED <<dbVars, name>>
    /\ UNCHANGED failures

\* Fault variant: the body is committed before its name is recorded.
RecordName_Apart(o) ==
    /\ at[o] = "record"
    /\ schema' = Append(schema, Names[name[o]])
    /\ To(o, "commit") /\ Wrote(o, "record")
    /\ UNCHANGED <<table, recorded, chain, name, failures>>

\* INSERT INTO migrations, in the transaction of the body.
RecordName(o) ==
    /\ at[o] = "record"
    /\ To(o, "commit") /\ Wrote(o, "record")
    /\ UNCHANGED <<dbVars, name, failures>>

\* Fault variant: nothing is recorded.
CommitMigration_Unrecorded(o) ==
    /\ at[o] = "commit" /\ wrote[o] = "record"
    /\ schema' = Append(schema, Names[name[o]])
    /\ name' = [name EXCEPT ![o] = @ + 1]
    /\ To(o, "check") /\ Wrote(o, "nothing")
    /\ UNCHANGED <<table, recorded, chain, failures>>

CommitMigration(o) ==
    /\ at[o] = "commit" /\ wrote[o] = "record"
    /\ schema' = Append(schema, Names[name[o]])
    /\ recorded' = recorded \cup {Names[name[o]]}
    /\ name' = [name EXCEPT ![o] = @ + 1]
    /\ To(o, "check") /\ Wrote(o, "nothing")
    /\ UNCHANGED <<table, chain, failures>>

-----------------------------------------------------------------------------
(***************************************************************************)
(* Store.Init.                                                             *)
(***************************************************************************)

LookForChain(o) ==
    /\ at[o] = "look"
    /\ \/ chain = NoChain /\ To(o, "insert") /\ UNCHANGED <<dbVars, name, wrote>>
       \/ chain = Wanted[o] /\ To(o, "open") /\ UNCHANGED <<dbVars, name, wrote>>
       \/ chain \notin {NoChain, Wanted[o]} /\ GivesUp(o)
    /\ UNCHANGED failures

\* Fault variant: ON CONFLICT (id) DO UPDATE.
InsertChain_Upsert(o) ==
    /\ at[o] = "insert"
    /\ \A p \in Opener \ {o} : wrote[p] # "row"
    /\ To(o, "commit") /\ Wrote(o, "row") /\ UNCHANGED <<dbVars, name>>
    /\ UNCHANGED failures

\* The primary key of sync_state lets one row in.
InsertChain(o) ==
    /\ at[o] = "insert"
    /\ \A p \in Opener \ {o} : wrote[p] # "row"
    /\ IF chain # NoChain
       THEN GivesUp(o)
       ELSE To(o, "commit") /\ Wrote(o, "row") /\ UNCHANGED <<dbVars, name>>
    /\ UNCHANGED failures

CommitChain(o) ==
    /\ at[o] = "commit" /\ wrote[o] = "row"
    /\ chain' = Wanted[o]
    /\ To(o, "open") /\ Wrote(o, "nothing")
    /\ UNCHANGED <<table, schema, recorded, name, failures>>

\* A statement fails, the context ends, or the process dies; a store that stands
\* may be closed, and be opened again.
OpenFails(o) ==
    /\ at[o] # "idle" /\ failures < MaxFaults
    /\ failures' = failures + 1
    /\ GivesUp(o)

-----------------------------------------------------------------------------
OpenStep(o) ==
    \/ LookForTable(o) \/ CreateTable(o) \/ CheckApplied(o)
    \/ RunBody(o) \/ RecordName(o) \/ CommitMigration(o)
    \/ LookForChain(o) \/ InsertChain(o) \/ CommitChain(o)

StartupNext == \E o \in Opener : OpenStep(o) \/ OpenFails(o)

\* Postgres answers, and the service retries for ever.
StartupSpec ==
    /\ StartupInit /\ [][StartupNext]_startupVars
    /\ \A o \in Opener : WF_startupVars(OpenStep(o))

-----------------------------------------------------------------------------
\* Each call is at one of its statements, and has written only what it may there.
StartupTypeOK ==
    /\ table \in BOOLEAN
    /\ recorded \subseteq Range(Names)
    /\ chain \in {Wanted[o] : o \in Opener} \cup {NoChain}
    /\ name \in [Opener -> 1..(Len(Names) + 1)]
    /\ \A o \in Opener :
          wrote[o] = CASE at[o] = "record" -> "body"
                       [] at[o] = "commit" -> IF name[o] > Len(Names) THEN "row" ELSE "record"
                       [] OTHER -> "nothing"

\* "a crash never leaves a migration half applied": every body took effect once, in
\* the order of the names, and exactly those are recorded, whichever calls of migrate
\* run at once and whichever die.
MigratedInOrder ==
    /\ \E n \in 0..Len(Names) : schema = SubSeq(Names, 1, n)
    /\ recorded = Range(schema)

\* Open returns a store whose schema is complete, and Init lets it pass only when
\* the database holds the chain it is configured for, so two chains never share one.
OpenIsReady ==
    \A o \in Opener : at[o] = "open" => schema = Names /\ chain = Wanted[o]

\* migrate "is safe to run on every start": calls that run at once may fail one
\* another, but in the end each that wants the chain of the database has its store.
EventuallyOpen ==
    \A o \in Opener : <>[](at[o] = "open" \/ chain \notin {NoChain, Wanted[o]})
=============================================================================
