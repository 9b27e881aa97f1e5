------------------------------ MODULE Database ------------------------------
(***************************************************************************)
(* The database under its writers: Startup opens it, and the transactions  *)
(* of Writers run once every call that may have it is through and the      *)
(* faults of the opening are over.  A call for another chain goes on       *)
(* trying until then.                                                      *)
(***************************************************************************)
EXTENDS Startup, Writers

databaseVars == <<startupVars, writersVars>>

Opened ==
    /\ failures = MaxFaults /\ chain # NoChain
    /\ \A o \in Opener : at[o] = IF chain = Wanted[o] THEN "open" ELSE "idle"

OpenFirst(step) == WritersInit /\ step /\ UNCHANGED writersVars
ThenWrite(step) == Opened /\ step /\ UNCHANGED startupVars

DatabaseInit == StartupInit /\ WritersInit

DatabaseNext == OpenFirst(StartupNext) \/ ThenWrite(WritersNext)

\* The fairness of the two specifications.
DatabaseSpec ==
    /\ DatabaseInit /\ [][DatabaseNext]_databaseVars
    /\ \A o \in Opener : WF_startupVars(OpenFirst(OpenStep(o)))
    /\ \A w \in Writer : /\ WF_writersVars(ThenWrite(WriterStep(w)))
                         /\ SF_writersVars(ThenWrite(DeleteRow(w)))
    /\ WF_writersVars(ThenWrite(\E w \in Writer : Deadlock(w)))

\* A call of Open and a transaction of inTx that end, at whichever statement, leave
\* nothing of theirs behind.
DatabaseTypeOK == StartupTypeOK /\ WritersTypeOK
=============================================================================
