----------------------------- MODULE MCDatabase -----------------------------
(***************************************************************************)
(* The calls of MCStartup and the transactions of MCWriters on one         *)
(* database.                                                               *)
(***************************************************************************)
EXTENDS Database, MCStartup, MCWriters
=============================================================================
