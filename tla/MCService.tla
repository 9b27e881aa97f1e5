------------------------------ MODULE MCService ------------------------------
(***************************************************************************)
(* Service with a few callers.  Its liveness property rules out symmetry.  *)
(***************************************************************************)
EXTENDS Service
=============================================================================
