----------------------------- MODULE MCStartup -----------------------------
(***************************************************************************)
(* Three calls of the connector on one database: the run loop of a service *)
(* and a caller of the same process, and another process that is           *)
(* configured for another chain.                                           *)
(***************************************************************************)
EXTENDS Startup, TLC

MCNames == <<"001_initial", "002_mempool", "003_block_mainchain_height">>
MCWanted == ("run" :> "thunder" @@ "caller" :> "thunder" @@ "other" :> "bitnames")
MCOpener == DOMAIN MCWanted
=============================================================================
