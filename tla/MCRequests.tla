----------------------------- MODULE MCRequests -----------------------------
(***************************************************************************)
(* The requests of modules Api and Paging over the blocks of MCStore.      *)
(* Address x is paid by the genesis coinbase, by the deposit, by t2 and by *)
(* s, and address y by t1 and by r, so that each address receives, spends  *)
(* and has change.  b1 holds two rows of the history of each, t1 and t2,   *)
(* and b2 holds r for y and a bundle spend for x.                          *)
(***************************************************************************)
EXTENDS MCStore, Requests

MCOwner == (CG :> "x" @@ D :> "x" @@ T1 :> "y" @@ T2 :> "x" @@ R :> "y" @@ S :> "x")

MCBody == [b \in MCBlockHash |-> MCPrepared[b].txs]

\* No answer of these handlers holds a mainchain height, so none is known.
MCApiWrite == [b \in MCBlockHash |-> [MCWrite[b] EXCEPT !.main_height = NULL]]

MCRank == ("r" :> 1 @@ "s" :> 2 @@ "t1" :> 3 @@ "t2" :> 4 @@ "m6" :> 5)
=============================================================================
