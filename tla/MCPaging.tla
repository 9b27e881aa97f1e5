------------------------------ MODULE MCPaging ------------------------------
(***************************************************************************)
(* The walks of module Paging over branch b of MCStore.  Every coin pays   *)
(* one address, so that b1 holds two rows of its history, t1 and t2, and   *)
(* b2 holds r and a row that is a bundle spend.                            *)
(***************************************************************************)
EXTENDS MCStore, Paging

MCPagingOwner == [o \in MCOutPoint |-> "x"]
MCPagingBlocks == {"g", "b1", "b2"}
MCPagingWrite == [b \in MCPagingBlocks |-> [MCWrite[b] EXCEPT !.main_height = NULL]]
MCPagingBody == [b \in MCBlockHash |-> MCPrepared[b].txs]

MCPagingRank == ("r" :> 1 @@ "s" :> 2 @@ "t1" :> 3 @@ "t2" :> 4 @@ "m6" :> 5)
=============================================================================
