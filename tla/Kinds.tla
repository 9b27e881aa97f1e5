-------------------------------- MODULE Kinds --------------------------------
(***************************************************************************)
(* The discriminants of internal/chain/outpoint.go: how an output came     *)
(* into being, and how it left the UTXO set.                               *)
(***************************************************************************)
KindRegular == 0
KindCoinbase == 1
KindDeposit == 2
KindMarketFunds == 3
KindPayout == 4

SpendRegular == 0
SpendWithdrawal == 1
SpendMarket == 2

OutPointOf(kind, source, vout) == [kind |-> kind, source |-> source, vout |-> vout]
=============================================================================
