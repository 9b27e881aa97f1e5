------------------------------- MODULE MCWire -------------------------------
(***************************************************************************)
(* What the index makes of the node's JSON: whole blocks (Preparing),      *)
(* contents of outputs (Decoders) and names of outputs (OutPoints).  The   *)
(* three share no state, so a behaviour reads inputs of one of them, and   *)
(* the variables of the other two keep some first value.                   *)
(***************************************************************************)
EXTENDS MCPrepare, MCDecoders, MCOutPoints

NoBlock == CHOOSE i \in MCRawBlocks : Prepares(i.block, i.index)
NoContent == CHOOSE c \in MCContents : c.bare

BlocksAtRest == given = NoBlock /\ rows = Prepared(Hash, NoBlock.block, NoBlock.index)
ContentsAtRest == on = "thunder" /\ input = NoContent /\ content = Undecoded
OutPointsAtRest == wires = <<>> /\ coins = <<>>

WireInit ==
    \/ PrepareInit /\ ContentsAtRest /\ OutPointsAtRest
    \/ BlocksAtRest /\ DecodersInit /\ OutPointsAtRest
    \/ BlocksAtRest /\ ContentsAtRest /\ OutPointsInit

WireNext ==
    \/ ContentsAtRest /\ wires = <<>> /\ PrepareNext /\ UNCHANGED <<decodersVars, outPointsVars>>
    \/ BlocksAtRest /\ wires = <<>> /\ DecodeContent /\ UNCHANGED <<preparingVars, outPointsVars>>
    \/ wires # <<>> /\ StoreCoins /\ UNCHANGED <<preparingVars, decodersVars>>

WireSpec == WireInit /\ [][WireNext]_<<preparingVars, decodersVars, outPointsVars>>
=============================================================================
