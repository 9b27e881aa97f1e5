----------------------------- MODULE MCDecoders -----------------------------
(***************************************************************************)
(* Contents for Decoders with an int64 of three bits: every variant that   *)
(* some chain reads and one that none does, with payloads of every form,   *)
(* both spellings of a withdrawal, amounts on both sides of each limit,    *)
(* and contents that name two variants or are a bare tag.                  *)
(***************************************************************************)
EXTENDS Decoders, TLC

Tag == {"Value", "Withdrawal", "SwapPending", "BitcoinSats", "BitcoinWithdrawal",
        "BitName", "BitAsset", "MarketFunds", "Unheard"}

Amounts == {0, 1, MaxInt64, MaxInt64 + 1, Word - 1, Word}

Payload(form, fields) == [form |-> form, fields |-> fields]

Numbers == {Payload("number", [sats |-> n]) : n \in Amounts}
Withdrawals ==
    {Payload("object", f) :
        f \in [{"value", "main_fee"} -> Amounts] \cup [{"value_sats", "main_fee_sats"} -> Amounts]
              \cup [{"value", "value_sats", "main_fee"} -> Amounts]}
Markets == {Payload("object", [amount |-> n, is_fee |-> b]) : n \in Amounts, b \in {0, 1}}
Null == Payload("null", <<>>)

Payloads == Numbers \cup Withdrawals \cup Markets \cup {Null, Payload("object", <<>>)}

One == {[bare |-> FALSE, keys |-> (t :> p)] : t \in Tag, p \in Payloads}
Two == {[bare |-> FALSE, keys |-> (t :> p) @@ (u :> q)] :
           t \in {"Value", "BitcoinSats"}, u \in {"Withdrawal", "SwapPending"},
           p \in Numbers \cup {Null}, q \in {Payload("object", [value |-> n]) : n \in Amounts}}
Bare == {[bare |-> TRUE, keys |-> (t :> Payload("none", <<>>))] : t \in Tag}

MCContents == One \cup Two \cup Bare
=============================================================================
