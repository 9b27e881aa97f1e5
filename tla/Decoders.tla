------------------------------ MODULE Decoders ------------------------------
(***************************************************************************)
(* internal/chain: what each chain's Decoder makes of an output content.   *)
(*                                                                         *)
(* A content is the JSON of an externally tagged enum: a bare tag, or an   *)
(* object whose keys are tags.  A payload has a form ("number", "object",  *)
(* "null", or "none" for the payload a bare tag does not have) and its     *)
(* numeric fields; a number is the one field "sats".  MaxInt64 stands for  *)
(* 2^63 - 1, and a uint64 is a number below Word.                          *)
(***************************************************************************)
EXTENDS Integers

CONSTANTS MaxInt64, Inputs

Word == 2 * MaxInt64 + 2

\* The JSON a node can send: amounts are whole numbers, null has no fields, and a
\* bare tag is one tag without a payload.
ASSUME DecodersAssumption ==
    /\ MaxInt64 \in Nat
    /\ \A raw \in Inputs :
          /\ raw.bare \in BOOLEAN
          /\ raw.bare => \E tag \in DOMAIN raw.keys :
                            DOMAIN raw.keys = {tag} /\ raw.keys[tag].form = "none"
          /\ \A tag \in DOMAIN raw.keys :
                /\ \A f \in DOMAIN raw.keys[tag].fields : raw.keys[tag].fields[f] \in Nat
                /\ raw.keys[tag].form = "null" => DOMAIN raw.keys[tag].fields = {}

Err == [ok |-> FALSE, value |-> 0, type |-> "none"]
Content(value, type) == [ok |-> TRUE, value |-> value, type |-> type]

\* The Go types a payload is read into, with their uint64 fields.
number == [form |-> "number", fields |-> {"sats"}]
withdrawal == [form   |-> "object",
               fields |-> {"value", "main_fee", "value_sats", "main_fee_sats"}]
swapPending == [form |-> "object", fields |-> {"value", "value_sats"}]
marketFunds == [form |-> "object", fields |-> {"amount"}]

\* json.Unmarshal into such a type: null changes nothing, a field the type does
\* not have is ignored, and a number that is no uint64 is an error.
Unmarshals(p, type) ==
    \/ p.form = "null"
    \/ /\ p.form = type.form
       /\ \A f \in DOMAIN p.fields \cap type.fields : p.fields[f] < Word

Field(p, f) == IF f \in DOMAIN p.fields THEN p.fields[f] ELSE 0

larger(a, b) == IF a > b THEN a ELSE b

toSats(v, type) == IF v > MaxInt64 THEN Err ELSE Content(v, type)

\* Fault variant: a sum that wraps is not noticed.
withdrawalValue_Wraps(p) ==
    toSats((larger(Field(p, "value"), Field(p, "value_sats"))
            + larger(Field(p, "main_fee"), Field(p, "main_fee_sats"))) % Word, "withdrawal")

\* A withdrawal takes its payout and its mainchain fee, under either spelling.
withdrawalValue(p) ==
    LET amount == larger(Field(p, "value"), Field(p, "value_sats"))
        fee    == larger(Field(p, "main_fee"), Field(p, "main_fee_sats"))
        total  == (amount + fee) % Word
    IN  IF total < amount THEN Err ELSE toSats(total, "withdrawal")

valueOf(p) == toSats(Field(p, "sats"), "value")

-----------------------------------------------------------------------------
(***************************************************************************)
(* The chains whose content is a struct with one pointer per variant: a    *)
(* key the struct does not have is ignored, and of several the first wins. *)
(***************************************************************************)
StructDecodes(raw, struct) ==
    /\ ~raw.bare
    /\ \A tag \in DOMAIN struct \cap DOMAIN raw.keys : Unmarshals(raw.keys[tag], struct[tag])

\* The pointer of the variant is not nil.
Has(raw, tag) == tag \in DOMAIN raw.keys /\ raw.keys[tag].form # "null"

thunder(raw) ==
    IF ~StructDecodes(raw, [Value |-> number, Withdrawal |-> withdrawal]) THEN Err
    ELSE IF Has(raw, "Value") THEN valueOf(raw.keys["Value"])
    ELSE IF Has(raw, "Withdrawal") THEN withdrawalValue(raw.keys["Withdrawal"])
    ELSE Err

coinshift(raw) ==
    LET swap == raw.keys["SwapPending"] IN
    IF ~StructDecodes(raw, [Value |-> number, SwapPending |-> swapPending,
                            Withdrawal |-> withdrawal]) THEN Err
    ELSE IF Has(raw, "Value") THEN valueOf(raw.keys["Value"])
    ELSE IF Has(raw, "SwapPending")
         THEN toSats(larger(Field(swap, "value"), Field(swap, "value_sats")), "swap_pending")
    ELSE IF Has(raw, "Withdrawal") THEN withdrawalValue(raw.keys["Withdrawal"])
    ELSE Err

-----------------------------------------------------------------------------
(***************************************************************************)
(* The chains that read the one tag with chain.Variant first.              *)
(***************************************************************************)
VariantOK(raw) == raw.bare \/ \E tag \in DOMAIN raw.keys : DOMAIN raw.keys = {tag}

Variant(raw) == CHOOSE tag \in DOMAIN raw.keys : TRUE

Decoded(p, type, result) == IF Unmarshals(p, type) THEN result ELSE Err

\* What the two chains with the spellings of a filled output have in common; held
\* gives the type of each variant that holds no bitcoin.
FilledOutput(raw, held) ==
    LET tag == Variant(raw)
        p   == raw.keys[tag]
    IN  IF ~VariantOK(raw) THEN Err
        ELSE IF tag = "BitcoinSats" THEN Decoded(p, number, valueOf(p))
        ELSE IF tag \in {"Withdrawal", "BitcoinWithdrawal"}
             THEN Decoded(p, withdrawal, withdrawalValue(p))
        ELSE IF tag \in DOMAIN held THEN Content(0, held[tag])
        ELSE Err

bitnames(raw) ==
    FilledOutput(raw, [BitName |-> "bitname", BitNameReservation |-> "bitname_reservation"])

bitassets(raw) ==
    FilledOutput(raw, [BitAsset |-> "bitasset", BitAssetControl |-> "bitasset_control",
                       BitAssetReservation |-> "bitasset_reservation",
                       DutchAuctionReceipt |-> "dutch_auction_receipt"])

marketFundsValue(p) ==
    IF "amount" \notin DOMAIN p.fields THEN Err
    ELSE toSats(p.fields["amount"],
                IF Field(p, "is_fee") = 1 THEN "market_author_fee" ELSE "market_treasury")

truthcoin(raw) ==
    LET tag == Variant(raw)
        p   == raw.keys[tag]
    IN  IF ~VariantOK(raw) THEN Err
        ELSE IF tag = "Value" THEN Decoded(p, number, valueOf(p))
        ELSE IF tag = "Withdrawal" THEN Decoded(p, withdrawal, withdrawalValue(p))
        ELSE IF tag = "MarketFunds" THEN Decoded(p, marketFunds, marketFundsValue(p))
        ELSE Err

\* chain.Lookup, after the chains have registered; photon and zside read what
\* thunder reads.
Decoder(chain, raw) ==
    CASE chain \in {"thunder", "photon", "zside"} -> thunder(raw)
      [] chain = "coinshift" -> coinshift(raw)
      [] chain = "bitnames"  -> bitnames(raw)
      [] chain = "bitassets" -> bitassets(raw)
      [] chain = "truthcoin" -> truthcoin(raw)

Chain == {"thunder", "photon", "zside", "coinshift", "bitnames", "bitassets", "truthcoin"}

-----------------------------------------------------------------------------
VARIABLES
    on,       \* the chain
    input,    \* one content of it
    content   \* what DecodeContent returned

decodersVars == <<on, input, content>>

Undecoded == [ok |-> FALSE, value |-> 0, type |-> "undecoded"]

DecodersInit == on \in Chain /\ input \in Inputs /\ content = Undecoded

DecodeContent ==
    /\ content = Undecoded
    /\ content' = Decoder(on, input)
    /\ UNCHANGED <<on, input>>

DecodersSpec == DecodersInit /\ [][DecodeContent]_decodersVars

-----------------------------------------------------------------------------
(***************************************************************************)
(* What the comments of the decoders say of a content, in exact numbers.   *)
(***************************************************************************)
Worth(tag, p) ==
    CASE tag \in {"Value", "BitcoinSats"} -> Field(p, "sats")
      [] tag \in {"Withdrawal", "BitcoinWithdrawal"} ->
            larger(Field(p, "value"), Field(p, "value_sats"))
            + larger(Field(p, "main_fee"), Field(p, "main_fee_sats"))
      [] tag = "SwapPending" -> larger(Field(p, "value"), Field(p, "value_sats"))
      [] tag = "MarketFunds" -> Field(p, "amount")
      [] OTHER -> 0

\* The variants with bitcoin in them that a chain writes, and their forms.
Bitcoin(chain) ==
    CASE chain \in {"thunder", "photon", "zside"} ->
            [Value |-> "number", Withdrawal |-> "object"]
      [] chain = "coinshift" ->
            [Value |-> "number", Withdrawal |-> "object", SwapPending |-> "object"]
      [] chain = "truthcoin" ->
            [Value |-> "number", Withdrawal |-> "object", MarketFunds |-> "object"]
      [] OTHER ->
            [BitcoinSats |-> "number", Withdrawal |-> "object", BitcoinWithdrawal |-> "object"]

\* The content is one that the chain writes for variant tag.
Writes(chain, raw, tag) ==
    /\ DOMAIN raw.keys = {tag} /\ tag \in DOMAIN Bitcoin(chain)
    /\ raw.keys[tag].form = Bitcoin(chain)[tag]
    /\ tag = "MarketFunds" => "amount" \in DOMAIN raw.keys[tag].fields

\* A coin is indexed with what its content is worth, or its block is refused.  On
\* every chain and for all amounts, no sum that wraps and no conversion to int64
\* gives a coin another value, and a worth that fits the column is not refused.
ExactOrRefused ==
    content # Undecoded =>
        /\ content.ok =>
              /\ content.value \in 0..MaxInt64
              /\ \E tag \in DOMAIN input.keys : content.value = Worth(tag, input.keys[tag])
        /\ \A tag \in DOMAIN input.keys :
              Writes(on, input, tag) =>
                  (content.ok <=> Worth(tag, input.keys[tag]) <= MaxInt64)
=============================================================================
