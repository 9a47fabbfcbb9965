-------------------------- MODULE OrderMaterialise --------------------------
(***************************************************************************)
(* full_order_into_model_order in crates/autopilot/src/database/auction.rs: *)
(* a stored order row (database::orders::FullOrder, arbitrary-precision    *)
(* decimals and an i64 valid_to) becomes a model Order with U256 amounts   *)
(* and a u32 valid_to, or an error.                                        *)
(*                                                                         *)
(* Widths are scaled down: U256 has U256Size values (2^256 in the code)   *)
(* and u32 has U32Size (2^32), which keeps every boundary (negative,       *)
(* zero, maximum, maximum + 1) while keeping the sets small.  Decimals are *)
(* integers: the stored sums and amounts have no fractional part.          *)
(* Addresses, uid, app data and flags are copied unchanged and are left    *)
(* out.  The signature bytes are abstracted to whether Signature::         *)
(* from_bytes accepts them for the row's scheme.  The module has no state: *)
(* SolvableOrders applies the conversion to every row the query streams.   *)
(***************************************************************************)
EXTENDS Integers

CONSTANTS
  U256Size,      \* how many values the modelled U256 has (2^256)
  U32Size,       \* how many values the modelled u32 has (2^32)
  Decimals,      \* stored decimal values to try
  ValidTos,      \* stored valid_to values to try
  AmountFields   \* the stored amount columns converted with big_decimal_to_u256

U256Max == U256Size - 1
U32Max == U32Size - 1

(* Storage enums and their domain counterparts. *)
DbOrderKinds == {"Buy", "Sell"}
DbSigningSchemes == {"Eip712", "EthSign", "Eip1271", "PreSign"}

(* Stored signature bytes: well formed for the row's scheme, or not. *)
SignatureBytes == {"wellFormed", "malformed"}

(* The stored rows: one per combination of the columns that steer control. *)
FullOrders ==
  [kind : DbOrderKinds, sumBuy : Decimals, sumSell : Decimals, sumFee : Decimals,
   amounts : [AmountFields -> Decimals], validTo : ValidTos,
   signingScheme : DbSigningSchemes, signature : SignatureBytes]

(***************************************************************************)
(* big_decimal_to_u256 (number_conversions, outside src/): Some(x) when    *)
(* the decimal is a non-negative integer below 2^256, None otherwise.      *)
(* An Option is a set: {x} is Some(x), {} is None.                         *)
(***************************************************************************)
BigDecimalToU256(x) == IF x \in 0..U256Max THEN {x} ELSE {}

(* order.valid_to.try_into(): i64 to u32, failing outside its range. *)
ValidToTryInto(v) == IF v \in 0..U32Max THEN {v} ELSE {}

(* signing_scheme_from, order_kind_from: one-to-one renamings. *)
SigningSchemeFrom(s) == s
OrderKindFrom(k) == k

(***************************************************************************)
(* Signature::from_bytes(scheme, bytes) (model crate, outside src/): an    *)
(* error when the bytes are not a signature of that scheme, otherwise a    *)
(* signature whose scheme is the one given (spec section 8).               *)
(***************************************************************************)
SignatureFromBytes(scheme, bytes) ==
  IF bytes = "wellFormed" THEN {[scheme |-> scheme]} ELSE {}

(* The value of Some(x). *)
Unwrap(opt) == CHOOSE x \in opt : TRUE

(* Faulty variant: the executed amount is taken without a range check. *)
ExecutedAmountUnchecked(order) ==
  {IF order.kind = "Buy" THEN order.sumBuy ELSE order.sumSell - order.sumFee}

(* executed_amount: sum_buy for buy orders, sum_sell - sum_fee for sell orders. *)
ExecutedAmount(order) ==
  BigDecimalToU256(IF order.kind = "Buy" THEN order.sumBuy
                   ELSE order.sumSell - order.sumFee)

(* Faulty variant: valid_to converted with a wrapping `as u32`. *)
ValidToWrapping(order) == {order.validTo % (U32Max + 1)}

ValidTo(order) == ValidToTryInto(order.validTo)

Err == [status |-> "err"]

(***************************************************************************)
(* The whole conversion: each `?` in order (executed_amount,               *)
(* full_fee_amount, sell_amount, buy_amount, valid_to, fee_amount, then    *)
(* Signature::from_bytes) turns a None or an Err into an error; the error  *)
(* messages are not modelled.                                              *)
(***************************************************************************)
FullOrderIntoModelOrder(order) ==
  LET executed == ExecutedAmount(order)
      amounts == [f \in AmountFields |-> BigDecimalToU256(order.amounts[f])]
      validTo == ValidTo(order)
      signature == SignatureFromBytes(SigningSchemeFrom(order.signingScheme),
                                      order.signature)
  IN IF \/ executed = {} \/ validTo = {} \/ \E f \in AmountFields : amounts[f] = {}
        \/ signature = {}
       THEN Err
       ELSE [status |-> "ok",
             order |-> [kind |-> OrderKindFrom(order.kind),
                        executedAmount |-> Unwrap(executed),
                        amounts |-> [f \in AmountFields |-> Unwrap(amounts[f])],
                        validTo |-> Unwrap(validTo),
                        signingScheme |-> Unwrap(signature).scheme]]

(* The model Orders a successful conversion yields. *)
ModelOrders ==
  [kind : DbOrderKinds, executedAmount : 0..U256Max,
   amounts : [AmountFields -> 0..U256Max], validTo : 0..U32Max,
   signingScheme : DbSigningSchemes]

(* Reference: a decimal fits the modelled U256. *)
InU256(x) == 0 <= x /\ x < U256Size

(***************************************************************************)
(* Reference: the row cannot become a model Order, because a value does    *)
(* not fit its target type or the signature bytes are malformed.           *)
(***************************************************************************)
BadRow(order) ==
  \/ ~InU256(IF order.kind = "Sell" THEN order.sumSell - order.sumFee ELSE order.sumBuy)
  \/ \E f \in AmountFields : ~InU256(order.amounts[f])
  \/ ~(0 <= order.validTo /\ order.validTo < U32Size)
  \/ order.signature = "malformed"

=============================================================================
