-------------------------- MODULE SellVolumeFilter --------------------------
(***************************************************************************)
(* SellVolumeFilteringSolver in crates/solver/src/solver.rs: solve drops   *)
(* the limit orders whose volume is below min_value on both sides, then    *)
(* hands the auction to the inner solver.                                  *)
(*                                                                         *)
(* filter_orders runs Vec::retain over the orders in their order; for each *)
(* order it evaluates is_minimum_volume on the buy side and, only if that  *)
(* is false (`||` short-circuits), on the sell side.  is_minimum_volume    *)
(* calls ExternalPrices::get_native_amount, which panics for a token       *)
(* without a price (test_filtering_solver_panics_orders_without_price_     *)
(* estimate); a panic unwinds the whole solve.  Prices and amounts are     *)
(* small integers: native amount = amount * price.                        *)
(***************************************************************************)
EXTENDS Naturals, Sequences

CONSTANTS
  Tokens,       \* token addresses
  Amounts,      \* order amounts to try
  PriceValues,  \* native prices to try
  MinValue,     \* min_value
  MaxOrders     \* bound on the orders of an auction

ASSUME AmountsAssumption == Amounts \subseteq Nat
ASSUME PriceValuesAssumption == PriceValues \subseteq Nat
ASSUME MinValueAssumption == MinValue \in Nat
ASSUME MaxOrdersAssumption == MaxOrders \in Nat

(* A LimitOrder, abstracted to the fields filter_orders reads. *)
LimitOrders == [buyToken : Tokens, buyAmount : Amounts,
                sellToken : Tokens, sellAmount : Amounts]

(* Sequences of at most MaxOrders orders. *)
OrderVectors == UNION {[1..n -> LimitOrders] : n \in 0..MaxOrders}

(* ExternalPrices: a price for some of the tokens. *)
PriceMaps == UNION {[S -> PriceValues] : S \in SUBSET Tokens}

VARIABLES
  prices,   \* auction.external_prices
  input,    \* auction.orders as solve received them
  i,        \* next index retain looks at
  kept,     \* orders retained so far
  status,   \* "filtering" | "filtered" | "solved" | "panic"
  handed    \* orders the inner solver received

vars == <<prices, input, i, kept, status, handed>>

TypeOK ==
  /\ prices \in PriceMaps
  /\ input \in OrderVectors
  /\ i \in 1..(Len(input) + 1)
  /\ kept \in Seq(LimitOrders)
  /\ status \in {"filtering", "filtered", "solved", "panic"}
  /\ handed \in Seq(LimitOrders)

Init ==
  /\ prices \in PriceMaps
  /\ input \in OrderVectors
  /\ i = 1
  /\ kept = << >>
  /\ status = "filtering"
  /\ handed = << >>

(* get_native_amount(token, amount) >= min_value, for a priced token. *)
IsMinimumVolume(token, amount) == amount * prices[token] >= MinValue

(***************************************************************************)
(* The retain closure on one order: "panic" when get_native_amount meets a *)
(* token without price, otherwise whether the order stays.                 *)
(***************************************************************************)
Verdict(o) ==
  IF o.buyToken \notin DOMAIN prices THEN "panic"
  ELSE IF IsMinimumVolume(o.buyToken, o.buyAmount) THEN "keep"
  ELSE IF o.sellToken \notin DOMAIN prices THEN "panic"
  ELSE IF IsMinimumVolume(o.sellToken, o.sellAmount) THEN "keep"
  ELSE "drop"

(* Faulty variant: a hand-written retain that skips the order after a removed one. *)
RetainSkipping ==
  /\ status = "filtering"
  /\ i <= Len(input)
  /\ CASE Verdict(input[i]) = "panic" -> status' = "panic" /\ UNCHANGED <<i, kept>>
       [] Verdict(input[i]) = "keep" ->
            kept' = Append(kept, input[i]) /\ i' = i + 1 /\ UNCHANGED status
       [] OTHER -> /\ i' = IF i + 2 <= Len(input) + 1 THEN i + 2 ELSE i + 1
                   /\ UNCHANGED <<kept, status>>
  /\ UNCHANGED <<prices, input, handed>>

(* orders.retain(...): one order examined. *)
Retain ==
  /\ status = "filtering"
  /\ i <= Len(input)
  /\ CASE Verdict(input[i]) = "panic" -> status' = "panic" /\ UNCHANGED <<i, kept>>
       [] Verdict(input[i]) = "keep" ->
            kept' = Append(kept, input[i]) /\ i' = i + 1 /\ UNCHANGED status
       [] OTHER -> i' = i + 1 /\ UNCHANGED <<kept, status>>
  /\ UNCHANGED <<prices, input, handed>>

(* retain has looked at every order: auction.orders = the retained ones. *)
RetainDone ==
  /\ status = "filtering"
  /\ i = Len(input) + 1
  /\ status' = "filtered"
  /\ UNCHANGED <<prices, input, i, kept, handed>>

(* self.inner.solve(auction): the inner solver gets the filtered orders. *)
InnerSolve ==
  /\ status = "filtered"
  /\ handed' = kept
  /\ status' = "solved"
  /\ UNCHANGED <<prices, input, i, kept>>

Next == Retain \/ RetainDone \/ InnerSolve

Spec == Init /\ [][Next]_vars

-----------------------------------------------------------------------------
(* Properties. *)

(* Reference: an order has enough volume on a side whose token is priced. *)
HasVolume(o) ==
  \/ o.buyToken \in DOMAIN prices /\ o.buyAmount * prices[o.buyToken] >= MinValue
  \/ o.sellToken \in DOMAIN prices /\ o.sellAmount * prices[o.sellToken] >= MinValue

(* Reference: the indices among the first n orders that have enough volume. *)
KeptIndices(n) == {k \in 1..n : HasVolume(input[k])}

(***************************************************************************)
(* Reference without recursion: out lists input's orders at the indices    *)
(* KeptIndices(n), in increasing order, each once.  The increasing index   *)
(* map is unique, so IsFilterOf(out, Len(input)) says                      *)
(* out = SelectSeq(input, HasVolume).                                      *)
(***************************************************************************)
IsFilterOf(out, n) ==
  \E f \in [1..Len(out) -> 1..n] :
    /\ \A j1, j2 \in 1..Len(out) : j1 < j2 => f[j1] < f[j2]
    /\ \A j \in 1..Len(out) : out[j] = input[f[j]]
    /\ {f[j] : j \in 1..Len(out)} = KeptIndices(n)

(***************************************************************************)
(* The doc comment of SellVolumeFilteringSolver, by indices: the inner     *)
(* solver receives, in their original order and each once, exactly the     *)
(* orders with enough volume on either side.                               *)
(***************************************************************************)
FilterKeepsExactly == status = "solved" => IsFilterOf(handed, Len(input))

=============================================================================
