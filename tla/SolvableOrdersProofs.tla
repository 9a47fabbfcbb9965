------------------------- MODULE SolvableOrdersProofs -------------------------
(***************************************************************************)
(* Proofs about Postgres::solvable_orders and full_order_into_model_order, *)
(* for every width of the modelled U256 and u32, every set of stored rows  *)
(* and every bound on the rows of one query.                               *)
(***************************************************************************)
EXTENDS SolvableOrders, TLAPS

(* The conversion of one stream item. *)
Conv(x) == Row!FullOrderIntoModelOrder(x)

(* The executed amount the spec prescribes for a row. *)
Law(x) == IF x.kind = "Sell" THEN x.sumSell - x.sumFee ELSE x.sumBuy

(* An Option built as IF ok THEN Some(v) ELSE None is None exactly when not ok. *)
LEMMA NoneIff ==
  ASSUME NEW v, NEW ok \in BOOLEAN
  PROVE  (IF ok THEN {v} ELSE {}) = {} <=> ~ok
BY Zenon

(* An integer is in 0..(n - 1) exactly when it lies in [0, n). *)
LEMMA RangeIff ==
  ASSUME NEW v \in Int, NEW n \in Int
  PROVE  v \in 0..(n - 1) <=> 0 <= v /\ v < n
OBVIOUS

(* The value of Some(v) is v. *)
LEMMA UnwrapSome ==
  ASSUME NEW v
  PROVE  Row!Unwrap({v}) = v
BY DEF Row!Unwrap

(* The law's executed amount of a stored row is an integer. *)
LEMMA LawInt ==
  ASSUME NEW x \in Row!FullOrders
  PROVE  Law(x) \in Int
<1>1. x.sumBuy \in Decimals /\ x.sumSell \in Decimals /\ x.sumFee \in Decimals
  BY DEF Row!FullOrders
<1>2. x.sumSell \in Int /\ x.sumFee \in Int /\ x.sumBuy \in Int
  BY <1>1, DataAssumption
<1>3. x.sumSell - x.sumFee \in Int /\ x.sumBuy \in Int
  BY <1>2
<1>4. QED
  BY <1>3 DEF Law

(* executed_amount computes the law's value and converts it to U256. *)
LEMMA ExecutedAmountIs ==
  ASSUME NEW x \in Row!FullOrders
  PROVE  Row!ExecutedAmount(x) = IF Law(x) \in 0..(U256Size - 1) THEN {Law(x)} ELSE {}
BY DEF Row!ExecutedAmount, Row!BigDecimalToU256, Row!U256Max, Law,
       Row!FullOrders, Row!DbOrderKinds

(***************************************************************************)
(* full_order_into_model_order fails exactly on a bad row: each `?` of the *)
(* conversion turns exactly the values that do not fit into U256 or u32,   *)
(* and signature bytes that are not a signature, into an error.            *)
(***************************************************************************)
LEMMA ConvErr ==
  ASSUME NEW x \in Row!FullOrders
  PROVE  Conv(x) = Row!Err <=> Row!BadRow(x)
<1> DEFINE executed == Row!ExecutedAmount(x)
           amounts == [f \in AmountFields |-> Row!BigDecimalToU256(x.amounts[f])]
           validTo == Row!ValidTo(x)
           signature == Row!SignatureFromBytes(Row!SigningSchemeFrom(x.signingScheme),
                                               x.signature)
<1>1. Conv(x) = Row!Err <=>
        \/ executed = {} \/ validTo = {} \/ \E f \in AmountFields : amounts[f] = {}
        \/ signature = {}
  BY DEF Conv, Row!FullOrderIntoModelOrder, Row!Err
<1>2. executed = {} <=> ~Row!InU256(Law(x))
  <2>1. Law(x) \in Int
    BY LawInt
  <2>2. executed = IF Law(x) \in 0..(U256Size - 1) THEN {Law(x)} ELSE {}
    BY ExecutedAmountIs DEF executed
  <2>3. QED
    BY <2>1, <2>2, SizeAssumption, NoneIff, RangeIff DEF Row!InU256
<1>3. validTo = {} <=> ~(0 <= x.validTo /\ x.validTo < U32Size)
  <2>1. x.validTo \in Int
    BY DataAssumption DEF Row!FullOrders
  <2>2. validTo = IF x.validTo \in 0..(U32Size - 1) THEN {x.validTo} ELSE {}
    BY DEF validTo, Row!ValidTo, Row!ValidToTryInto, Row!U32Max
  <2>3. QED
    BY <2>1, <2>2, SizeAssumption, NoneIff, RangeIff
<1>4. ASSUME NEW f \in AmountFields
      PROVE  amounts[f] = {} <=> ~Row!InU256(x.amounts[f])
  <2>1. x.amounts[f] \in Int
    BY DataAssumption DEF Row!FullOrders
  <2>2. amounts[f] = IF x.amounts[f] \in 0..(U256Size - 1) THEN {x.amounts[f]} ELSE {}
    BY DEF amounts, Row!BigDecimalToU256, Row!U256Max
  <2>3. QED
    BY <2>1, <2>2, SizeAssumption, NoneIff, RangeIff DEF Row!InU256
<1>5. signature = {} <=> x.signature = "malformed"
  BY DEF signature, Row!SignatureFromBytes, Row!FullOrders, Row!SignatureBytes
<1>6. QED
  BY <1>1, <1>2, <1>3, <1>4, <1>5 DEF Row!BadRow, Law

(***************************************************************************)
(* A row that converts yields a model Order of the right types, whose      *)
(* executed amount is the law's and whose scheme is the row's.             *)
(***************************************************************************)
LEMMA ConvOk ==
  ASSUME NEW x \in Row!FullOrders, Conv(x) # Row!Err
  PROVE  /\ Conv(x).order \in Row!ModelOrders
         /\ Conv(x).order.executedAmount = Law(x)
<1>1. ~Row!BadRow(x)
  BY ConvErr
<1>2. Law(x) \in 0..(U256Size - 1)
  BY <1>1, LawInt, RangeIff, SizeAssumption DEF Row!BadRow, Row!InU256, Law
<1>3. \A f \in AmountFields : x.amounts[f] \in 0..(U256Size - 1)
  <2>1. \A f \in AmountFields : x.amounts[f] \in Int
    BY DataAssumption DEF Row!FullOrders
  <2>2. QED
    BY <1>1, <2>1, RangeIff, SizeAssumption DEF Row!BadRow, Row!InU256
<1>4. x.validTo \in 0..(U32Size - 1)
  <2>1. x.validTo \in Int
    BY DataAssumption DEF Row!FullOrders
  <2>2. QED
    BY <1>1, <2>1, RangeIff, SizeAssumption DEF Row!BadRow
<1>7. Row!SignatureFromBytes(Row!SigningSchemeFrom(x.signingScheme), x.signature)
        = {[scheme |-> x.signingScheme]}
  BY <1>1 DEF Row!BadRow, Row!SignatureFromBytes, Row!SigningSchemeFrom,
              Row!FullOrders, Row!SignatureBytes
<1>8. Row!Unwrap(Row!SignatureFromBytes(Row!SigningSchemeFrom(x.signingScheme),
                                        x.signature)).scheme = x.signingScheme
  <2>1. Row!Unwrap({[scheme |-> x.signingScheme]}) = [scheme |-> x.signingScheme]
    BY UnwrapSome
  <2>2. QED
    BY <1>7, <2>1
<1>5. Conv(x).order =
        [kind |-> x.kind, executedAmount |-> Law(x),
         amounts |-> [f \in AmountFields |-> x.amounts[f]],
         validTo |-> x.validTo, signingScheme |-> x.signingScheme]
  BY <1>2, <1>3, <1>4, <1>8, ExecutedAmountIs, UnwrapSome
     DEF Conv, Row!FullOrderIntoModelOrder, Row!ValidTo, Row!ValidToTryInto,
         Row!BigDecimalToU256, Row!U256Max, Row!U32Max, Row!OrderKindFrom
<1>6. QED
  BY <1>2, <1>3, <1>4, <1>5, SizeAssumption
     DEF Row!ModelOrders, Row!FullOrders, Row!U256Max, Row!U32Max

(***************************************************************************)
(* The inductive invariant.  The properties only speak of the call's end,  *)
(* so they are not inductive: the invariant says what try_collect has      *)
(* done so far.  The first i - 1 items all converted and orders holds      *)
(* their conversions in order; the stream is exhausted once the latest     *)
(* settlement block is read; a conversion error is on item i, a row that   *)
(* does not convert.                                                       *)
(***************************************************************************)
IInv ==
  /\ TypeOK
  /\ Len(orders) = i - 1
  /\ \A k \in 1..(i - 1) : Converts(items[k]) /\ orders[k] = Conv(items[k]).order
  /\ status \in {"block", "ok"} => i = Len(items) + 1
  /\ status = "convertErr" =>
       i <= Len(items) /\ items[i] # DbError /\ Conv(items[i]) = Row!Err


(***************************************************************************)
(* A stream of at most MaxRows items is a sequence of at most MaxRows.     *)
(***************************************************************************)
LEMMA StreamIsSeq ==
  ASSUME NEW S, NEW s \in BoundedSeq(S, MaxRows)
  PROVE  s \in Seq(S) /\ Len(s) <= MaxRows
<1>1. PICK m \in 0..MaxRows : s \in [1..m -> S]
  BY DEF BoundedSeq, SeqOf
<1>2. s \in Seq(S) /\ Len(s) = m
  BY <1>1, MaxRowsAssumption
<1>3. QED
  BY <1>1, <1>2, MaxRowsAssumption

(***************************************************************************)
(* The call starts with nothing pulled: the invariant holds initially.     *)
(***************************************************************************)
LEMMA InitIInv == Init => IInv
<1> SUFFICES ASSUME Init PROVE IInv
  OBVIOUS
<1>1. items \in Seq(StoredRows \cup {DbError}) /\ Len(items) <= MaxRows
  BY StreamIsSeq DEF Init, Streams
<1>2. QED
  BY <1>1 DEF Init, IInv, TypeOK

(***************************************************************************)
(* Every step of try_collect and of the surrounding call keeps the         *)
(* invariant.                                                              *)
(***************************************************************************)
LEMMA NextIInv == IInv /\ [Next]_vars => IInv'
<1> SUFFICES ASSUME IInv, [Next]_vars PROVE IInv'
  OBVIOUS
<1>1. CASE Begin
  BY <1>1 DEF Begin, IInv, TypeOK
<1>2. CASE Pull
  <2>1. i \in 1..Len(items) /\ items[i] \in StoredRows \cup {DbError}
    BY <1>2 DEF Pull, IInv, TypeOK
  <2>2. CASE items[i] = DbError
    BY <1>2, <2>2 DEF Pull, IInv, TypeOK
  <2>3. CASE items[i] # DbError /\ Conv(items[i]) = Row!Err
    BY <1>2, <2>3 DEF Pull, IInv, TypeOK, Conv
  <2>4. CASE items[i] # DbError /\ Conv(items[i]) # Row!Err
    <3>1. items[i] \in Row!FullOrders
      BY <2>1, <2>4, StoredRowsAssumption
    <3>2. Conv(items[i]).order \in Row!ModelOrders
      BY <3>1, <2>4, ConvOk
    <3>3. /\ orders' = Append(orders, Conv(items[i]).order)
          /\ i' = i + 1 /\ UNCHANGED <<items, status>>
      BY <1>2, <2>4 DEF Pull, Conv
    <3>4. orders' \in Seq(Row!ModelOrders) /\ Len(orders') = i' - 1
      BY <3>2, <3>3 DEF IInv, TypeOK
    <3>5. \A k \in 1..(i' - 1) :
            Converts(items'[k]) /\ orders'[k] = Conv(items'[k]).order
      BY <2>1, <2>4, <3>3 DEF IInv, TypeOK, Converts, Conv
    <3>6. status' = "collecting" /\ i' \in 1..(Len(items') + 1)
      BY <1>2, <2>1, <3>3 DEF Pull
    <3>7. QED
      BY <3>3, <3>4, <3>5, <3>6 DEF IInv, TypeOK
  <2>5. QED
    BY <2>2, <2>3, <2>4
<1>3. CASE Collected
  BY <1>3 DEF Collected, IInv, TypeOK
<1>4. CASE LatestSettlementBlock
  BY <1>4 DEF LatestSettlementBlock, IInv, TypeOK
<1>5. CASE UNCHANGED vars
  BY <1>5 DEF vars, IInv, TypeOK, Converts, Conv
<1>6. QED
  BY <1>1, <1>2, <1>3, <1>4, <1>5 DEF Next


(***************************************************************************)
(* The invariant holds in every state of every behaviour of the call.      *)
(***************************************************************************)
THEOREM IInvariant == Spec => []IInv
BY InitIInv, NextIInv, PTL DEF Spec

(***************************************************************************)
(* Type correctness of solvable_orders: the stream, the cursor of          *)
(* try_collect and the collected model orders keep their types.            *)
(***************************************************************************)
THEOREM TypeCorrect == Spec => []TypeOK
<1>1. IInv => TypeOK
  BY DEF IInv
<1>2. QED
  BY <1>1, IInvariant, PTL

(***************************************************************************)
(* An item before the cursor is a stored row.                              *)
(***************************************************************************)
LEMMA PulledRow ==
  ASSUME IInv, NEW k \in 1..(i - 1)
  PROVE  items[k] \in Row!FullOrders /\ Conv(items[k]) # Row!Err
         /\ orders[k] = Conv(items[k]).order
<1>1. k \in 1..Len(items) /\ items[k] \in StoredRows \cup {DbError}
  BY DEF IInv, TypeOK
<1>2. items[k] # DbError /\ Conv(items[k]) # Row!Err
      /\ orders[k] = Conv(items[k]).order
  BY DEF IInv, Converts, Conv
<1>3. QED
  BY <1>1, <1>2, StoredRowsAssumption

(***************************************************************************)
(* Spec section 4.10, "fail cleanly": when solvable_orders returns Ok, no  *)
(* stream item was a database error or a row that does not convert, and    *)
(* the orders are every row converted, in the order of the query.          *)
(***************************************************************************)
THEOREM NoPartialOrderSetHolds == Spec => []NoPartialOrderSet
<1>1. IInv => NoPartialOrderSet
  <2> SUFFICES ASSUME IInv, status = "ok"
               PROVE  /\ \A k \in 1..Len(items) : Converts(items[k])
                      /\ orders = [k \in 1..Len(items) |-> Conv(items[k]).order]
    BY DEF NoPartialOrderSet, Conv
  <2>1. i = Len(items) + 1 /\ Len(orders) = Len(items)
        /\ orders \in Seq(Row!ModelOrders)
    BY DEF IInv, TypeOK
  <2>2. \A k \in 1..Len(items) : Converts(items[k])
    BY <2>1 DEF IInv
  <2>3. \A k \in 1..Len(items) : orders[k] = Conv(items[k]).order
    BY <2>1 DEF IInv
  <2>4. DOMAIN orders = 1..Len(items)
    BY <2>1
  <2>5. QED
    BY <2>2, <2>3, <2>4, <2>1
<1>2. QED
  BY <1>1, IInvariant, PTL

(***************************************************************************)
(* Spec section 4.10: a row fails to materialise exactly when a decimal    *)
(* does not fit U256, valid_to does not fit 32 bits or the signature bytes *)
(* are malformed.  A call that returns Ok read only good rows; a call that *)
(* fails on a conversion failed on a bad row.                              *)
(***************************************************************************)
THEOREM FailsExactlyOnBadRowHolds == Spec => []FailsExactlyOnBadRow
<1>1. IInv => FailsExactlyOnBadRow
  <2> SUFFICES ASSUME IInv PROVE FailsExactlyOnBadRow
    OBVIOUS
  <2>1. status = "ok" => \A k \in 1..Len(items) : ~Row!BadRow(items[k])
    <3> SUFFICES ASSUME status = "ok", NEW k \in 1..Len(items)
                 PROVE  ~Row!BadRow(items[k])
      OBVIOUS
    <3>1. k \in 1..(i - 1)
      BY DEF IInv, TypeOK
    <3>2. items[k] \in Row!FullOrders /\ Conv(items[k]) # Row!Err
      BY <3>1, PulledRow
    <3>3. QED
      BY <3>2, ConvErr
  <2>2. status = "convertErr" => Row!BadRow(items[i])
    <3> SUFFICES ASSUME status = "convertErr" PROVE Row!BadRow(items[i])
      OBVIOUS
    <3>1. i \in 1..Len(items) /\ items[i] # DbError /\ Conv(items[i]) = Row!Err
      BY DEF IInv, TypeOK
    <3>2. items[i] \in Row!FullOrders
      BY <3>1, StoredRowsAssumption DEF IInv, TypeOK
    <3>3. QED
      BY <3>1, <3>2, ConvErr
  <2>3. QED
    BY <2>1, <2>2 DEF FailsExactlyOnBadRow
<1>2. QED
  BY <1>1, IInvariant, PTL

=============================================================================
