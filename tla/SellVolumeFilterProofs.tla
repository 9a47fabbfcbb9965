----------------------- MODULE SellVolumeFilterProofs -----------------------
(***************************************************************************)
(* Proofs about SellVolumeFilteringSolver::solve, for every set of tokens, *)
(* amounts and prices, every min_value and every number of orders.         *)
(***************************************************************************)
EXTENDS SellVolumeFilter, TLAPS

(***************************************************************************)
(* The inductive invariant.  FilterKeepsExactly speaks of the end of       *)
(* solve; while retain runs, the orders kept so far are the filter of the  *)
(* first i - 1 orders.  A panic ends solve with nothing handed on.         *)
(***************************************************************************)
IInv ==
  /\ TypeOK
  /\ status # "panic" => IsFilterOf(kept, i - 1)
  /\ status \in {"filtered", "solved"} => i = Len(input) + 1
  /\ status = "solved" => handed = kept

(***************************************************************************)
(* The retain closure, when it does not panic, keeps an order exactly when *)
(* it has enough volume: `||` short-circuits only on a side that passes.   *)
(***************************************************************************)
LEMMA VerdictLaw ==
  ASSUME NEW o
  PROVE  /\ Verdict(o) \in {"panic", "keep", "drop"}
         /\ Verdict(o) # "panic" => (Verdict(o) = "keep" <=> HasVolume(o))
BY DEF Verdict, IsMinimumVolume, HasVolume

(* Every auction.orders value is a sequence of orders. *)
LEMMA OrderVectorsAreSeqs ==
  ASSUME NEW s \in OrderVectors
  PROVE  s \in Seq(LimitOrders) /\ Len(s) <= MaxOrders
<1>1. PICK m \in 0..MaxOrders : s \in [1..m -> LimitOrders]
  BY DEF OrderVectors
<1>2. QED
  BY <1>1, MaxOrdersAssumption

(***************************************************************************)
(* Retain keeps order n + 1, which has volume: appending it to the filter  *)
(* of the first n orders gives the filter of the first n + 1.              *)
(***************************************************************************)
LEMMA ExtendFilter ==
  ASSUME NEW out \in Seq(LimitOrders), NEW n \in Nat, IsFilterOf(out, n),
         HasVolume(input[n + 1])
  PROVE  IsFilterOf(Append(out, input[n + 1]), n + 1)
<1>1. PICK f \in [1..Len(out) -> 1..n] :
        /\ \A j1, j2 \in 1..Len(out) : j1 < j2 => f[j1] < f[j2]
        /\ \A j \in 1..Len(out) : out[j] = input[f[j]]
        /\ {f[j] : j \in 1..Len(out)} = KeptIndices(n)
  BY DEF IsFilterOf
<1> DEFINE m == Len(out)
           g == [j \in 1..(m + 1) |-> IF j <= m THEN f[j] ELSE n + 1]
           out2 == Append(out, input[n + 1])
<1>2. /\ Len(out2) = m + 1
      /\ \A j \in 1..m : out2[j] = out[j]
      /\ out2[m + 1] = input[n + 1]
  OBVIOUS
<1>3. g \in [1..Len(out2) -> 1..(n + 1)]
  BY <1>1, <1>2
<1>4. \A j1, j2 \in 1..Len(out2) : j1 < j2 => g[j1] < g[j2]
  BY <1>1, <1>2
<1>5. \A j \in 1..Len(out2) : out2[j] = input[g[j]]
  BY <1>1, <1>2
<1>6. {g[j] : j \in 1..Len(out2)} = KeptIndices(n + 1)
  <2>1. {g[j] : j \in 1..Len(out2)} = {f[j] : j \in 1..m} \cup {n + 1}
    BY <1>2
  <2>2. KeptIndices(n + 1) = KeptIndices(n) \cup {n + 1}
    BY DEF KeptIndices
  <2>3. QED
    BY <1>1, <2>1, <2>2
<1>7. QED
  BY <1>3, <1>4, <1>5, <1>6 DEF IsFilterOf

(***************************************************************************)
(* Retain drops order n + 1, which has no volume: the filter of the first  *)
(* n orders is the filter of the first n + 1.                              *)
(***************************************************************************)
LEMMA SkipFilter ==
  ASSUME NEW out \in Seq(LimitOrders), NEW n \in Nat, IsFilterOf(out, n),
         ~HasVolume(input[n + 1])
  PROVE  IsFilterOf(out, n + 1)
<1>1. PICK f \in [1..Len(out) -> 1..n] :
        /\ \A j1, j2 \in 1..Len(out) : j1 < j2 => f[j1] < f[j2]
        /\ \A j \in 1..Len(out) : out[j] = input[f[j]]
        /\ {f[j] : j \in 1..Len(out)} = KeptIndices(n)
  BY DEF IsFilterOf
<1>2. KeptIndices(n + 1) = KeptIndices(n)
  BY DEF KeptIndices
<1>3. f \in [1..Len(out) -> 1..(n + 1)]
  BY <1>1
<1>4. QED
  BY <1>1, <1>2, <1>3 DEF IsFilterOf

(***************************************************************************)
(* The filter relation reads only the auction's orders and prices, which   *)
(* no step changes.                                                        *)
(***************************************************************************)
LEMMA FilterFrame ==
  ASSUME NEW out, NEW n, UNCHANGED <<prices, input>>
  PROVE  IsFilterOf(out, n)' <=> IsFilterOf(out, n)
BY DEF IsFilterOf, KeptIndices, HasVolume

(* Before retain looks at any order, nothing is kept: the invariant holds. *)
LEMMA InitIInv == Init => IInv
<1> SUFFICES ASSUME Init PROVE IInv
  OBVIOUS
<1>1. IsFilterOf(<< >>, 0)
  <2> DEFINE none == [j \in 1..0 |-> 0]
  <2>1. none \in [1..Len(<< >>) -> 1..0]
    OBVIOUS
  <2>2. {none[j] : j \in 1..Len(<< >>)} = KeptIndices(0)
    BY DEF KeptIndices
  <2>3. \A j \in 1..Len(<< >>) : << >>[j] = input[none[j]]
    OBVIOUS
  <2>4. \E f \in [1..Len(<< >>) -> 1..0] :
          /\ \A j1, j2 \in 1..Len(<< >>) : j1 < j2 => f[j1] < f[j2]
          /\ \A j \in 1..Len(<< >>) : << >>[j] = input[f[j]]
          /\ {f[j] : j \in 1..Len(<< >>)} = KeptIndices(0)
    <3>1. WITNESS none \in [1..Len(<< >>) -> 1..0]
    <3>2. QED
      BY <2>2, <2>3
  <2>5. QED
    BY <2>4 DEF IsFilterOf
<1>2. input \in Seq(LimitOrders)
  BY OrderVectorsAreSeqs DEF Init
<1>3. QED
  BY <1>1, <1>2 DEF Init, IInv, TypeOK

(***************************************************************************)
(* Every step of retain and of solve keeps the invariant.                  *)
(***************************************************************************)
LEMMA NextIInv == IInv /\ [Next]_vars => IInv'
<1> SUFFICES ASSUME IInv, [Next]_vars PROVE IInv'
  OBVIOUS
<1>1. input \in Seq(LimitOrders)
  BY OrderVectorsAreSeqs DEF IInv, TypeOK
<1>2. CASE Retain
  <2> DEFINE o == input[i]
  <2>1. /\ status = "filtering" /\ i \in 1..Len(input) /\ o \in LimitOrders
        /\ kept \in Seq(LimitOrders) /\ IsFilterOf(kept, i - 1)
    BY <1>1, <1>2 DEF Retain, IInv, TypeOK
  <2>2. UNCHANGED <<prices, input, handed>>
    BY <1>2 DEF Retain
  <2>3. CASE Verdict(o) = "panic"
    BY <1>2, <2>1, <2>2, <2>3 DEF Retain, IInv, TypeOK, o
  <2>4. CASE Verdict(o) = "keep"
    <3>1. kept' = Append(kept, o) /\ i' = i + 1 /\ status' = status
      BY <1>2, <2>4 DEF Retain, o
    <3>2. HasVolume(o)
      BY <2>4, VerdictLaw
    <3>3. IsFilterOf(Append(kept, input[(i - 1) + 1]), (i - 1) + 1)
      BY <2>1, <3>2, ExtendFilter
    <3>4. IsFilterOf(kept, i - 1)'
      <4>1. IsFilterOf(kept', i' - 1)
        BY <2>1, <3>1, <3>3 DEF o
      <4>2. QED
        BY <2>2, <4>1 DEF IsFilterOf, KeptIndices, HasVolume
    <3>5. QED
      BY <2>1, <2>2, <3>1, <3>4 DEF IInv, TypeOK
  <2>5. CASE Verdict(o) = "drop"
    <3>1. UNCHANGED <<kept, status>> /\ i' = i + 1
      BY <1>2, <2>5 DEF Retain, o
    <3>2. ~HasVolume(o)
      BY <2>5, VerdictLaw
    <3>3. IsFilterOf(kept, (i - 1) + 1)
      BY <2>1, <3>2, SkipFilter
    <3>4. IsFilterOf(kept, i - 1)'
      <4>1. IsFilterOf(kept', i' - 1)
        BY <2>1, <3>1, <3>3 DEF o
      <4>2. QED
        BY <2>2, <4>1 DEF IsFilterOf, KeptIndices, HasVolume
    <3>5. QED
      BY <2>1, <2>2, <3>1, <3>4 DEF IInv, TypeOK
  <2>6. QED
    BY <2>3, <2>4, <2>5, VerdictLaw
<1>3. CASE RetainDone
  <2>1. IsFilterOf(kept, i - 1)'
    BY <1>3, FilterFrame DEF RetainDone, IInv
  <2>2. QED
    BY <1>3, <2>1 DEF RetainDone, IInv, TypeOK
<1>4. CASE InnerSolve
  <2>1. IsFilterOf(kept, i - 1)'
    BY <1>4, FilterFrame DEF InnerSolve, IInv
  <2>2. QED
    BY <1>4, <2>1 DEF InnerSolve, IInv, TypeOK
<1>5. CASE UNCHANGED vars
  <2>1. status # "panic" => IsFilterOf(kept, i - 1)'
    BY <1>5, FilterFrame DEF vars, IInv
  <2>2. QED
    BY <1>5, <2>1 DEF vars, IInv, TypeOK
<1>6. QED
  BY <1>2, <1>3, <1>4, <1>5 DEF Next

(* The invariant holds in every state of every solve. *)
THEOREM IInvariant == Spec => []IInv
BY InitIInv, NextIInv, PTL DEF Spec

(***************************************************************************)
(* The doc comment of SellVolumeFilteringSolver, for every auction: the    *)
(* inner solver receives exactly the orders with enough volume on either   *)
(* side, in their original order and each once.                            *)
(***************************************************************************)
THEOREM FilterKeepsExactlyHolds == Spec => []FilterKeepsExactly
<1>1. IInv => FilterKeepsExactly
  BY DEF IInv, FilterKeepsExactly
<1>2. QED
  BY <1>1, IInvariant, PTL

=============================================================================
