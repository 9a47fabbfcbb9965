------------------------- MODULE AuctionStoreProofs -------------------------
(***************************************************************************)
(* Proofs about the current-auction table, for any number of concurrent    *)
(* replace_current_auction calls and any bound on the id sequence.         *)
(***************************************************************************)
EXTENDS AuctionStore, TLAPS

(***************************************************************************)
(* The inductive invariant.  A writer about to commit holds the id its     *)
(* INSERT returned: that is why a commit always leaves a row behind, even  *)
(* when the DELETE of the same transaction removed every row.              *)
(***************************************************************************)
IInv ==
  /\ TypeOK
  /\ \A w \in Writers : wpc[w] = "commit" => inserted[w] \in Ids
  /\ NeverEmptyAfterSave

LEMMA InitIInv == Init => IInv
BY MaxIdAssumption DEF Init, IInv, TypeOK, NeverEmptyAfterSave, Ids, None, PcValues

LEMMA NextIInv == IInv /\ [Next]_vars => IInv'
<1> SUFFICES ASSUME IInv, [Next]_vars PROVE IInv'
  OBVIOUS
<1> USE MaxIdAssumption
<1>1. ASSUME NEW w \in Writers, Begin(w) PROVE IInv'
  BY <1>1 DEF Begin, IInv, TypeOK, NeverEmptyAfterSave, PcValues
<1>2. ASSUME NEW w \in Writers, DeleteStart(w) PROVE IInv'
  BY <1>2 DEF DeleteStart, IInv, TypeOK, NeverEmptyAfterSave, PcValues
<1>3. ASSUME NEW w \in Writers, DeleteEnd(w) PROVE IInv'
  BY <1>3 DEF DeleteEnd, IInv, TypeOK, NeverEmptyAfterSave, PcValues
<1>4. ASSUME NEW w \in Writers, Insert(w) PROVE IInv'
  BY <1>4 DEF Insert, IInv, TypeOK, NeverEmptyAfterSave, PcValues, Ids, None
<1>5. ASSUME NEW w \in Writers, Commit(w) PROVE IInv'
  <2>1. inserted[w] \in Ids
    BY <1>5 DEF Commit, IInv
  <2>2. rows' \in SUBSET Ids /\ rows' # {}
    BY <1>5, <2>1 DEF Commit, IInv, TypeOK
  <2>3. QED
    BY <1>5, <2>1, <2>2 DEF Commit, IInv, TypeOK, NeverEmptyAfterSave, PcValues, Ids,
                           None
<1>6. ASSUME NEW w \in Writers, Rollback(w) PROVE IInv'
  BY <1>6 DEF Rollback, IInv, TypeOK, NeverEmptyAfterSave, PcValues, None
<1>7. CASE Load
  BY <1>7 DEF Load, IInv, TypeOK, NeverEmptyAfterSave, txn, Ids, None
<1>8. CASE UNCHANGED vars
  BY <1>8 DEF vars, IInv, TypeOK, NeverEmptyAfterSave
<1>9. QED
  BY <1>1, <1>2, <1>3, <1>4, <1>5, <1>6, <1>7, <1>8 DEF Next

THEOREM IInvariant == Spec => []IInv
BY InitIInv, NextIInv, PTL DEF Spec

(***************************************************************************)
(* Type correctness of the auction table model.                            *)
(***************************************************************************)
THEOREM TypeCorrect == Spec => []TypeOK
BY IInvariant, PTL DEF IInv

(***************************************************************************)
(* Once replace_current_auction has committed, the auction table is never  *)
(* empty again, whichever writers interleave or roll back: the delete and  *)
(* the insert of a replace commit together.                                *)
(***************************************************************************)
THEOREM NeverEmptyAfterSaveHolds == Spec => []NeverEmptyAfterSave
BY IInvariant, PTL DEF IInv
-----------------------------------------------------------------------------
(***************************************************************************)
(* One writer: the autopilot is the only caller of                         *)
(* replace_current_auction.  With two concurrent callers the table can    *)
(* hold two rows (MCAuctionStoreTwoWriters), so the refinement below       *)
(* assumes a single writer, for any MaxId.                                 *)
(*                                                                         *)
(* The strengthening: the sequence is ahead of every id already drawn, and *)
(* the id a writer holds was drawn after the last committed one.           *)
(***************************************************************************)
IdsInv ==
  /\ IInv
  /\ lastId < nextId
  /\ \A v \in Writers :
       inserted[v] \in Ids => lastId < inserted[v] /\ inserted[v] < nextId

(* With one writer, the strengthening holds initially and is kept by every step. *)
LEMMA IdsInvInductive ==
  ASSUME NEW w, Writers = {w}
  PROVE  /\ Init => IdsInv
         /\ IdsInv /\ [Next]_vars => IdsInv'
<1> USE MaxIdAssumption
<1>1. Init => IdsInv
  BY InitIInv DEF Init, IdsInv, Ids, None
<1>2. ASSUME IdsInv, [Next]_vars PROVE IdsInv'
  <2>1. IInv'
    BY <1>2, NextIInv DEF IdsInv
  <2>2. CASE Insert(w)
    BY <1>2, <2>1, <2>2 DEF Insert, IdsInv, IInv, TypeOK, Ids, None
  <2>3. CASE Commit(w)
    <3>1. inserted[w] \in Ids
      BY <1>2, <2>3 DEF Commit, IdsInv, IInv
    <3>2. lastId' < nextId'
      BY <1>2, <2>3, <3>1 DEF Commit, IdsInv
    <3>3. inserted'[w] = None
      BY <1>2, <2>3 DEF Commit, IdsInv, IInv, TypeOK
    <3>4. QED
      BY <2>1, <3>2, <3>3 DEF IdsInv, Ids, None
  <2>4. CASE Rollback(w)
    BY <1>2, <2>1, <2>4 DEF Rollback, IdsInv, IInv, TypeOK, Ids, None
  <2>5. CASE Begin(w) \/ DeleteStart(w) \/ DeleteEnd(w) \/ Load \/ UNCHANGED vars
    BY <1>2, <2>1, <2>5 DEF Begin, DeleteStart, DeleteEnd, Load, vars, txn, IdsInv
  <2>6. QED
    BY <1>2, <2>2, <2>3, <2>4, <2>5 DEF Next
<1>3. QED
  BY <1>1, <1>2

-----------------------------------------------------------------------------
(***************************************************************************)
(* Refinement of AuctionSlot, for the single autopilot.  The strengthening *)
(* says that the committed rows are exactly the last committed auction,    *)
(* and that no row changes between the DELETE's snapshot and the commit:   *)
(* the DELETE started on the current rows and locked all of them, so the   *)
(* commit replaces the whole table by the inserted row.                    *)
(***************************************************************************)
SlotInv ==
  /\ IdsInv
  /\ rows = IF lastId = None THEN {} ELSE {lastId}
  /\ \A v \in Writers : wpc[v] = "deleting" => snap[v] = rows
  /\ \A v \in Writers : wpc[v] \in {"insert", "commit"} => locked[v] = rows

(* With one writer, SlotInv holds initially and is kept by every step. *)
LEMMA SlotInvInductive ==
  ASSUME NEW w, Writers = {w}
  PROVE  /\ Init => SlotInv
         /\ SlotInv /\ [Next]_vars => SlotInv'
<1> USE MaxIdAssumption
<1>1. Init => SlotInv
  BY IdsInvInductive DEF Init, SlotInv, None
<1>2. ASSUME SlotInv, [Next]_vars PROVE SlotInv'
  <2>1. IdsInv'
    BY <1>2, IdsInvInductive DEF SlotInv
  <2>2. CASE Begin(w)
    BY <1>2, <2>1, <2>2 DEF Begin, SlotInv
  <2>3. CASE DeleteStart(w)
    BY <1>2, <2>1, <2>3 DEF DeleteStart, SlotInv, IdsInv, IInv, TypeOK
  <2>4. CASE DeleteEnd(w)
    <3>1. snap[w] = rows
      BY <1>2, <2>4 DEF DeleteEnd, SlotInv
    <3>2. locked'[w] = rows'
      BY <1>2, <2>4, <3>1 DEF DeleteEnd, SlotInv, IdsInv, IInv, TypeOK
    <3>3. QED
      BY <1>2, <2>1, <2>4, <3>2 DEF DeleteEnd, SlotInv, IdsInv, IInv, TypeOK
  <2>5. CASE Insert(w)
    BY <1>2, <2>1, <2>5 DEF Insert, SlotInv
  <2>6. CASE Commit(w)
    <3>1. locked[w] = rows /\ inserted[w] \in Ids
      BY <1>2, <2>6 DEF Commit, SlotInv, IdsInv, IInv
    <3>2. rows' = {lastId'}
      BY <2>6, <3>1 DEF Commit
    <3>3. lastId' # None
      BY <2>6, <3>1 DEF Commit, Ids, None
    <3>4. wpc'[w] = "idle"
      BY <1>2, <2>6 DEF Commit, SlotInv, IdsInv, IInv, TypeOK
    <3>5. QED
      BY <2>1, <3>2, <3>3, <3>4 DEF SlotInv
  <2>7. CASE Rollback(w)
    <3>1. wpc'[w] = "idle"
      BY <1>2, <2>7 DEF Rollback, SlotInv, IdsInv, IInv, TypeOK
    <3>2. QED
      BY <1>2, <2>1, <2>7, <3>1 DEF Rollback, SlotInv
  <2>8. CASE Load \/ UNCHANGED vars
    BY <1>2, <2>1, <2>8 DEF Load, vars, txn, SlotInv
  <2>9. QED
    BY <1>2, <2>2, <2>3, <2>4, <2>5, <2>6, <2>7, <2>8 DEF Next
<1>3. QED
  BY <1>1, <1>2

(***************************************************************************)
(* Spec sections 4.8 and 8, for the single autopilot: the auction table    *)
(* implements the single slot.  replace_current_auction changes what a     *)
(* reader can see only at its commit, and then to exactly one auction with *)
(* a larger id; most_recent_auction returns the auction in the slot.       *)
(***************************************************************************)
THEOREM RefinesAuctionSlot ==
  ASSUME NEW w, Writers = {w}
  PROVE  Spec => AuctionSlotRefined
<1> USE MaxIdAssumption
<1>1. Init => Slot!Init
  BY DEF Init, Slot!Init, None, Slot!None
<1>2. SlotInv /\ [Next]_vars => [Slot!Next]_Slot!avars
  <2> SUFFICES ASSUME SlotInv, [Next]_vars PROVE [Slot!Next]_Slot!avars
    OBVIOUS
  <2>1. CASE Commit(w)
    <3>1. locked[w] = rows /\ inserted[w] \in Ids
      BY <2>1 DEF Commit, SlotInv, IdsInv, IInv
    <3>2. \A r \in rows : r < inserted[w]
      BY <3>1 DEF SlotInv, IdsInv, Ids, None
    <3>3. rows' = {inserted[w]} /\ UNCHANGED loaded
      BY <2>1, <3>1 DEF Commit
    <3>4. Slot!Replace(inserted[w])
      BY <3>2, <3>3 DEF Slot!Replace
    <3>5. QED
      BY <3>1, <3>4 DEF Slot!Next, Slot!Ids, Ids
  <2>2. CASE Load
    <3>1. Slot!Read
      BY <2>2 DEF Load, Slot!Read, Slot!None, None
    <3>2. QED
      BY <3>1 DEF Slot!Next
  <2>3. CASE Begin(w) \/ DeleteStart(w) \/ DeleteEnd(w) \/ Insert(w) \/ Rollback(w)
                \/ UNCHANGED vars
    BY <2>3 DEF Begin, DeleteStart, DeleteEnd, Insert, Rollback, vars, Slot!avars
  <2>4. QED
    BY <2>1, <2>2, <2>3 DEF Next
<1>3. QED
  BY <1>1, <1>2, SlotInvInductive, PTL DEF Spec, AuctionSlotRefined, Slot!Spec

=============================================================================
