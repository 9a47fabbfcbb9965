----------------------- MODULE CompetitionStoreProofs -----------------------
(***************************************************************************)
(* Proofs about the solver-competition store, for every set of auction ids *)
(* and transaction hashes.                                                 *)
(***************************************************************************)
EXTENDS CompetitionStore, TLAPS

(***************************************************************************)
(* The types are inductive: save writes a record as the json of its row,   *)
(* and load returns what a row's json holds.                               *)
(***************************************************************************)
LEMMA TypeOKInductive ==
  /\ Init => TypeOK
  /\ TypeOK /\ [Next]_vars => TypeOK'
<1> USE NoTxAssumption, AuctionIdsAssumption, LegacyIdsAssumption
<1>1. Init => TypeOK
  BY DEF Init, TypeOK, NoLoad, Rows, JsonValues, LoadResults, DefaultAuctionId
<1>2. ASSUME TypeOK, [Next]_vars PROVE TypeOK'
  <2>1. ASSUME NEW r \in Records, Save(r) PROVE TypeOK'
    <3>1. RowOf(r) \in Rows
      BY DEF RowOf, Rows, Records, JsonValues
    <3>2. QED
      BY <1>2, <2>1, <3>1 DEF Save, TypeOK
  <2>2. ASSUME NEW i \in Identifiers, Load(i) PROVE TypeOK'
    <3>1. CASE Matching(i) = {} /\ lastLoad' = NotFound(i)
      BY <1>2, <2>2, <3>1 DEF Load, NotFound, TypeOK, LoadResults, JsonValues,
                            DefaultAuctionId
    <3>2. ASSUME NEW row \in Matching(i),
                 lastLoad' = [ident |-> i, found |-> TRUE, record |-> RecordOf(row)]
          PROVE TypeOK'
      <4>1. row \in Rows
        BY <1>2 DEF Matching, TypeOK
      <4>2. QED
        BY <1>2, <2>2, <3>2, <4>1 DEF Load, TypeOK, LoadResults, RecordOf, Rows
    <3>3. QED
      BY <2>2, <3>1, <3>2 DEF Load
  <2>3. CASE UNCHANGED vars
    BY <1>2, <2>3 DEF vars, TypeOK
  <2>4. QED
    BY <1>2, <2>1, <2>2, <2>3 DEF Next
<1>3. QED
  BY <1>1, <1>2

(***************************************************************************)
(* Type correctness of the solver-competition store model.                 *)
(***************************************************************************)
THEOREM TypeCorrect == Spec => []TypeOK
BY TypeOKInductive, PTL DEF Spec
-----------------------------------------------------------------------------
(***************************************************************************)
(* Every record whose save returned Ok(()) has its row in the table: the   *)
(* insert lands before the acknowledgement, and no operation deletes a row.*)
(***************************************************************************)
AckedStored == \A r \in acked : RowOf(r) \in table

(* The stored acknowledgements hold initially and after every step. *)
LEMMA AckedStoredInductive ==
  /\ Init => AckedStored
  /\ AckedStored /\ [Next]_vars => AckedStored'
<1>1. Init => AckedStored
  BY DEF Init, AckedStored
<1>2. ASSUME AckedStored, [Next]_vars PROVE AckedStored'
  <2>1. ASSUME NEW r \in Records, Save(r) PROVE AckedStored'
    BY <1>2, <2>1 DEF Save, AckedStored
  <2>2. ASSUME NEW i \in Identifiers, Load(i) PROVE AckedStored'
    BY <1>2, <2>2 DEF Load, AckedStored
  <2>3. CASE UNCHANGED vars
    BY <1>2, <2>3 DEF vars, AckedStored
  <2>4. QED
    BY <1>2, <2>1, <2>2, <2>3 DEF Next
<1>3. QED
  BY <1>1, <1>2

(***************************************************************************)
(* Spec section 4.9: load returns NotFound only for a key that no          *)
(* acknowledged save carried, looked up by id or by transaction hash,      *)
(* whatever the legacy rows, lost acknowledgements and interleavings.      *)
(***************************************************************************)
THEOREM NotFoundOnlyIfAbsentHolds == Spec => NotFoundOnlyIfAbsent
<1> DEFINE Absent ==
      \A r \in acked :
        IF lastLoad'.ident.by = "id" THEN r.auctionId # lastLoad'.ident.key
                                     ELSE r.tx # lastLoad'.ident.key
           NotFoundStep ==
      lastLoad' # NoLoad /\ ~lastLoad'.found /\ UNCHANGED <<table, acked>>
<1>1. ASSUME AckedStored, [Next]_vars PROVE [NotFoundStep => Absent]_vars
  <2>1. CASE UNCHANGED vars
    BY <2>1
  <2>2. ASSUME NEW r \in Records, Save(r) PROVE ~NotFoundStep
    <3>1. RowOf(r) \in table'
      BY <2>2 DEF Save
    <3>2. RowOf(r) \notin table
      BY <2>2 DEF Save, RowOf
    <3>3. QED
      BY <3>1, <3>2 DEF NotFoundStep
  <2>3. ASSUME NEW i \in Identifiers, Load(i), NotFoundStep PROVE Absent
    <3>1. Matching(i) = {} /\ lastLoad' = NotFound(i)
      BY <2>3 DEF Load, NotFoundStep
    <3>2. TAKE r \in acked
    <3>3. RowOf(r) \in table
      BY <1>1 DEF AckedStored
    <3>4. RowOf(r) \notin Matching(i)
      BY <3>1
    <3>5. QED
      BY <3>1, <3>3, <3>4 DEF Matching, RowOf, NotFound
  <2>4. QED
    BY <1>1, <2>1, <2>2, <2>3 DEF Next
<1>2. QED
  BY <1>1, AckedStoredInductive, PTL DEF Spec, NotFoundOnlyIfAbsent
=============================================================================
