-------------------------- MODULE CompetitionStore --------------------------
(***************************************************************************)
(* The solver-competition store: SolverCompetitionStoring for Postgres in  *)
(* crates/orderbook/src/database/solver_competition.rs, and the record     *)
(* type SolverCompetition of crates/model/src/solver_competition.rs.       *)
(*                                                                         *)
(* A row is (id, json, tx_hash) with id the primary key (spec section 6).  *)
(* save inserts (data.auction_id, to_value(data), data.transaction_hash);  *)
(* load looks a row up by id or by tx_hash and deserialises its json.      *)
(* A record is abstracted to its auction id and its optional transaction   *)
(* hash; the rest of its fields round-trip unchanged and are left out.     *)
(* The json is the record itself; the tx_hash column is a copy of its      *)
(* hash, used only to find the row.                                        *)
(*                                                                         *)
(* Rows written before auction ids were stored (the comment on auction_id) *)
(* have a json without "auctionId": `#[serde(default)]` loads them with    *)
(* auction_id 0.                                                           *)
(***************************************************************************)
EXTENDS Naturals

CONSTANTS
  AuctionIds,  \* auction ids of competitions (positive)
  TxHashes,    \* settlement transaction hashes
  NoTx,        \* transaction_hash = None
  LegacyIds    \* ids of rows stored before the json carried an auction id

ASSUME AuctionIdsAssumption == AuctionIds \subseteq Nat \ {0}
ASSUME NoTxAssumption == NoTx \notin TxHashes
ASSUME LegacyIdsAssumption == LegacyIds \subseteq Nat \ {0}

(* auction_id 0: what `#[serde(default)]` gives a json without the field. *)
DefaultAuctionId == 0

Records == [auctionId : AuctionIds, tx : TxHashes \cup {NoTx}]

(* What a row's json deserialises to: a record, or a legacy one with id 0. *)
JsonValues == Records \cup [auctionId : {DefaultAuctionId}, tx : TxHashes \cup {NoTx}]

Rows == [id : AuctionIds \cup LegacyIds, json : JsonValues, tx : TxHashes \cup {NoTx}]
Identifiers == [by : {"id"}, key : AuctionIds \cup LegacyIds]
                 \cup [by : {"tx"}, key : TxHashes]

(* Outcome of the last load: the record found, or an error kind. *)
LoadResults == [ident : Identifiers, found : BOOLEAN, record : JsonValues]
NotFound(i) == [ident |-> i, found |-> FALSE,
                record |-> [auctionId |-> DefaultAuctionId, tx |-> NoTx]]

VARIABLES
  table,     \* rows of the solver_competition table
  acked,     \* records whose save returned Ok(())
  lastLoad   \* result of the latest load, or NoLoad

NoLoad == [ident |-> [by |-> "id", key |-> 0], found |-> FALSE,
           record |-> [auctionId |-> DefaultAuctionId, tx |-> NoTx]]

vars == <<table, acked, lastLoad>>

TypeOK ==
  /\ table \subseteq Rows
  /\ acked \subseteq Records
  /\ lastLoad \in LoadResults \cup {NoLoad}

Init ==
  /\ table = {[id |-> i, json |-> [auctionId |-> DefaultAuctionId, tx |-> NoTx],
                tx |-> NoTx] : i \in LegacyIds}
  /\ acked = {}
  /\ lastLoad = NoLoad

(* The row save writes for record r: (auction_id, to_value(data), tx_hash). *)
RowOf(r) == [id |-> r.auctionId, json |-> r, tx |-> r.tx]

(* The record load deserialises from a row: serde_json::from_value(json). *)
RecordOf(row) == row.json

(* Rows matching an identifier: load_by_id or load_by_tx_hash. *)
Matching(i) ==
  {row \in table : IF i.by = "id" THEN row.id = i.key ELSE row.tx = i.key}

-----------------------------------------------------------------------------

(* Faulty variant: the record is stored without its transaction hash. *)
SaveWithoutTx(r) ==
  /\ ~\E x \in table : x.id = r.auctionId
  /\ table' = table \cup {[RowOf(r) EXCEPT !.tx = NoTx]}
  /\ acked' = acked \cup {r}
  /\ UNCHANGED lastLoad

(***************************************************************************)
(* save(data): the INSERT succeeds unless a row with id data.auction_id    *)
(* exists (primary key: "failed to insert solver competition").  A         *)
(* connection lost after the insert landed returns an error too: the       *)
(* record is stored but not acknowledged.                                  *)
(***************************************************************************)
Save(r) ==
  /\ ~\E x \in table : x.id = r.auctionId
  /\ table' = table \cup {RowOf(r)}
  /\ \/ acked' = acked \cup {r}
     \/ UNCHANGED acked
  /\ UNCHANGED lastLoad

(***************************************************************************)
(* load(id): no matching row is LoadSolverCompetitionError::NotFound; a    *)
(* matching row is deserialised.  The tx_hash index is not unique, so a    *)
(* lookup by hash may match several rows and returns one of them.          *)
(***************************************************************************)
Load(i) ==
  /\ \/ Matching(i) = {} /\ lastLoad' = NotFound(i)
     \/ \E row \in Matching(i) :
          lastLoad' = [ident |-> i, found |-> TRUE, record |-> RecordOf(row)]
  /\ UNCHANGED <<table, acked>>

Next ==
  \/ \E r \in Records : Save(r)
  \/ \E i \in Identifiers : Load(i)

Spec == Init /\ [][Next]_vars

-----------------------------------------------------------------------------
(* Properties. *)

(***************************************************************************)
(* Spec section 8: a record found by load carries the key it was looked up *)
(* by: loading Id(i) gives auction_id = i, loading Transaction(h) gives    *)
(* transaction_hash = Some(h).                                             *)
(***************************************************************************)
LoadMatchesKey ==
  lastLoad.found =>
    IF lastLoad.ident.by = "id"
      THEN lastLoad.record.auctionId = lastLoad.ident.key
      ELSE lastLoad.record.tx = lastLoad.ident.key

(***************************************************************************)
(* Spec section 4.9: NotFound means the key was never saved.  A load     *)
(* that returns NotFound is for a key no acknowledged save carried: a     *)
(* record saved with a transaction hash is always found by that hash.     *)
(***************************************************************************)
NotFoundOnlyIfAbsent ==
  [][lastLoad' # NoLoad /\ ~lastLoad'.found /\ UNCHANGED <<table, acked>> =>
       \A r \in acked :
         IF lastLoad'.ident.by = "id" THEN r.auctionId # lastLoad'.ident.key
                                      ELSE r.tx # lastLoad'.ident.key]_vars

=============================================================================
