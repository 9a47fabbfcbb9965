---------------------------- MODULE AuctionStore ----------------------------
(***************************************************************************)
(* The single-slot current-auction table.                                  *)
(*                                                                         *)
(* Writer: Postgres::replace_current_auction in                            *)
(* crates/autopilot/src/database/auction.rs: begin a transaction, run      *)
(* database::auction::delete_all_auctions (DELETE FROM auction), then      *)
(* database::auction::save (INSERT ... RETURNING id, id a BIGSERIAL), then *)
(* commit.  Any `?` drops the transaction, which rolls it back.            *)
(*                                                                         *)
(* Reader: AuctionRetrieval::most_recent_auction in                        *)
(* crates/orderbook/src/database/auctions.rs, one SELECT on a pooled       *)
(* connection.                                                             *)
(*                                                                         *)
(* The two statements live in the database crate, outside src/; they are  *)
(* modelled from spec section 6 under Postgres' default isolation, READ    *)
(* COMMITTED: a statement sees the rows committed when it starts; a DELETE *)
(* waits for a row another open transaction deleted, and skips it if that  *)
(* transaction commits; nextval is not rolled back.  An auction is         *)
(* identified by its id.                                                   *)
(***************************************************************************)
EXTENDS Naturals, FiniteSets

CONSTANTS
  Writers,  \* concurrent callers of replace_current_auction
  MaxId     \* bound on the ids the sequence hands out

ASSUME MaxIdAssumption == MaxId \in Nat

Ids == 1..MaxId
None == 0

VARIABLES
  rows,      \* ids of the committed rows of the auction table
  nextId,    \* next value of the id sequence
  wpc,       \* wpc[w]: "idle" | "delete" | "deleting" | "insert" | "commit"
  snap,      \* snap[w]: rows the DELETE of w saw when it started
  locked,    \* locked[w]: rows w deleted and holds locks on
  inserted,  \* inserted[w]: id of the row w inserted, or None
  loaded,    \* id the reader last loaded, or None
  lastId,    \* history: id of the last committed replace, or None
  commits    \* history: number of committed replaces

vars == <<rows, nextId, wpc, snap, locked, inserted, loaded, lastId, commits>>
txn == <<wpc, snap, locked, inserted>>

PcValues == {"idle", "delete", "deleting", "insert", "commit"}

TypeOK ==
  /\ rows \in SUBSET Ids
  /\ nextId \in 1..(MaxId + 1)
  /\ wpc \in [Writers -> PcValues]
  /\ snap \in [Writers -> SUBSET Ids]
  /\ locked \in [Writers -> SUBSET Ids]
  /\ inserted \in [Writers -> Ids \cup {None}]
  /\ loaded \in Ids \cup {None}
  /\ lastId \in Ids \cup {None}
  /\ commits \in Nat

Init ==
  /\ rows = {}
  /\ nextId = 1
  /\ wpc = [w \in Writers |-> "idle"]
  /\ snap = [w \in Writers |-> {}]
  /\ locked = [w \in Writers |-> {}]
  /\ inserted = [w \in Writers |-> None]
  /\ loaded = None
  /\ lastId = None
  /\ commits = 0

(* Rows locked by writers other than w. *)
LockedByOthers(w) == UNION {locked[v] : v \in Writers \ {w}}

-----------------------------------------------------------------------------

(* self.0.begin().await? *)
Begin(w) ==
  /\ wpc[w] = "idle"
  /\ wpc' = [wpc EXCEPT ![w] = "delete"]
  /\ UNCHANGED <<rows, nextId, snap, locked, inserted, loaded, lastId, commits>>

(* delete_all_auctions: the DELETE statement starts and takes its snapshot. *)
DeleteStart(w) ==
  /\ wpc[w] = "delete"
  /\ wpc' = [wpc EXCEPT ![w] = "deleting"]
  /\ snap' = [snap EXCEPT ![w] = rows]
  /\ UNCHANGED <<rows, nextId, locked, inserted, loaded, lastId, commits>>

(* Faulty variant: the delete is committed on its own, before the insert. *)
CommitDeleteEarly(w) ==
  /\ wpc[w] = "deleting"
  /\ snap[w] \cap rows \cap LockedByOthers(w) = {}
  /\ rows' = rows \ snap[w]
  /\ wpc' = [wpc EXCEPT ![w] = "insert"]
  /\ UNCHANGED <<nextId, snap, locked, inserted, loaded, lastId, commits>>

(***************************************************************************)
(* The DELETE completes once no row of its snapshot is locked by another   *)
(* transaction; rows of the snapshot deleted meanwhile by a committed      *)
(* transaction are skipped, rows inserted since are not seen.             *)
(***************************************************************************)
DeleteEnd(w) ==
  /\ wpc[w] = "deleting"
  /\ snap[w] \cap rows \cap LockedByOthers(w) = {}
  /\ locked' = [locked EXCEPT ![w] = snap[w] \cap rows]
  /\ wpc' = [wpc EXCEPT ![w] = "insert"]
  /\ UNCHANGED <<rows, nextId, snap, inserted, loaded, lastId, commits>>

(* database::auction::save: INSERT ... RETURNING id, id = nextval. *)
Insert(w) ==
  /\ wpc[w] = "insert"
  /\ nextId <= MaxId
  /\ inserted' = [inserted EXCEPT ![w] = nextId]
  /\ nextId' = nextId + 1
  /\ wpc' = [wpc EXCEPT ![w] = "commit"]
  /\ UNCHANGED <<rows, snap, locked, loaded, lastId, commits>>

(* ex.commit().await?: the delete and the insert become visible at once. *)
Commit(w) ==
  /\ wpc[w] = "commit"
  /\ rows' = (rows \ locked[w]) \cup {inserted[w]}
  /\ lastId' = inserted[w]
  /\ commits' = commits + 1
  /\ wpc' = [wpc EXCEPT ![w] = "idle"]
  /\ snap' = [snap EXCEPT ![w] = {}]
  /\ locked' = [locked EXCEPT ![w] = {}]
  /\ inserted' = [inserted EXCEPT ![w] = None]
  /\ UNCHANGED <<nextId, loaded>>

(***************************************************************************)
(* A statement or the commit fails, or the task is dropped: the            *)
(* transaction rolls back and releases its locks; ids drawn stay used.     *)
(***************************************************************************)
Rollback(w) ==
  /\ wpc[w] # "idle"
  /\ wpc' = [wpc EXCEPT ![w] = "idle"]
  /\ snap' = [snap EXCEPT ![w] = {}]
  /\ locked' = [locked EXCEPT ![w] = {}]
  /\ inserted' = [inserted EXCEPT ![w] = None]
  /\ UNCHANGED <<rows, nextId, loaded, lastId, commits>>

(* Faulty variant: the read also sees a row an open transaction inserted. *)
LoadDirty ==
  /\ \/ rows = {} /\ loaded' = None
     \/ \E r \in rows \cup ({inserted[v] : v \in Writers} \ {None}) : loaded' = r
  /\ UNCHANGED <<rows, nextId, txn, lastId, commits>>

(***************************************************************************)
(* most_recent_auction: load_most_recent returns the current row, or None  *)
(* and the function returns Ok(None).                                      *)
(***************************************************************************)
Load ==
  /\ \/ rows = {} /\ loaded' = None
     \/ \E r \in rows : loaded' = r
  /\ UNCHANGED <<rows, nextId, txn, lastId, commits>>

Next ==
  \/ \E w \in Writers :
       \/ Begin(w) \/ DeleteStart(w) \/ DeleteEnd(w) \/ Insert(w)
       \/ Commit(w) \/ Rollback(w)
  \/ Load

Spec == Init /\ [][Next]_vars

-----------------------------------------------------------------------------
(* Properties. *)

NeverEmptyAfterSave == commits > 0 => rows # {}

(***************************************************************************)
(* Spec sections 4.8 and 8 as a refinement: the table, seen through its    *)
(* committed rows and the reader's result, is the single slot of           *)
(* AuctionSlot.  Every replace_current_auction transaction takes effect at *)
(* its commit, as one Replace by a larger id, and most_recent_auction is a *)
(* Read of the slot; begin, the statements and a rollback change neither.  *)
(***************************************************************************)
Slot == INSTANCE AuctionSlot WITH slot <- rows, read <- loaded

AuctionSlotRefined == Slot!Spec

=============================================================================
