--------------------------- MODULE SolvableOrders ---------------------------
(***************************************************************************)
(* Postgres::solvable_orders in crates/autopilot/src/database/auction.rs:  *)
(* in one transaction it streams the solvable order rows, converts each    *)
(* with full_order_into_model_order (module OrderMaterialise, used here    *)
(* through INSTANCE), gathers them with try_collect, then reads the latest *)
(* settlement block.  try_collect stops at the first Err, from the         *)
(* database or from a conversion, and the whole call fails with it.        *)
(*                                                                         *)
(* The rows come from a query outside src/; which rows it yields, and      *)
(* where a database error interrupts the stream, are free choices.         *)
(***************************************************************************)
EXTENDS Integers, Sequences, SequencesExt

CONSTANTS
  U256Size, U32Size, Decimals, ValidTos, AmountFields,  \* as in OrderMaterialise
  StoredRows,  \* the rows the query may yield (a subset of FullOrders)
  DbError,     \* a stream item that is a database error
  MaxRows      \* bound on the rows of one query

ASSUME SizeAssumption == U256Size \in Nat \ {0} /\ U32Size \in Nat \ {0}
ASSUME DataAssumption == Decimals \subseteq Int /\ ValidTos \subseteq Int
ASSUME MaxRowsAssumption == MaxRows \in Nat

(* The conversion of one row, from OrderMaterialise. *)
Row == INSTANCE OrderMaterialise

ASSUME StoredRowsAssumption == StoredRows \subseteq Row!FullOrders /\ DbError \notin StoredRows

(* Streams of query results: rows, possibly interrupted by an error. *)
Streams == BoundedSeq(StoredRows \cup {DbError}, MaxRows)

VARIABLES
  items,   \* what database::orders::solvable_orders yields
  i,       \* next item try_collect pulls
  orders,  \* the model orders collected so far
  status   \* "begin" | "collecting" | "block" | "ok" | "dbErr" | "convertErr"

vars == <<items, i, orders, status>>

Init ==
  /\ items \in Streams
  /\ i = 1
  /\ orders = << >>
  /\ status = "begin"

(* self.0.begin().await? *)
Begin ==
  /\ status = "begin"
  /\ status' \in {"collecting", "dbErr"}
  /\ UNCHANGED <<items, i, orders>>

(* Faulty variant: rows that do not convert are skipped instead of failing. *)
PullSkippingBad ==
  /\ status = "collecting" /\ i <= Len(items)
  /\ i' = i + 1
  /\ CASE items[i] = DbError -> status' = "dbErr" /\ UNCHANGED orders
       [] Row!FullOrderIntoModelOrder(items[i]) = Row!Err -> UNCHANGED <<status, orders>>
       [] OTHER -> /\ orders' = Append(orders, Row!FullOrderIntoModelOrder(items[i]).order)
                   /\ UNCHANGED status
  /\ UNCHANGED items

(***************************************************************************)
(* try_collect pulls one item through the map: a database error or a row   *)
(* that does not convert ends the call with Err, a converted row is        *)
(* pushed.                                                                 *)
(***************************************************************************)
Pull ==
  /\ status = "collecting" /\ i <= Len(items)
  /\ \/ /\ items[i] = DbError
        /\ status' = "dbErr" /\ UNCHANGED <<i, orders>>
     \/ /\ items[i] # DbError /\ Row!FullOrderIntoModelOrder(items[i]) = Row!Err
        /\ status' = "convertErr" /\ UNCHANGED <<i, orders>>
     \/ /\ items[i] # DbError /\ Row!FullOrderIntoModelOrder(items[i]) # Row!Err
        /\ orders' = Append(orders, Row!FullOrderIntoModelOrder(items[i]).order)
        /\ i' = i + 1
        /\ UNCHANGED status
  /\ UNCHANGED items

(* The stream is exhausted: try_collect yields the vector. *)
Collected ==
  /\ status = "collecting" /\ i = Len(items) + 1
  /\ status' = "block"
  /\ UNCHANGED <<items, i, orders>>

(* latest_settlement_block(&mut ex).await?, then Ok(SolvableOrders {..}). *)
LatestSettlementBlock ==
  /\ status = "block"
  /\ status' \in {"ok", "dbErr"}
  /\ UNCHANGED <<items, i, orders>>

Next == Begin \/ Pull \/ Collected \/ LatestSettlementBlock

Spec == Init /\ [][Next]_vars

-----------------------------------------------------------------------------
(* Properties. *)

TypeOK ==
  /\ items \in Seq(StoredRows \cup {DbError}) /\ Len(items) <= MaxRows
  /\ i \in 1..(Len(items) + 1)
  /\ orders \in Seq(Row!ModelOrders)
  /\ status \in {"begin", "collecting", "block", "ok", "dbErr", "convertErr"}

(* Reference: the stream item converts to a model order. *)
Converts(item) == item # DbError /\ Row!FullOrderIntoModelOrder(item) # Row!Err

(***************************************************************************)
(* Spec section 4.10, "fail cleanly": an auction is never built from part  *)
(* of the solvable orders.  When solvable_orders returns Ok, no row failed *)
(* to convert, the stream had no error, and the orders are all the rows    *)
(* converted, in the order the query returned them.                        *)
(***************************************************************************)
NoPartialOrderSet ==
  status = "ok" =>
    /\ \A k \in 1..Len(items) : Converts(items[k])
    /\ orders = [k \in 1..Len(items) |-> Row!FullOrderIntoModelOrder(items[k]).order]

(***************************************************************************)
(* Spec section 4.10: a row fails to materialise exactly when one of its   *)
(* decimals does not fit into U256, its valid_to does not fit into 32      *)
(* bits, or its signature bytes are not a signature of its scheme.  A call *)
(* that returns Ok read only good rows, and a call that fails on a         *)
(* conversion failed on a bad row; nothing is silently truncated, wrapped  *)
(* or defaulted.                                                           *)
(***************************************************************************)
FailsExactlyOnBadRow ==
  /\ status = "ok" => \A k \in 1..Len(items) : ~Row!BadRow(items[k])
  /\ status = "convertErr" => Row!BadRow(items[i])

=============================================================================
