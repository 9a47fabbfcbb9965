--------------------------- MODULE MCAuctionStore ---------------------------
(***************************************************************************)
(* Ids up to 4: enough for a replace to commit, a later one to roll back   *)
(* after drawing an id, and a third to commit after it.                    *)
(***************************************************************************)
EXTENDS AuctionStore

MCMaxId == 4

=============================================================================
