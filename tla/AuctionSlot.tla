---------------------------- MODULE AuctionSlot -----------------------------
(***************************************************************************)
(* What the current-auction table promises (spec sections 4.8 and 8),     *)
(* without its mechanism: one slot holding at most one auction; a replace  *)
(* puts a new auction in it in one step, with a larger id than the one it  *)
(* displaces; a read returns the auction in the slot, or None while no     *)
(* auction has been saved.                                                 *)
(*                                                                         *)
(* AuctionStore splits a replace into a transaction of DELETE, INSERT and  *)
(* COMMIT, and with one writer implements this specification under the     *)
(* mapping given there.                                                    *)
(***************************************************************************)
EXTENDS Naturals

CONSTANT MaxId

VARIABLES
  slot,  \* the auction ids in the slot: {} or one id
  read   \* the id the reader last obtained, or None

avars == <<slot, read>>

Ids == 1..MaxId
None == 0

Init ==
  /\ slot = {}
  /\ read = None

(* A replace makes auction id current, displacing a smaller one. *)
Replace(id) ==
  /\ \A r \in slot : r < id
  /\ slot' = {id}
  /\ UNCHANGED read

(* A read returns the current auction, or None when there is none. *)
Read ==
  /\ read' \in IF slot = {} THEN {None} ELSE slot
  /\ UNCHANGED slot

Next == (\E id \in Ids : Replace(id)) \/ Read

Spec == Init /\ [][Next]_avars

=============================================================================
