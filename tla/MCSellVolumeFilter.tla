------------------------- MODULE MCSellVolumeFilter -------------------------
(***************************************************************************)
(* Two tokens, each priced 1 or 2 or unpriced; amounts 1 and 3 against a   *)
(* minimum of 2, so a side passes or fails depending on both its amount    *)
(* and its price, and native amounts equal to the minimum occur.  Up to    *)
(* three orders: enough for two consecutive dropped orders and a kept one  *)
(* after them.                                                             *)
(***************************************************************************)
EXTENDS SellVolumeFilter
MCAmounts == {1, 3}
MCPriceValues == {1, 2}
MCMinValue == 2
MCMaxOrders == 3
=============================================================================
