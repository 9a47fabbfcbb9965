------------------------- MODULE MCSolvableOrders -------------------------
(***************************************************************************)
(* Model-checking instance of SolvableOrders.  U256 is scaled to 2 bits    *)
(* (0..3) and u32 to 2 bits (0..3).  The decimals cover negative, zero, an *)
(* inner value, the maximum and maximum + 1, so sum_sell - sum_fee reaches *)
(* below zero and past the maximum; valid_to covers -1, 0, the maximum and *)
(* maximum + 1.  Two of the four amount columns suffice: they are          *)
(* converted alike.                                                        *)
(*                                                                         *)
(* The query may yield every such row, but enumerating every stream of     *)
(* several of them is too large: the streams are every single row (or a    *)
(* database error), and every stream of up to MaxRows items drawn from a   *)
(* sell row that converts, a buy row that converts and a sell row whose    *)
(* sum_fee exceeds its sum_sell, an in-range row whose signature bytes are *)
(* malformed, and a database error, so that a bad row or an error comes    *)
(* before, between or after good rows.                                     *)
(***************************************************************************)
EXTENDS SolvableOrders

MCU256Size == 2^2
MCU32Size == 2^2
MCDecimals == {-1, 0, 2, 3, 4}
MCValidTos == {-1, 0, 3, 4}
MCAmountFields == {"sellAmount", "feeAmount"}
MCStoredRows == Row!FullOrders

MCGoodSell ==
  [kind |-> "Sell", sumBuy |-> 0, sumSell |-> 3, sumFee |-> 0,
   amounts |-> [f \in MCAmountFields |-> 3], validTo |-> 3, signingScheme |-> "Eip712",
   signature |-> "wellFormed"]
MCGoodBuy ==
  [kind |-> "Buy", sumBuy |-> 2, sumSell |-> 0, sumFee |-> 0,
   amounts |-> [f \in MCAmountFields |-> 2], validTo |-> 3, signingScheme |-> "PreSign",
   signature |-> "wellFormed"]
MCBadSell ==
  [kind |-> "Sell", sumBuy |-> 0, sumSell |-> 2, sumFee |-> 3,
   amounts |-> [f \in MCAmountFields |-> 2], validTo |-> 3, signingScheme |-> "EthSign",
   signature |-> "wellFormed"]

MCBadSignature ==
  [kind |-> "Buy", sumBuy |-> 2, sumSell |-> 0, sumFee |-> 0,
   amounts |-> [f \in MCAmountFields |-> 2], validTo |-> 3, signingScheme |-> "Eip1271",
   signature |-> "malformed"]

MCStreams ==
  BoundedSeq(StoredRows \cup {DbError}, 1)
    \cup BoundedSeq({MCGoodSell, MCGoodBuy, MCBadSell, MCBadSignature, DbError}, MaxRows)

=============================================================================
