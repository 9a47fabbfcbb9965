------------------------- MODULE MCContractConstants -------------------------
(***************************************************************************)
(* Model-checking instance of ContractConstants: two-digit bytes in base 2 *)
(* (four byte values), a two-byte domain separator and a one-byte type     *)
(* hash, and bytecodes of up to four bytes: long enough to hold both       *)
(* constants, and to hold the separator's digits across a byte boundary.   *)
(***************************************************************************)
EXTENDS ContractConstants

MCDomainSeparator == <<1, 2>>
MCTypeHash == <<3>>

=============================================================================
