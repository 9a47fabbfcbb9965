-------------------------- MODULE ContractConstants --------------------------
(***************************************************************************)
(* verify_deployed_contract_constants in crates/orderbook/src/lib.rs, the  *)
(* startup check that the deployed settlement contract was built with the  *)
(* EIP-712 domain separator and the order type hash this binary uses       *)
(* (spec section 6, "Domain-separator sanity check").                      *)
(*                                                                         *)
(* The code loads the contract's bytecode, hex-encodes it, and looks for   *)
(* the hex encoding of each constant as a substring of that text.  Bytes   *)
(* are scaled down: a byte has two digits in base Radix (16 in the code),  *)
(* high digit first, as hex::encode writes them.  The hash functions that  *)
(* compute the two constants are outside src/: they are given constants.   *)
(***************************************************************************)
EXTENDS Naturals, Sequences, SequencesExt

CONSTANTS
  Radix,            \* base of one hex digit (16 in the code)
  DomainSeparator,  \* bytes of DomainSeparator::new(chain_id, address)
  TypeHash,         \* bytes of OrderData::TYPE_HASH
  MaxCodeLength     \* bound on the deployed bytecode's length

(* Radix is at least 2; the two constants are sequences of Bytes. *)
Bytes == 0..(Radix * Radix - 1)

(* Bytecodes the node may return for the settlement contract's address. *)
Codes == BoundedSeq(Bytes, MaxCodeLength)

VARIABLES
  code,    \* the bytecode eth_getCode returned
  result   \* "pending" | "loadFailed" | "noDomainSeparator" | "noTypeHash" | "ok"

vars == <<code, result>>

Init == code = << >> /\ result = "pending"

(* hex::encode: every byte becomes its two digits, high digit first. *)
HexEncode(bytes) ==
  FlattenSeq([k \in 1..Len(bytes) |-> <<bytes[k] \div Radix, bytes[k] % Radix>>])

(* str::contains on the encoded text: a contiguous run of digits. *)
HexContains(text, pattern) == pattern \in SubSeqs(text)

(***************************************************************************)
(* The two checks on the loaded bytecode, in the code's order: the domain  *)
(* separator first, then the order type hash.                              *)
(***************************************************************************)
Verdict(c) ==
  CASE ~HexContains(HexEncode(c), HexEncode(DomainSeparator)) -> "noDomainSeparator"
    [] ~HexContains(HexEncode(c), HexEncode(TypeHash)) -> "noTypeHash"
    [] OTHER -> "ok"

(***************************************************************************)
(* One call: web3.eth().code(address) fails ("Could not load deployed      *)
(* bytecode"), or returns some bytecode that the checks then judge.        *)
(***************************************************************************)
VerifyDeployedContractConstants ==
  /\ result = "pending"
  /\ \/ result' = "loadFailed" /\ UNCHANGED code
     \/ \E c \in Codes : code' = c /\ result' = Verdict(c)

Next == VerifyDeployedContractConstants

Spec == Init /\ [][Next]_vars

-----------------------------------------------------------------------------
(* Properties. *)

(* The constant occurs in the bytecode as whole bytes. *)
Embeds(c, constant) == constant \in SubSeqs(c)

(***************************************************************************)
(* Spec section 6: the check passes only if the deployed bytecode contains *)
(* both constants.  The code searches the hex text, where a match may      *)
(* start in the middle of a byte.                                          *)
(***************************************************************************)
AcceptedOnlyIfEmbedded ==
  result = "ok" => Embeds(code, DomainSeparator) /\ Embeds(code, TypeHash)

=============================================================================
