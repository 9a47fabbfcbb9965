----------------------------- MODULE SolverArgs -----------------------------
(***************************************************************************)
(* Parsing of the solver command-line arguments in                         *)
(* crates/solver/src/solver.rs: ExternalSolverArg::from_str reads          *)
(* "name|url|account", SolverAccountArg::from_str reads the account as a   *)
(* private key or else as an address, and into_account turns it into an   *)
(* ethcontract Account.                                                     *)
(*                                                                         *)
(* A string is a sequence of characters: the separator "|" and letters.   *)
(* What the url crate and ethcontract accept is outside src/: it is given  *)
(* by the constant sets UrlTexts, KeyTexts and AddressTexts of strings.    *)
(* The module has no state: SolverCreate parses the arguments with it      *)
(* before it builds the solvers.                                           *)
(***************************************************************************)
EXTENDS Naturals, Sequences, SequencesExt

CONSTANTS
  Sep,           \* the character '|'
  Letters,       \* the other characters
  UrlTexts,      \* strings Url::from_str accepts
  KeyTexts,      \* strings PrivateKey::from_str accepts
  AddressTexts,  \* strings H160::from_str accepts
  MaxLength      \* bound on the argument's length

ASSUME LettersAssumption == Sep \notin Letters
ASSUME TextsAssumption ==
  /\ UrlTexts \subseteq Seq(Letters \cup {Sep})
  /\ KeyTexts \subseteq Seq(Letters \cup {Sep})
  /\ AddressTexts \subseteq Seq(Letters \cup {Sep})
ASSUME MaxLengthAssumption == MaxLength \in Nat

Strings == BoundedSeq(Letters \cup {Sep}, MaxLength)

(* Faulty variant: empty pieces are dropped, as split(..).filter(non-empty) would. *)
SplitSkippingEmpty(s) ==
  LET cuts == <<0>> \o SetToSortSeq({k \in 1..Len(s) : s[k] = Sep}, <) \o <<Len(s) + 1>>
  IN SelectSeq([j \in 1..(Len(cuts) - 1) |-> SubSeq(s, cuts[j] + 1, cuts[j + 1] - 1)],
               LAMBDA piece : piece # << >>)

(***************************************************************************)
(* str::split('|'): the pieces between separators, in order; a string     *)
(* with n separators yields n + 1 pieces, the empty string one empty       *)
(* piece.                                                                  *)
(***************************************************************************)
Split(s) ==
  LET cuts == <<0>> \o SetToSortSeq({k \in 1..Len(s) : s[k] = Sep}, <) \o <<Len(s) + 1>>
  IN [j \in 1..(Len(cuts) - 1) |-> SubSeq(s, cuts[j] + 1, cuts[j + 1] - 1)]

(* SolverAccountArg::from_str: a private key, or else an address. *)
SolverAccountArgFromStr(s) ==
  CASE s \in KeyTexts -> [ok |-> [kind |-> "PrivateKey", text |-> s]]
    [] s \in AddressTexts -> [ok |-> [kind |-> "Address", text |-> s]]
    [] OTHER -> [err |-> "invalidAccount"]

(***************************************************************************)
(* ExternalSolverArg::from_str: the first three pieces are the name, the   *)
(* url and the account, each `ok_or` "missing ..."; then the url and the   *)
(* account are parsed, in that order.  Later pieces are not looked at.     *)
(* split always yields a first piece, so "missing name" cannot happen.     *)
(***************************************************************************)
ExternalSolverArgFromStr(s) ==
  LET parts == Split(s) IN
  CASE Len(parts) < 1 -> [err |-> "missingName"]
    [] Len(parts) < 2 -> [err |-> "missingUrl"]
    [] Len(parts) < 3 -> [err |-> "missingAccount"]
    [] parts[2] \notin UrlTexts -> [err |-> "parseUrl"]
    [] "err" \in DOMAIN SolverAccountArgFromStr(parts[3]) -> [err |-> "parseAccount"]
    [] OTHER -> [ok |-> [name |-> parts[1], url |-> parts[2],
                         account |-> SolverAccountArgFromStr(parts[3]).ok]]

(* The documented form "name|url|account" of the three fields. *)
Join(name, url, account) == name \o <<Sep>> \o url \o <<Sep>> \o account

=============================================================================
