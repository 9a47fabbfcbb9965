---------------------------- MODULE MCSolverCreate ----------------------------
(***************************************************************************)
(* Model-checking instance of SolverCreate.  Arguments are every string of *)
(* up to six characters over the separator and four letters, where "u",   *)
(* "u|" and "u|k" are accepted urls (the url crate accepts '|' in a path), *)
(* "k" an accepted private key and "a" an accepted address: enough for     *)
(* empty and separator-only pieces, a missing field, a bad url or account, *)
(* trailing pieces after the account, and a url that split('|') cuts so   *)
(* that its tail is read as the account ("|u|k|a").  Up to two external   *)
(* solvers, and up to two configured solvers of any type, so a failing     *)
(* constructor can come before or after a working one.                    *)
(***************************************************************************)
EXTENDS SolverCreate

MCLetters == {"n", "u", "k", "a"}
MCUrlTexts == {<<"u">>, <<"u", "|">>, <<"u", "|", "k">>}
MCKeyTexts == {<<"k">>}
MCAddressTexts == {<<"a">>}

=============================================================================
