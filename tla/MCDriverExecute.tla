-------------------------- MODULE MCDriverExecute --------------------------
(***************************************************************************)
(* Two concurrent /execute calls and two summaries: enough for both calls  *)
(* to carry the same summary (an autopilot retry) or different ones.      *)
(***************************************************************************)
EXTENDS DriverExecute, TLC

MCSymmetry == Permutations(Calls) \cup Permutations(Summaries)

=============================================================================
