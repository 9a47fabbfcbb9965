---------------------------- MODULE MCSolveLoop ----------------------------
(***************************************************************************)
(* Model-checking instance of SolveLoop: two block numbers, one block      *)
(* without number, and up to three blocks published after the driver       *)
(* subscribed, enough for the producer to overtake a computation twice     *)
(* (follow_up_computations_use_the_latest_block) and to publish just       *)
(* before closing (solving_can_end_early_when_stream_terminates).          *)
(***************************************************************************)
EXTENDS SolveLoop

MCBlockNumbers == {1, 2}
MCMaxSends == 3

=============================================================================
