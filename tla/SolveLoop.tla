----------------------------- MODULE SolveLoop -----------------------------
(***************************************************************************)
(* The driver's block-driven solve loop, Driver::solve_until_deadline in   *)
(* crates/driver/src/driver.rs, together with the watch-style block stream *)
(* it consumes (shared::current_block, outside src/, modelled from the     *)
(* spec, section 4.1).                                                     *)
(*                                                                         *)
(* The loop pins two futures and selects between them:                     *)
(*   - compute_solutions: into_stream(block_stream).then(compute), which   *)
(*     yields the current block at once, afterwards only the latest block  *)
(*     once it changed, and for each yielded block runs block_number,      *)
(*     convert_auction and commit one after the other;                     *)
(*   - timeout: sleep_until(deadline).                                     *)
(* Every completed computation overwrites current_solution; the loop       *)
(* returns current_solution when the deadline fires or the stream ends.    *)
(*                                                                         *)
(* Wall-clock time is abstracted: the deadline may fire at any point       *)
(* before the loop has returned.  Convert and commit may succeed or fail   *)
(* and may never complete (no fairness on them).                           *)
(***************************************************************************)
EXTENDS Integers

CONSTANTS
  BlockNumbers,  \* block numbers the node may report
  NoNumber,      \* a block whose `number` field is None
  MaxSends       \* bound on the blocks the producer publishes

ASSUME BlockNumbersAssumption == BlockNumbers \subseteq Nat
ASSUME NoNumberAssumption == NoNumber \notin BlockNumbers
ASSUME MaxSendsAssumption == MaxSends \in Nat

(* A block as held by the watch channel: a number, or none. *)
Blocks == BlockNumbers \cup {NoNumber}

(***************************************************************************)
(* Results of one computation, and the sentinel current_solution starts    *)
(* with.  Ok(summary) is identified by the block its liquidity was read    *)
(* at: that is all the solve loop can tell about a summary.               *)
(***************************************************************************)
Ok(b) == [kind |-> "ok", block |-> b]
Err(e) == [kind |-> e, block |-> NoNumber]
ErrorKinds == {"deadline", "noBlockNumber", "convertFailed", "commitFailed"}
Results == {Ok(b) : b \in BlockNumbers} \cup {Err(e) : e \in ErrorKinds}

VARIABLES
  chanBlock,    \* value held by the watch channel (latest block)
  chanVersion,  \* number of values sent into the channel so far
  senderAlive,  \* FALSE once every producer has dropped its sender
  seen,         \* channel version the loop's WatchStream has consumed
  loopPc,       \* "start" | "poll" | "convert" | "commit" | "done"
  block,        \* block number of the computation in flight
  current,      \* current_solution
  iterVersion,  \* history: channel version the latest computation took (-1: none)
  doneBy        \* history: which select arm returned ("none", "deadline", "stream")

stream == <<chanBlock, chanVersion, senderAlive>>
loop == <<seen, loopPc, block, current>>
history == <<iterVersion, doneBy>>
vars == <<stream, loop, history>>

PcValues == {"start", "poll", "convert", "commit", "done"}

TypeOK ==
  /\ chanBlock \in Blocks
  /\ chanVersion \in Nat
  /\ senderAlive \in BOOLEAN
  /\ seen \in Nat \cup {-1}
  /\ loopPc \in PcValues
  /\ block \in Blocks
  /\ current \in Results
  /\ iterVersion \in Nat \cup {-1}
  /\ doneBy \in {"none", "deadline", "stream"}

(***************************************************************************)
(* The loop starts with the pinned futures not yet polled and              *)
(* current_solution = Err("reached the deadline without a result").  The   *)
(* channel holds whatever block was current when the driver subscribed.    *)
(***************************************************************************)
Init ==
  /\ chanBlock \in Blocks
  /\ chanVersion = 0
  /\ senderAlive = TRUE
  /\ seen = -1
  /\ loopPc = "start"
  /\ block = NoNumber
  /\ current = Err("deadline")
  /\ iterVersion = -1
  /\ doneBy = "none"

-----------------------------------------------------------------------------
(* Block stream producer (current_block_stream, spec section 4.1). *)

(* A new latest block is published, overwriting the previous one. *)
Send(b) ==
  /\ senderAlive
  /\ chanVersion < MaxSends
  /\ chanBlock' = b
  /\ chanVersion' = chanVersion + 1
  /\ UNCHANGED <<senderAlive, loop, history>>

(* All producers stop: the channel closes. *)
DropSender ==
  /\ senderAlive
  /\ senderAlive' = FALSE
  /\ UNCHANGED <<chanBlock, chanVersion, loop, history>>

-----------------------------------------------------------------------------
(* Solve loop. *)

(* Faulty variant: block_number(&block)? is left out, so a block without a *)
(* number is handed to the converter and the solver.                       *)
PollBlockWithoutNumber ==
  /\ \/ loopPc = "start"
     \/ loopPc = "poll" /\ chanVersion > seen
  /\ seen' = chanVersion
  /\ iterVersion' = chanVersion
  /\ block' = chanBlock
  /\ loopPc' = "convert"
  /\ UNCHANGED <<stream, current, doneBy>>

(***************************************************************************)
(* The compute_solutions arm yields a block and starts computing on it.    *)
(* WatchStream yields the current value on its first poll, and afterwards  *)
(* only once the channel holds a version it has not seen; each yield       *)
(* marks the version seen, so intermediate values are skipped.  The first  *)
(* statement of compute_solution_for_block, block_number(&block)?, runs in *)
(* the same poll: a block without number completes the computation at      *)
(* once with an error.                                                     *)
(***************************************************************************)
PollBlock ==
  /\ \/ loopPc = "start"
     \/ loopPc = "poll" /\ chanVersion > seen
  /\ seen' = chanVersion
  /\ iterVersion' = chanVersion
  /\ IF chanBlock = NoNumber
       THEN /\ current' = Err("noBlockNumber")
            /\ loopPc' = "poll"
            /\ UNCHANGED block
       ELSE /\ block' = chanBlock
            /\ loopPc' = "convert"
            /\ UNCHANGED current
  /\ UNCHANGED <<stream, doneBy>>


(* converter.convert_auction(auction, block).await? *)
ConvertOk ==
  /\ loopPc = "convert"
  /\ loopPc' = "commit"
  /\ UNCHANGED <<stream, seen, block, current, history>>

(* Faulty variant: a failed conversion leaves current_solution as it was. *)
ConvertFailIgnored ==
  /\ loopPc = "convert"
  /\ loopPc' = "poll"
  /\ UNCHANGED <<stream, seen, block, current, history>>

ConvertFail ==
  /\ loopPc = "convert"
  /\ loopPc' = "poll"
  /\ current' = Err("convertFailed")
  /\ UNCHANGED <<stream, seen, block, history>>

(* solver.commit(auction).await, whose result becomes current_solution. *)
CommitOk ==
  /\ loopPc = "commit"
  /\ loopPc' = "poll"
  /\ current' = Ok(block)
  /\ UNCHANGED <<stream, seen, block, history>>

CommitFail ==
  /\ loopPc = "commit"
  /\ loopPc' = "poll"
  /\ current' = Err("commitFailed")
  /\ UNCHANGED <<stream, seen, block, history>>

(***************************************************************************)
(* compute_solutions.next() returns None: the stream ends once the sender  *)
(* is dropped and no unseen value is left; the loop returns                *)
(* current_solution.                                                       *)
(***************************************************************************)
StreamEnd ==
  /\ loopPc = "poll"
  /\ ~senderAlive
  /\ chanVersion = seen
  /\ loopPc' = "done"
  /\ doneBy' = "stream"
  /\ UNCHANGED <<stream, seen, block, current, iterVersion>>

(* Faulty variant: the deadline is only looked at between computations. *)
TimeoutBetween ==
  /\ loopPc \in {"start", "poll"}
  /\ loopPc' = "done"
  /\ doneBy' = "deadline"
  /\ UNCHANGED <<stream, seen, block, current, iterVersion>>

(***************************************************************************)
(* The timeout arm: the deadline fires and the loop returns                *)
(* current_solution, dropping any computation in flight.                   *)
(***************************************************************************)
Timeout ==
  /\ loopPc # "done"
  /\ loopPc' = "done"
  /\ doneBy' = "deadline"
  /\ UNCHANGED <<stream, seen, block, current, iterVersion>>

Producer ==
  \/ \E b \in Blocks : Send(b)
  \/ DropSender

Loop ==
  \/ PollBlock
  \/ ConvertOk \/ ConvertFail
  \/ CommitOk \/ CommitFail
  \/ StreamEnd
  \/ Timeout

Next == Producer \/ Loop

(***************************************************************************)
(* The tokio timer always fires once the deadline has passed, so Timeout   *)
(* is weakly fair.  Nothing forces the converter, the solver or the        *)
(* producer to make progress.                                              *)
(***************************************************************************)
Fairness == WF_vars(Timeout)

Spec == Init /\ [][Next]_vars /\ Fairness

-----------------------------------------------------------------------------
(* Properties. *)

(***************************************************************************)
(* The loop always returns, even if the converter or the solver never      *)
(* answers: the deadline cancels the computation in flight.                *)
(***************************************************************************)
Terminates == <>(loopPc = "done")

(***************************************************************************)
(* What spec section 2 says the loop does: it "keeps the latest successful *)
(* one".  Once a commit succeeded, the loop returns a successful summary.  *)
(* The code overwrites current_solution with every result, errors too.    *)
(***************************************************************************)
KeepsLatestSuccess ==
  [][current.kind = "ok" => current'.kind = "ok"]_vars

-----------------------------------------------------------------------------
(***************************************************************************)
(* Refinement.  The loop implements SolveSpec: the WatchStream bookkeeping *)
(* is hidden, the channel is the abstract stream, and a computation is in  *)
(* flight exactly while the loop is converting or committing.  ConvertOk   *)
(* is a stutter of the abstract specification.                             *)
(***************************************************************************)
Working == IF loopPc \in {"convert", "commit"} THEN block ELSE NoNumber

Abstract == INSTANCE SolveSpec
              WITH latest <- chanBlock, published <- chanVersion,
                   open <- senderAlive, taken <- iterVersion,
                   working <- Working, result <- current, returned <- doneBy

(***************************************************************************)
(* solve_until_deadline keeps the promise of SolveSpec: one computation at *)
(* a time on the newest block, results replacing the current one, a return *)
(* at the deadline or after the last block of a closed stream, and the     *)
(* deadline always firing.                                                 *)
(***************************************************************************)
SolveSpecRefined == Abstract!Spec

=============================================================================
