------------------------------ MODULE SolveSpec ------------------------------
(***************************************************************************)
(* What Driver::solve_until_deadline promises, without its mechanism       *)
(* (spec section 4.4): one computation at a time, each on the newest block *)
(* published since the previous one; a computation either produces a       *)
(* result that becomes the current one or is dropped by the deadline; the  *)
(* call returns the current result at the deadline, or once the block      *)
(* stream has ended and its last block has been computed on.               *)
(*                                                                         *)
(* A computation is one atomic piece of work here: the detailed module     *)
(* SolveLoop splits it into block_number, convert_auction and commit, and  *)
(* implements this specification under the mapping given there.           *)
(***************************************************************************)
EXTENDS Integers

CONSTANTS BlockNumbers, NoNumber, MaxSends

VARIABLES
  latest,     \* the newest block published
  published,  \* how many blocks have been published after subscribing
  open,       \* the stream may still publish
  taken,      \* publication count of the block last computed on (-1: none)
  working,    \* block of the computation in flight, NoNumber when idle
  result,     \* the current result
  returned    \* "none", or why the call returned: "deadline" | "stream"

avars == <<latest, published, open, taken, working, result, returned>>

Blocks == BlockNumbers \cup {NoNumber}
Ok(b) == [kind |-> "ok", block |-> b]
Err(e) == [kind |-> e, block |-> NoNumber]

Init ==
  /\ latest \in Blocks
  /\ published = 0
  /\ open = TRUE
  /\ taken = -1
  /\ working = NoNumber
  /\ result = Err("deadline")
  /\ returned = "none"

Publish(b) ==
  /\ open /\ published < MaxSends
  /\ latest' = b /\ published' = published + 1
  /\ UNCHANGED <<open, taken, working, result, returned>>

Close ==
  /\ open /\ open' = FALSE
  /\ UNCHANGED <<latest, published, taken, working, result, returned>>

(* Take the newest block; one without a number fails at once. *)
Take ==
  /\ returned = "none" /\ working = NoNumber
  /\ published > taken
  /\ taken' = published
  /\ \/ latest = NoNumber /\ result' = Err("noBlockNumber") /\ UNCHANGED working
     \/ latest # NoNumber /\ working' = latest /\ UNCHANGED result
  /\ UNCHANGED <<latest, published, open, returned>>

(* The computation in flight ends with a summary of its block, or an error. *)
Complete ==
  /\ returned = "none" /\ working # NoNumber
  /\ result' \in {Ok(working), Err("convertFailed"), Err("commitFailed")}
  /\ working' = NoNumber
  /\ UNCHANGED <<latest, published, open, taken, returned>>

(* The stream has ended and nothing newer than the last taken block exists. *)
ReturnOnEnd ==
  /\ returned = "none" /\ working = NoNumber
  /\ ~open /\ published = taken
  /\ returned' = "stream"
  /\ UNCHANGED <<latest, published, open, taken, working, result>>

(* The deadline: return the current result, dropping any computation. *)
ReturnOnDeadline ==
  /\ returned = "none"
  /\ returned' = "deadline" /\ working' = NoNumber
  /\ UNCHANGED <<latest, published, open, taken, result>>

Next ==
  \/ \E b \in Blocks : Publish(b)
  \/ Close \/ Take \/ Complete \/ ReturnOnEnd \/ ReturnOnDeadline

Spec == Init /\ [][Next]_avars /\ WF_avars(ReturnOnDeadline)

=============================================================================
