-------------------------- MODULE SolveLoopProofs --------------------------
(***************************************************************************)
(* Proofs about the solve loop, for every set of block numbers and every   *)
(* bound on the blocks published.                                          *)
(***************************************************************************)
EXTENDS SolveLoop, TLAPS

(***************************************************************************)
(* The inductive invariant.  TypeOK alone is not inductive: CommitOk needs *)
(* the block in flight to carry a number, which PollBlock ensures.  The    *)
(* stream bookkeeping conjuncts say that the WatchStream's seen version is *)
(* the version of the latest computation and never ahead of the channel,   *)
(* and that once the loop returned through the stream's end the channel is *)
(* closed, so no later send can make an older computation stale.           *)
(***************************************************************************)
IInv ==
  /\ TypeOK
  /\ loopPc \in {"convert", "commit"} => block \in BlockNumbers
  /\ seen = iterVersion
  /\ iterVersion <= chanVersion
  /\ loopPc = "start" => iterVersion = -1
  /\ doneBy # "none" => loopPc = "done"
  /\ doneBy = "stream" => iterVersion = chanVersion /\ ~senderAlive

LEMMA InitIInv == Init => IInv
BY BlockNumbersAssumption, NoNumberAssumption
   DEF Init, IInv, TypeOK, Blocks, Results, Err, ErrorKinds, PcValues

LEMMA NextIInv == IInv /\ [Next]_vars => IInv'
<1> SUFFICES ASSUME IInv, [Next]_vars PROVE IInv'
  OBVIOUS
<1> USE BlockNumbersAssumption, NoNumberAssumption
<1>1. ASSUME NEW b \in Blocks, Send(b) PROVE IInv'
  BY <1>1 DEF Send, IInv, TypeOK, loop, history
<1>2. CASE DropSender
  BY <1>2 DEF DropSender, IInv, TypeOK, loop, history
<1>3. CASE PollBlock
  <2>1. CASE chanBlock = NoNumber
    BY <1>3, <2>1 DEF PollBlock, IInv, TypeOK, Results, Err,
                      ErrorKinds, PcValues, stream
  <2>2. CASE chanBlock # NoNumber
    BY <1>3, <2>2 DEF PollBlock, IInv, TypeOK, Blocks, PcValues,
                      stream
  <2>3. QED BY <2>1, <2>2
<1>4. CASE ConvertOk
  BY <1>4 DEF ConvertOk, IInv, TypeOK, PcValues, history, stream
<1>5. CASE ConvertFail
  BY <1>5 DEF ConvertFail, IInv, TypeOK, Results, Err, ErrorKinds, PcValues,
              history, stream
<1>6. CASE CommitOk
  BY <1>6 DEF CommitOk, IInv, TypeOK, Results, Ok, PcValues, history, stream
<1>7. CASE CommitFail
  BY <1>7 DEF CommitFail, IInv, TypeOK, Results, Err, ErrorKinds, PcValues,
              history, stream
<1>8. CASE StreamEnd
  BY <1>8 DEF StreamEnd, IInv, TypeOK, PcValues, stream
<1>9. CASE Timeout
  BY <1>9 DEF Timeout, IInv, TypeOK, PcValues, stream
<1>10. CASE UNCHANGED vars
  BY <1>10 DEF vars, stream, loop, history, IInv, TypeOK
<1>11. QED
  BY <1>1, <1>2, <1>3, <1>4, <1>5, <1>6, <1>7, <1>8, <1>9, <1>10
     DEF Next, Producer, Loop

THEOREM IInvariant == Spec => []IInv
BY InitIInv, NextIInv, PTL DEF Spec

(***************************************************************************)
(* Type correctness of the solve loop.                                     *)
(***************************************************************************)
THEOREM TypeCorrect == Spec => []TypeOK
BY IInvariant, PTL DEF IInv

-----------------------------------------------------------------------------
(* Refinement of SolveSpec (its safety part). *)

LEMMA InitRefines == Init => Abstract!Init
BY DEF Init, Abstract!Init, Working, Abstract!Blocks, Blocks, Err, Abstract!Err

(***************************************************************************)
(* Every step of the loop is a step of SolveSpec or leaves the mapped      *)
(* state unchanged.  The invariant supplies what the abstract guards need: *)
(* the loop has not returned while it still polls or computes, the seen    *)
(* version is the version last computed on, and a block in flight has a   *)
(* number.                                                                 *)
(***************************************************************************)
LEMMA NextRefines == IInv /\ [Next]_vars => [Abstract!Next]_Abstract!avars
<1> SUFFICES ASSUME IInv, [Next]_vars PROVE [Abstract!Next]_Abstract!avars
  OBVIOUS
<1> USE BlockNumbersAssumption, NoNumberAssumption
<1>0. loopPc # "done" => doneBy = "none"
  BY DEF IInv
<1>1. ASSUME NEW b \in Blocks, Send(b) PROVE [Abstract!Next]_Abstract!avars
  <2>1. Abstract!Publish(b)
    BY <1>1 DEF Send, Abstract!Publish, Working, loop, history
  <2>2. b \in Abstract!Blocks
    BY DEF Blocks, Abstract!Blocks
  <2>3. QED BY <2>1, <2>2 DEF Abstract!Next
<1>2. CASE DropSender
  <2>1. Abstract!Close
    BY <1>2 DEF DropSender, Abstract!Close, Working, loop, history
  <2>2. QED BY <2>1 DEF Abstract!Next
<1>3. CASE PollBlock
  <2>1. /\ loopPc \in {"start", "poll"} /\ doneBy = "none"
        /\ chanVersion > iterVersion
    BY <1>3, <1>0 DEF PollBlock, IInv, TypeOK
  <2>2. Abstract!Take
    BY <1>3, <2>1 DEF PollBlock, Abstract!Take, Working, stream,
                      Err, Abstract!Err
  <2>3. QED BY <2>2 DEF Abstract!Next
<1>4. CASE ConvertOk
  BY <1>4 DEF ConvertOk, Abstract!avars, Working, stream, history
<1>5. CASE ConvertFail
  <2>1. block \in BlockNumbers /\ doneBy = "none"
    BY <1>5, <1>0 DEF ConvertFail, IInv
  <2>2. Abstract!Complete
    BY <1>5, <2>1 DEF ConvertFail, Abstract!Complete, Working, stream, history, Err,
                      Abstract!Err
  <2>3. QED BY <2>2 DEF Abstract!Next
<1>6. CASE CommitOk
  <2>1. block \in BlockNumbers /\ doneBy = "none"
    BY <1>6, <1>0 DEF CommitOk, IInv
  <2>2. Abstract!Complete
    BY <1>6, <2>1 DEF CommitOk, Abstract!Complete, Working, stream, history, Ok,
                      Abstract!Ok
  <2>3. QED BY <2>2 DEF Abstract!Next
<1>7. CASE CommitFail
  <2>1. block \in BlockNumbers /\ doneBy = "none"
    BY <1>7, <1>0 DEF CommitFail, IInv
  <2>2. Abstract!Complete
    BY <1>7, <2>1 DEF CommitFail, Abstract!Complete, Working, stream, history, Err,
                      Abstract!Err
  <2>3. QED BY <2>2 DEF Abstract!Next
<1>8. CASE StreamEnd
  <2>1. doneBy = "none" /\ chanVersion = iterVersion
    BY <1>8, <1>0 DEF StreamEnd, IInv
  <2>2. Abstract!ReturnOnEnd
    BY <1>8, <2>1 DEF StreamEnd, Abstract!ReturnOnEnd, Working, stream
  <2>3. QED BY <2>2 DEF Abstract!Next
<1>9. CASE Timeout
  <2>1. doneBy = "none"
    BY <1>9, <1>0 DEF Timeout
  <2>2. Abstract!ReturnOnDeadline
    BY <1>9, <2>1 DEF Timeout, Abstract!ReturnOnDeadline, Working, stream
  <2>3. QED BY <2>2 DEF Abstract!Next
<1>10. CASE UNCHANGED vars
  BY <1>10 DEF vars, stream, loop, history, Abstract!avars, Working
<1>11. QED
  BY <1>1, <1>2, <1>3, <1>4, <1>5, <1>6, <1>7, <1>8, <1>9, <1>10
     DEF Next, Producer, Loop

(***************************************************************************)
(* The solve loop implements the abstract solve specification: under the   *)
(* refinement mapping Abstract of SolveLoop, every behaviour of           *)
(* solve_until_deadline with its block stream is a behaviour of SolveSpec  *)
(* (safety part; the fairness conjunct is checked by TLC).                 *)
(***************************************************************************)
THEOREM RefinesSolveSpec == Spec => Abstract!Init /\ [][Abstract!Next]_Abstract!avars
BY IInvariant, InitRefines, NextRefines, PTL DEF Spec
=============================================================================
