------------------------- MODULE DriverExecuteProofs -------------------------
(***************************************************************************)
(* Proofs about the /execute handler, for every set of calls and summaries. *)
(***************************************************************************)
EXTENDS DriverExecute, TLAPS

(***************************************************************************)
(* The inductive invariant: the types, and no call holds a simulation      *)
(* whose gas estimate failed.  The second conjunct is what makes the       *)
(* `expect` of submit_settlement safe: validate_settlement returns early   *)
(* on a failed estimate, so such a simulation never reaches the submit     *)
(* step.                                                                   *)
(***************************************************************************)
IInv ==
  /\ TypeOK
  /\ \A c \in Calls : simulation[c] # "gasEstimateError"
  /\ NoPanic

LEMMA InitIInv == Init => IInv
BY DEF Init, IInv, TypeOK, NoPanic, PcValues, Outcomes, SimOutcomes

LEMMA NextIInv == IInv /\ [Next]_vars => IInv'
<1> SUFFICES ASSUME IInv, [Next]_vars PROVE IInv'
  OBVIOUS
<1>1. ASSUME NEW c \in Calls, NEW s \in Summaries, Receive(c, s) PROVE IInv'
  BY <1>1 DEF Receive, IInv, TypeOK, NoPanic, PcValues
<1>2. ASSUME NEW c \in Calls, Reveal(c) PROVE IInv'
  BY <1>2 DEF Reveal, Finish, IInv, TypeOK, NoPanic, PcValues, Outcomes
<1>3. ASSUME NEW c \in Calls, EstimateGasPrice(c) PROVE IInv'
  BY <1>3 DEF EstimateGasPrice, Finish, IInv, TypeOK, NoPanic, PcValues, Outcomes
<1>4. ASSUME NEW c \in Calls, Simulate(c) PROVE IInv'
  <2>1. PICK o \in SimOutcomes :
          CASE o = "rpcError" -> Finish(c, "simulateFailed") /\ UNCHANGED simulation
            [] o = "empty" -> Finish(c, "noResults") /\ UNCHANGED simulation
            [] o = "gasEstimateError" /\ TRUE ->
                 Finish(c, "simulationFailed") /\ UNCHANGED simulation
            [] OTHER ->
                 /\ simulation' = [simulation EXCEPT ![c] = o]
                 /\ pc' = [pc EXCEPT ![c] = "submit"]
                 /\ UNCHANGED result
    BY <1>4 DEF Simulate, SimulateWith
  <2>2. UNCHANGED summary
    BY <1>4 DEF Simulate, SimulateWith
  <2>0. pc[c] = "simulate"
    BY <1>4 DEF Simulate, SimulateWith
  <2>3. ASSUME NEW e \in Outcomes \ {"panic"}, Finish(c, e), UNCHANGED simulation
        PROVE IInv'
    BY <2>0, <2>2, <2>3 DEF Finish, IInv, TypeOK, NoPanic, PcValues, Outcomes
  <2>4. CASE o = "rpcError"
    BY <2>1, <2>3, <2>4 DEF Outcomes
  <2>5. CASE o = "empty"
    BY <2>1, <2>3, <2>5 DEF Outcomes
  <2>6. CASE o = "gasEstimateError"
    BY <2>1, <2>3, <2>6 DEF Outcomes
  <2>7. CASE o = "gasEstimate"
    <3>1. /\ simulation' = [simulation EXCEPT ![c] = "gasEstimate"]
          /\ pc' = [pc EXCEPT ![c] = "submit"]
          /\ UNCHANGED result
      BY <2>1, <2>7
    <3>2. QED
      BY <2>0, <2>2, <3>1 DEF IInv, TypeOK, NoPanic, PcValues, SimOutcomes
  <2>8. QED
    BY <2>4, <2>5, <2>6, <2>7 DEF SimOutcomes
<1>5. ASSUME NEW c \in Calls, Submit(c) PROVE IInv'
  <2>1. simulation[c] # "gasEstimateError"
    BY DEF IInv
  <2>2. /\ \E o \in {"txHash", "submissionFailed"} : Finish(c, o)
        /\ UNCHANGED <<summary, simulation>>
    BY <1>5, <2>1 DEF Submit
  <2>3. PICK o \in {"txHash", "submissionFailed"} : Finish(c, o)
    BY <2>2
  <2>5. pc' \in [Calls -> PcValues] /\ result' \in [Calls -> Outcomes]
    BY <2>3 DEF Finish, IInv, TypeOK, PcValues, Outcomes
  <2>6. NoPanic'
    BY <2>3 DEF Finish, IInv, NoPanic
  <2>7. QED
    BY <2>2, <2>3, <2>5, <2>6 DEF Finish, IInv, TypeOK
<1>6. CASE UNCHANGED vars
  BY <1>6 DEF vars, IInv, TypeOK, NoPanic
<1>7. QED
  BY <1>1, <1>2, <1>3, <1>4, <1>5, <1>6 DEF Next

THEOREM IInvariant == Spec => []IInv
BY InitIInv, NextIInv, PTL DEF Spec

(***************************************************************************)
(* Type correctness of the /execute handler model.                         *)
(***************************************************************************)
THEOREM TypeCorrect == Spec => []TypeOK
BY IInvariant, PTL DEF IInv

(***************************************************************************)
(* The `expect` of submit_settlement never fires, however many /execute    *)
(* calls interleave: NoPanic holds in every state.                         *)
(***************************************************************************)
THEOREM SubmitNeverPanics == Spec => []NoPanic
BY IInvariant, PTL DEF IInv
=============================================================================
