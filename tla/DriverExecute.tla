--------------------------- MODULE DriverExecute ---------------------------
(***************************************************************************)
(* Driver::on_auction_won in crates/driver/src/driver.rs: the /execute     *)
(* handler that reveals the settlement behind a summary, validates it by   *)
(* simulation and submits it.  Several /execute calls may be in flight at  *)
(* once (the HTTP server runs each request as its own task), and the       *)
(* autopilot may send the same summary more than once.                     *)
(*                                                                         *)
(* A settlement is identified by the summary it was revealed from: the     *)
(* solver's commit/reveal contract (spec section 4.3) binds the two.  The  *)
(* collaborators (solver, gas price estimator, settlement rater,           *)
(* submitter) are outside src/; their answers are chosen                   *)
(* nondeterministically among the outcomes their interfaces allow.         *)
(***************************************************************************)
EXTENDS Naturals

CONSTANTS
  Calls,       \* /execute requests
  Summaries,   \* settlement summaries the autopilot may send
  NoSummary

ASSUME NoSummaryAssumption == NoSummary \notin Summaries

(* Steps of one call of on_auction_won. *)
PcValues == {"idle", "reveal", "gasPrice", "simulate", "submit", "done"}

(***************************************************************************)
(* What a call returns.  "txHash" is Ok(receipt.transaction_hash);         *)
(* "rejected" is ExecuteError::ExecutionRejected; the other errors are the *)
(* `?` exits of reveal, gas price estimation, simulate_settlements, the    *)
(* empty result vector, the failed gas estimate, and the submitter.        *)
(* "panic" is the `expect` of submit_settlement firing.                    *)
(***************************************************************************)
Outcomes == {"none", "txHash", "rejected", "revealFailed", "gasPriceFailed",
             "simulateFailed", "noResults", "simulationFailed",
             "submissionFailed", "panic"}

(* What the settlement rater's simulation of the one settlement gives. *)
SimOutcomes == {"gasEstimate", "gasEstimateError", "empty", "rpcError"}

VARIABLES
  pc,          \* pc[c]: step of call c
  summary,     \* summary[c]: the summary call c was sent
  simulation,  \* simulation[c]: the SimulationDetails' gas estimate, or "none"
  result       \* result[c]: what call c returned

vars == <<pc, summary, simulation, result>>

TypeOK ==
  /\ pc \in [Calls -> PcValues]
  /\ summary \in [Calls -> Summaries \cup {NoSummary}]
  /\ simulation \in [Calls -> SimOutcomes \cup {"none"}]
  /\ result \in [Calls -> Outcomes]

Init ==
  /\ pc = [c \in Calls |-> "idle"]
  /\ summary = [c \in Calls |-> NoSummary]
  /\ simulation = [c \in Calls |-> "none"]
  /\ result = [c \in Calls |-> "none"]

(* Call c ends with outcome o. *)
Finish(c, o) ==
  /\ pc' = [pc EXCEPT ![c] = "done"]
  /\ result' = [result EXCEPT ![c] = o]

-----------------------------------------------------------------------------

(* POST /execute with summary s reaches on_auction_won. *)
Receive(c, s) ==
  /\ pc[c] = "idle"
  /\ pc' = [pc EXCEPT ![c] = "reveal"]
  /\ summary' = [summary EXCEPT ![c] = s]
  /\ UNCHANGED <<simulation, result>>

(***************************************************************************)
(* self.solver.reveal(&summary).await?: an error ends the call, None ends  *)
(* it with ExecutionRejected, Some(settlement) goes on to validation.      *)
(***************************************************************************)
Reveal(c) ==
  /\ pc[c] = "reveal"
  /\ \/ pc' = [pc EXCEPT ![c] = "gasPrice"] /\ UNCHANGED result
     \/ Finish(c, "rejected")
     \/ Finish(c, "revealFailed")
  /\ UNCHANGED <<summary, simulation>>

(* validate_settlement: self.gas_price_estimator.estimate().await? *)
EstimateGasPrice(c) ==
  /\ pc[c] = "gasPrice"
  /\ \/ pc' = [pc EXCEPT ![c] = "simulate"] /\ UNCHANGED result
     \/ Finish(c, "gasPriceFailed")
  /\ UNCHANGED <<summary, simulation>>

(***************************************************************************)
(* validate_settlement: simulate_settlements(...).await?, .pop().context,  *)
(* then the match on simulation_details.gas_estimate.  The faulty variant  *)
(* below passes the details on without looking at the gas estimate.       *)
(***************************************************************************)
SimulateWith(c, checked) ==
  /\ pc[c] = "simulate"
  /\ \E o \in SimOutcomes :
       CASE o = "rpcError" -> Finish(c, "simulateFailed") /\ UNCHANGED simulation
         [] o = "empty" -> Finish(c, "noResults") /\ UNCHANGED simulation
         [] o = "gasEstimateError" /\ checked ->
              Finish(c, "simulationFailed") /\ UNCHANGED simulation
         [] OTHER ->
              /\ simulation' = [simulation EXCEPT ![c] = o]
              /\ pc' = [pc EXCEPT ![c] = "submit"]
              /\ UNCHANGED result
  /\ UNCHANGED summary

SimulateUnchecked(c) == SimulateWith(c, FALSE)

Simulate(c) == SimulateWith(c, TRUE)

(***************************************************************************)
(* Driver::submit_settlement: simulation_details.gas_estimate.expect(...)  *)
(* panics on an error estimate; otherwise the settlement is handed to the  *)
(* submitter, which broadcasts it and returns a receipt or an error.       *)
(***************************************************************************)
Submit(c) ==
  /\ pc[c] = "submit"
  /\ IF simulation[c] = "gasEstimateError"
       THEN Finish(c, "panic")
       ELSE \E o \in {"txHash", "submissionFailed"} : Finish(c, o)
  /\ UNCHANGED <<summary, simulation>>

Next ==
  \E c \in Calls :
    \/ \E s \in Summaries : Receive(c, s)
    \/ Reveal(c)
    \/ EstimateGasPrice(c)
    \/ Simulate(c)
    \/ Submit(c)

Spec == Init /\ [][Next]_vars

-----------------------------------------------------------------------------
(* Properties. *)

(***************************************************************************)
(* The `expect` in submit_settlement never fires: a settlement reaches the *)
(* submitter only after validate_settlement has seen its gas estimate      *)
(* succeed, a check made in another function before another await.        *)
(***************************************************************************)
NoPanic == \A c \in Calls : result[c] # "panic"

=============================================================================
