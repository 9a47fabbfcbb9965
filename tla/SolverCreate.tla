---------------------------- MODULE SolverCreate ----------------------------
(***************************************************************************)
(* solver::create in crates/solver/src/solver.rs: the driver's solvers are *)
(* built from the configured (account, SolverType) pairs, in order, then   *)
(* the external HTTP solvers are appended.                                 *)
(*                                                                         *)
(* The configured pairs go through an iterator map whose closure builds    *)
(* one solver and may fail, and collect::<Result<_>>() stops at the first  *)
(* Err: the constructors after it never run.  Three constructors can fail: *)
(* OneInchSolver's `?`, BalancerSor's missing vault and its                *)
(* DefaultBalancerSorApi::new `?`; ZeroExSolver::new is unwrapped and      *)
(* panics instead.  A solver is abstracted to what the driver can tell     *)
(* apart: its type, whether it is an HttpSolver and with which instance    *)
(* cache, order filter and buffer setting, whether it is wrapped in a      *)
(* SingleOrderSolver, and the kind of its account.                         *)
(*                                                                         *)
(* Before create runs, clap parses each --external-solvers value with      *)
(* ExternalSolverArg::from_str (module SolverArgs) and exits on the first  *)
(* value that does not parse; create receives the parsed values.  Of an    *)
(* external solver's name, url and account, create only tells the account  *)
(* kind apart: the name and url are handed to the HttpSolver unchanged.     *)
(***************************************************************************)
EXTENDS Naturals, Sequences, SequencesExt, SolverArgs

CONSTANTS
  MaxSolvers,   \* bound on the configured solvers
  MaxExternal   \* bound on the external solvers

ASSUME BoundsAssumption == MaxSolvers \in Nat /\ MaxExternal \in Nat

(* SolverType. *)
SolverTypes == {"Naive", "Baseline", "Mip", "CowDexAg", "OneInch", "Paraswap",
                "ZeroEx", "Quasimodo", "BalancerSor"}

(***************************************************************************)
(* The arguments of create that decide what it builds: the external       *)
(* solvers ext, the configured types, the optional vault, the buffer       *)
(* flags, and whether each fallible constructor succeeds with the          *)
(* arguments it is given.                                                  *)
(***************************************************************************)
Settings(ext) ==
  [externals : {ext}, types : BoundedSeq(SolverTypes, MaxSolvers),
   vault : BOOLEAN, oneInchOk : BOOLEAN, zeroExOk : BOOLEAN, sorApiOk : BOOLEAN,
   mipBuffers : BOOLEAN, quasimodoBuffers : BOOLEAN]

(* SolverAccountArg::into_account. *)
IntoAccount(arg) == IF arg = "PrivateKey" THEN "Offline" ELSE "Local"

(* A built solver; buffers is {} for use_internal_buffers: None. *)
Solver(kind, http, cache, filter, buffers, single, account) ==
  [kind |-> kind, http |-> http, cache |-> cache, filter |-> filter,
   buffers |-> buffers, single |-> single, account |-> account]

Plain(kind) == Solver(kind, FALSE, "none", FALSE, {}, FALSE, "Configured")
SingleOrder(kind) == Solver(kind, FALSE, "none", FALSE, {}, TRUE, "Configured")

(***************************************************************************)
(* create_http_solver: the instance cache is chosen by the filter flag,    *)
(* so solvers that drop orders with non-fee-connected tokens never share  *)
(* a cache with the ones that keep them.                                   *)
(***************************************************************************)
CreateHttpSolver(kind, account, buffers, filter) ==
  Solver(kind, TRUE, IF filter THEN "filtered" ELSE "all", filter, buffers, FALSE, account)

(***************************************************************************)
(* The map closure for one configured type: [ok |-> solver], [err |-> e],  *)
(* or [panic |-> e] for the unwrap of ZeroExSolver::new.                   *)
(***************************************************************************)
Build(cfg, t) ==
  CASE t \in {"Naive", "Baseline"} -> [ok |-> Plain(t)]
    [] t = "Mip" -> [ok |-> CreateHttpSolver(t, "Configured", {cfg.mipBuffers}, TRUE)]
    [] t = "CowDexAg" -> [ok |-> CreateHttpSolver(t, "Configured", {}, FALSE)]
    [] t = "Quasimodo" ->
         [ok |-> CreateHttpSolver(t, "Configured", {cfg.quasimodoBuffers}, TRUE)]
    [] t = "OneInch" ->
         IF cfg.oneInchOk THEN [ok |-> SingleOrder(t)] ELSE [err |-> "oneInch"]
    [] t = "ZeroEx" -> IF cfg.zeroExOk THEN [ok |-> SingleOrder(t)] ELSE [panic |-> "zeroEx"]
    [] t = "Paraswap" -> [ok |-> SingleOrder(t)]
    [] t = "BalancerSor" ->
         IF ~cfg.vault THEN [err |-> "missingVault"]
         ELSE IF ~cfg.sorApiOk THEN [err |-> "sorApi"]
         ELSE [ok |-> SingleOrder(t)]

(* The external solvers: HTTP, unfiltered, MIP's buffer setting. *)
ExternalSolvers(cfg) ==
  [k \in 1..Len(cfg.externals) |->
     CreateHttpSolver("External", IntoAccount(cfg.externals[k]), {cfg.mipBuffers}, FALSE)]

VARIABLES
  arg,        \* the --external-solvers value clap is parsing
  parsed,     \* its from_str result; Pending when none is being parsed
  externals,  \* account kinds of the external solvers parsed so far
  cfg,      \* the arguments of the call
  i,        \* next configured pair the iterator yields
  solvers,  \* the solvers collected so far
  status    \* "parsing" | "argError" | "building" | "extending" | "ok" | "err" | "panic"

vars == <<arg, parsed, externals, cfg, i, solvers, status>>

Pending == [pending |-> TRUE]

Init ==
  /\ arg = << >> /\ parsed = Pending /\ externals = << >>
  /\ cfg = [externals |-> << >>]
  /\ i = 1
  /\ solvers = << >>
  /\ status = "parsing"

(* clap calls from_str on the next --external-solvers value. *)
ReadExternalSolverArg ==
  /\ status = "parsing" /\ parsed = Pending /\ Len(externals) < MaxExternal
  /\ \E s \in Strings : arg' = s /\ parsed' = ExternalSolverArgFromStr(s)
  /\ UNCHANGED <<externals, cfg, i, solvers, status>>

(* clap keeps a value that parsed, and exits with the error of one that did not. *)
AcceptExternalSolverArg ==
  /\ status = "parsing" /\ parsed # Pending
  /\ IF "ok" \in DOMAIN parsed
       THEN /\ externals' = Append(externals, parsed.ok.account.kind)
            /\ arg' = << >> /\ parsed' = Pending
            /\ UNCHANGED status
       ELSE status' = "argError" /\ UNCHANGED <<arg, parsed, externals>>
  /\ UNCHANGED <<cfg, i, solvers>>

(* main calls create with the parsed external solvers and its other arguments. *)
StartCreate ==
  /\ status = "parsing" /\ parsed = Pending
  /\ cfg' \in Settings(externals)
  /\ status' = "building"
  /\ UNCHANGED <<arg, parsed, externals, i, solvers>>

(* Faulty variant: a failing constructor is skipped, as filter_map(Result::ok) would. *)
BuildNextSkippingErrors ==
  /\ status = "building" /\ i <= Len(cfg.types)
  /\ LET r == Build(cfg, cfg.types[i]) IN
       IF "panic" \in DOMAIN r THEN status' = "panic" /\ UNCHANGED <<i, solvers>>
       ELSE /\ solvers' = IF "ok" \in DOMAIN r THEN Append(solvers, r.ok) ELSE solvers
            /\ i' = i + 1 /\ UNCHANGED status
  /\ UNCHANGED <<arg, parsed, externals, cfg>>

(***************************************************************************)
(* collect pulls the next pair through the closure: a solver is pushed, an *)
(* Err ends create with that error, the unwrap's panic unwinds.            *)
(***************************************************************************)
BuildNext ==
  /\ status = "building" /\ i <= Len(cfg.types)
  /\ LET r == Build(cfg, cfg.types[i]) IN
       CASE "panic" \in DOMAIN r -> status' = "panic" /\ UNCHANGED <<i, solvers>>
         [] "err" \in DOMAIN r -> status' = "err" /\ UNCHANGED <<i, solvers>>
         [] OTHER -> solvers' = Append(solvers, r.ok) /\ i' = i + 1 /\ UNCHANGED status
  /\ UNCHANGED <<arg, parsed, externals, cfg>>

(* The iterator is exhausted: collect returns Ok. *)
Collected ==
  /\ status = "building" /\ i = Len(cfg.types) + 1
  /\ status' = "extending"
  /\ UNCHANGED <<arg, parsed, externals, cfg, i, solvers>>

(* solvers.extend(external_solvers); Ok(solvers). *)
ExtendExternal ==
  /\ status = "extending"
  /\ solvers' = solvers \o ExternalSolvers(cfg)
  /\ status' = "ok"
  /\ UNCHANGED <<arg, parsed, externals, cfg, i>>

Next ==
  \/ ReadExternalSolverArg \/ AcceptExternalSolverArg \/ StartCreate
  \/ BuildNext \/ Collected \/ ExtendExternal

Spec == Init /\ [][Next]_vars

-----------------------------------------------------------------------------
(* Properties. *)

(***************************************************************************)
(* The parser reads back what the documented format writes               *)
(* (parse_external_solver_arg test): when the argument is "name|url|      *)
(* account" for a name and a url without separator, an accepted url and an *)
(* accepted account, it parses to exactly those fields; and whatever      *)
(* parses, even from an argument whose url contains '|' (which Url        *)
(* accepts), is the "name|url|account" of a prefix of the argument, with   *)
(* name and url free of separators.                                        *)
(***************************************************************************)
ParseMatchesFormat ==
  /\ \A p, q \in 1..Len(arg) :
       LET n == SubSeq(arg, 1, p - 1)
           u == SubSeq(arg, p + 1, q - 1)
           a == SubSeq(arg, q + 1, Len(arg))
       IN  /\ arg = Join(n, u, a) /\ Sep \notin ToSet(n) /\ Sep \notin ToSet(u)
           /\ u \in UrlTexts /\ a \in KeyTexts \cup AddressTexts
           /\ parsed # Pending
           => /\ "ok" \in DOMAIN parsed
              /\ parsed.ok.name = n /\ parsed.ok.url = u /\ parsed.ok.account.text = a
  /\ "ok" \in DOMAIN parsed =>
       /\ IsPrefix(Join(parsed.ok.name, parsed.ok.url, parsed.ok.account.text), arg)
       /\ Sep \notin ToSet(parsed.ok.name) \cup ToSet(parsed.ok.url)

(* Reference: the first configured type whose constructor does not succeed. *)
Failing(c) == {k \in 1..Len(c.types) : "ok" \notin DOMAIN Build(c, c.types[k])}
FirstFailing(c) == CHOOSE k \in Failing(c) : \A j \in Failing(c) : k <= j

(***************************************************************************)
(* create is all or nothing and keeps the configured order: it returns Ok  *)
(* with one solver per configured pair, in order, followed by one per      *)
(* external solver, exactly when every constructor succeeds; otherwise it  *)
(* fails with the outcome of the first constructor that does not succeed   *)
(* (an error, or the ZeroEx panic), and no later one runs.                 *)
(***************************************************************************)
CreateAllOrNothing ==
  /\ status = "ok" =>
       /\ Failing(cfg) = {}
       /\ solvers = [k \in 1..Len(cfg.types) |-> Build(cfg, cfg.types[k]).ok]
                      \o ExternalSolvers(cfg)
  /\ status \in {"err", "panic"} =>
       /\ Failing(cfg) # {}
       /\ i = FirstFailing(cfg)
       /\ (status = "panic") = ("panic" \in DOMAIN Build(cfg, cfg.types[i]))

=============================================================================
