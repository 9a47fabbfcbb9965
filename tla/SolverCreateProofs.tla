------------------------- MODULE SolverCreateProofs -------------------------
(***************************************************************************)
(* Proofs about solver::create, for every bound on the configured and      *)
(* external solvers and every set of accepted texts.  What from_str        *)
(* computes (ParseMatchesFormat) rests on Split, a sort and sequence       *)
(* slicing over every string: it is left to TLC.                           *)
(***************************************************************************)
EXTENDS SolverCreate, TLAPS

(* The solvers the first n configured pairs build. *)
BuiltPrefix(n) == [k \in 1..n |-> Build(cfg, cfg.types[k]).ok]

(***************************************************************************)
(* The inductive invariant.  CreateAllOrNothing speaks only of the end of  *)
(* create; during collect the invariant says what has been done so far:    *)
(* the first i - 1 constructors succeeded and their solvers were pushed in *)
(* order; an error or a panic is the outcome of constructor i.  Before     *)
(* create starts nothing is built.                                         *)
(***************************************************************************)
IInv ==
  /\ status \in {"parsing", "argError", "building", "extending", "ok", "err", "panic"}
  /\ status \in {"parsing", "argError"} => i = 1 /\ solvers = << >>
  /\ status \in {"building", "extending", "ok", "err", "panic"} =>
       /\ cfg.types \in Seq(SolverTypes)
       /\ i \in 1..(Len(cfg.types) + 1)
       /\ \A k \in 1..(i - 1) : "ok" \in DOMAIN Build(cfg, cfg.types[k])
  /\ status \in {"building", "extending", "err", "panic"} => solvers = BuiltPrefix(i - 1)
  /\ status \in {"extending", "ok"} => i = Len(cfg.types) + 1
  /\ status = "ok" => solvers = BuiltPrefix(i - 1) \o ExternalSolvers(cfg)
  /\ status \in {"err", "panic"} =>
       /\ i <= Len(cfg.types)
       /\ "ok" \notin DOMAIN Build(cfg, cfg.types[i])
       /\ (status = "panic") = ("panic" \in DOMAIN Build(cfg, cfg.types[i]))

(***************************************************************************)
(* The map closure has exactly one outcome for every configured type: a    *)
(* solver, an error or a panic.                                            *)
(***************************************************************************)
LEMMA BuildShape ==
  ASSUME NEW c, NEW t \in SolverTypes
  PROVE  \/ DOMAIN Build(c, t) = {"ok"}
         \/ DOMAIN Build(c, t) = {"err"}
         \/ DOMAIN Build(c, t) = {"panic"}
BY DEF Build, SolverTypes

(* Pushing the next built solver extends the built prefix by one. *)
LEMMA BuiltPrefixAppend ==
  ASSUME NEW n \in Nat \ {0}
  PROVE  Append(BuiltPrefix(n - 1), Build(cfg, cfg.types[n]).ok) = BuiltPrefix(n)
BY DEF BuiltPrefix

(* A sequence bounded by MaxSolvers is a sequence. *)
LEMMA BoundedIsSeq ==
  ASSUME NEW S, NEW s \in BoundedSeq(S, MaxSolvers)
  PROVE  s \in Seq(S)
<1>1. PICK m \in 0..MaxSolvers : s \in [1..m -> S]
  BY DEF BoundedSeq, SeqOf
<1>2. QED
  BY <1>1, BoundsAssumption

(* Before clap has parsed any argument, nothing is built. *)
LEMMA InitIInv == Init => IInv
BY DEF Init, IInv

(***************************************************************************)
(* Every step of the argument parsing and of create keeps the invariant.   *)
(***************************************************************************)
LEMMA NextIInv == IInv /\ [Next]_vars => IInv'
<1> SUFFICES ASSUME IInv, [Next]_vars PROVE IInv'
  OBVIOUS
<1>1. CASE ReadExternalSolverArg
  BY <1>1 DEF ReadExternalSolverArg, IInv
<1>2. CASE AcceptExternalSolverArg
  BY <1>2 DEF AcceptExternalSolverArg, IInv
<1>3. CASE StartCreate
  <2>1. cfg' \in Settings(externals)
    BY <1>3 DEF StartCreate
  <2>2. cfg'.types \in BoundedSeq(SolverTypes, MaxSolvers)
    BY <2>1 DEF Settings
  <2>3. cfg'.types \in Seq(SolverTypes)
    BY <2>2, BoundedIsSeq
  <2>4. i = 1 /\ solvers = << >> /\ i' = 1 /\ solvers' = << >> /\ status' = "building"
    BY <1>3 DEF StartCreate, IInv
  <2>5. BuiltPrefix(0)' = << >>
    BY DEF BuiltPrefix
  <2>6. QED
    BY <2>3, <2>4, <2>5 DEF IInv
<1>4. CASE BuildNext
  <2> DEFINE r == Build(cfg, cfg.types[i])
  <2>1. /\ status = "building" /\ cfg.types \in Seq(SolverTypes)
        /\ i \in 1..Len(cfg.types) /\ UNCHANGED cfg
        /\ solvers = BuiltPrefix(i - 1)
        /\ \A k \in 1..(i - 1) : "ok" \in DOMAIN Build(cfg, cfg.types[k])
    BY <1>4 DEF BuildNext, IInv
  <2>2. cfg.types[i] \in SolverTypes
    BY <2>1
  <2>3. CASE DOMAIN r = {"panic"}
    <3>1. status' = "panic" /\ UNCHANGED <<i, solvers>>
      BY <1>4, <2>3 DEF BuildNext, r
    <3>2. QED
      BY <2>1, <2>3, <3>1 DEF IInv, r, BuiltPrefix
  <2>4. CASE DOMAIN r = {"err"}
    <3>1. status' = "err" /\ UNCHANGED <<i, solvers>>
      BY <1>4, <2>4 DEF BuildNext, r
    <3>2. QED
      BY <2>1, <2>4, <3>1 DEF IInv, r, BuiltPrefix
  <2>5. CASE DOMAIN r = {"ok"}
    <3>1. solvers' = Append(solvers, r.ok) /\ i' = i + 1 /\ status' = "building"
      BY <1>4, <2>5 DEF BuildNext, r
    <3>2. solvers' = BuiltPrefix(i)
      <4>1. i \in Nat \ {0}
        BY <2>1
      <4>2. Append(BuiltPrefix(i - 1), r.ok) = BuiltPrefix(i)
        BY <4>1, BuiltPrefixAppend DEF r
      <4>3. QED
        BY <2>1, <3>1, <4>2
    <3>3. \A k \in 1..i : "ok" \in DOMAIN Build(cfg, cfg.types[k])
      BY <2>1, <2>5 DEF r
    <3>4. QED
      BY <2>1, <3>1, <3>2, <3>3 DEF IInv, BuiltPrefix
  <2>6. QED
    BY <2>2, <2>3, <2>4, <2>5, BuildShape DEF r
<1>5. CASE Collected
  BY <1>5 DEF Collected, IInv, BuiltPrefix
<1>6. CASE ExtendExternal
  BY <1>6 DEF ExtendExternal, IInv, BuiltPrefix, ExternalSolvers
<1>7. CASE UNCHANGED vars
  BY <1>7 DEF vars, IInv, BuiltPrefix, ExternalSolvers
<1>8. QED
  BY <1>1, <1>2, <1>3, <1>4, <1>5, <1>6, <1>7 DEF Next

(* The invariant holds in every state of every run of the solver binary. *)
THEOREM IInvariant == Spec => []IInv
BY InitIInv, NextIInv, PTL DEF Spec

(***************************************************************************)
(* A failing constructor that comes after only succeeding ones is the      *)
(* first failing one.                                                      *)
(***************************************************************************)
LEMMA FirstFailingIs ==
  ASSUME NEW c, c.types \in Seq(SolverTypes), NEW n \in 1..Len(c.types),
         "ok" \notin DOMAIN Build(c, c.types[n]),
         \A k \in 1..(n - 1) : "ok" \in DOMAIN Build(c, c.types[k])
  PROVE  /\ Failing(c) # {}
         /\ FirstFailing(c) = n
<1>1. n \in Failing(c) /\ \A j \in Failing(c) : n <= j
  BY DEF Failing
<1>2. \A m \in Failing(c) : (\A j \in Failing(c) : m <= j) => m = n
  BY <1>1 DEF Failing
<1>3. QED
  BY <1>1, <1>2 DEF FirstFailing

(***************************************************************************)
(* solver::create is all or nothing and keeps the configured order, for    *)
(* every configuration: Ok carries one solver per configured pair, in      *)
(* order, then the external ones, exactly when every constructor           *)
(* succeeds; an error or a panic is the outcome of the first constructor   *)
(* that does not succeed, and no later one has run.                        *)
(***************************************************************************)
THEOREM CreateAllOrNothingHolds == Spec => []CreateAllOrNothing
<1>1. IInv => CreateAllOrNothing
  <2> SUFFICES ASSUME IInv PROVE CreateAllOrNothing
    OBVIOUS
  <2>1. ASSUME status = "ok"
        PROVE  /\ Failing(cfg) = {}
               /\ solvers = [k \in 1..Len(cfg.types) |-> Build(cfg, cfg.types[k]).ok]
                              \o ExternalSolvers(cfg)
    <3>1. i = Len(cfg.types) + 1 /\ cfg.types \in Seq(SolverTypes)
      BY <2>1 DEF IInv
    <3>2. Failing(cfg) = {}
      BY <2>1, <3>1 DEF IInv, Failing
    <3>3. BuiltPrefix(i - 1) = [k \in 1..Len(cfg.types) |-> Build(cfg, cfg.types[k]).ok]
      BY <3>1 DEF BuiltPrefix
    <3>4. QED
      BY <2>1, <3>2, <3>3 DEF IInv
  <2>2. ASSUME status \in {"err", "panic"}
        PROVE  /\ Failing(cfg) # {}
               /\ i = FirstFailing(cfg)
               /\ (status = "panic") = ("panic" \in DOMAIN Build(cfg, cfg.types[i]))
    <3>1. /\ cfg.types \in Seq(SolverTypes) /\ i \in 1..Len(cfg.types)
          /\ "ok" \notin DOMAIN Build(cfg, cfg.types[i])
          /\ \A k \in 1..(i - 1) : "ok" \in DOMAIN Build(cfg, cfg.types[k])
          /\ (status = "panic") = ("panic" \in DOMAIN Build(cfg, cfg.types[i]))
      BY <2>2 DEF IInv
    <3>2. QED
      BY <3>1, FirstFailingIs
  <2>3. QED
    BY <2>1, <2>2 DEF CreateAllOrNothing
<1>2. QED
  BY <1>1, IInvariant, PTL

=============================================================================
