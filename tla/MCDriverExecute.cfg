CONSTANTS
  Calls = {c1, c2}
  Summaries = {s1, s2}
  NoSummary = NoSummary

SPECIFICATION Spec
SYMMETRY MCSymmetry

INVARIANTS
  NoPanic

\* Every call ends; the handler then waits for no further request.
CHECK_DEADLOCK FALSE
