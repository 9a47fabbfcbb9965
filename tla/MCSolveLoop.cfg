CONSTANTS
  BlockNumbers <- MCBlockNumbers
  MaxSends <- MCMaxSends
  NoNumber = NoNumber

SPECIFICATION Spec

INVARIANTS
  TypeOK

PROPERTIES
  Terminates
  SolveSpecRefined

\* The loop returns and the producer stops: a run ends in a final state.
CHECK_DEADLOCK FALSE
