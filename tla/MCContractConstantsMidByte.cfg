CONSTANTS
  Radix = 2
  DomainSeparator <- MCDomainSeparator
  TypeHash <- MCTypeHash
  MaxCodeLength = 4

SPECIFICATION Spec

INVARIANT AcceptedOnlyIfEmbedded

\* One call of the startup check: it returns, and nothing follows.
CHECK_DEADLOCK FALSE
