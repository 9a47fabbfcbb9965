CONSTANTS
  Sep = "|"
  Letters <- MCLetters
  UrlTexts <- MCUrlTexts
  KeyTexts <- MCKeyTexts
  AddressTexts <- MCAddressTexts
  MaxLength = 6
  MaxSolvers = 2
  MaxExternal = 2

SPECIFICATION Spec

INVARIANTS
  ParseMatchesFormat
  CreateAllOrNothing

\* The solver binary starts once: an argument error, or create returns Ok,
\* an error, or a panic.
CHECK_DEADLOCK FALSE
