CONSTANTS
  U256Size <- MCU256Size
  U32Size <- MCU32Size
  Decimals <- MCDecimals
  ValidTos <- MCValidTos
  AmountFields <- MCAmountFields
  StoredRows <- MCStoredRows
  DbError = DbError
  MaxRows = 3
  Streams <- MCStreams

SPECIFICATION Spec

INVARIANTS
  TypeOK
  NoPartialOrderSet
  FailsExactlyOnBadRow

\* One call of solvable_orders: it returns Ok or Err, and nothing follows.
CHECK_DEADLOCK FALSE
