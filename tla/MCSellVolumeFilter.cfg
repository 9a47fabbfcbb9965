CONSTANTS
  Tokens = {t1, t2}
  Amounts <- MCAmounts
  PriceValues <- MCPriceValues
  MinValue <- MCMinValue
  MaxOrders <- MCMaxOrders

SPECIFICATION Spec

INVARIANTS
  FilterKeepsExactly

\* One call of solve: it ends with the inner solver called or with a panic.
CHECK_DEADLOCK FALSE
