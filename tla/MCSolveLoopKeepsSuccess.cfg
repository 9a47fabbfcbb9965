CONSTANTS
  BlockNumbers <- MCBlockNumbers
  MaxSends <- MCMaxSends
  NoNumber = NoNumber

SPECIFICATION Spec

PROPERTIES
  KeepsLatestSuccess

CHECK_DEADLOCK FALSE
