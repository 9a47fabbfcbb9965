CONSTANTS
  AuctionIds <- MCAuctionIds
  TxHashes = {h1, h2}
  NoTx = NoTx
  LegacyIds <- MCLegacyIds

SPECIFICATION Spec

PROPERTIES
  NotFoundOnlyIfAbsent

\* Every auction id gets saved once; after that only loads happen.
CHECK_DEADLOCK FALSE
