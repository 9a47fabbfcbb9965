CONSTANTS
  AuctionIds <- MCAuctionIds
  TxHashes = {h1, h2}
  NoTx = NoTx
  LegacyIds <- MCLegacyIds

SPECIFICATION Spec

INVARIANTS
  LoadMatchesKey

CHECK_DEADLOCK FALSE
