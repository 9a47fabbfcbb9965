\* One autopilot process replaces the current auction while the orderbook reads it.
CONSTANTS
  Writers = {w1}
  MaxId <- MCMaxId

SPECIFICATION Spec

INVARIANTS
  NeverEmptyAfterSave

PROPERTIES
  AuctionSlotRefined

\* The sequence bound stops the writer; the store then only serves reads.
CHECK_DEADLOCK FALSE
