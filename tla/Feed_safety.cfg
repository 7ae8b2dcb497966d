\* Two auctions of one date, opened and closed: two changes at BoT, one handler, one fault.
SPECIFICATION FeedSpec
CONSTANTS
  None = None
  Handlers = {c1}
  Isins = {1, 2}
  Dates = {"soon"}
  MaxChanges = 2
  MaxFaults = 1
INVARIANTS
  SnapshotIsKept
PROPERTIES
  CatalogueFollows
CHECK_DEADLOCK FALSE
