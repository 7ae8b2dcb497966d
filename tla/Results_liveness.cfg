\* One handler at a time, nothing fails, every order: every bid is decided, but one turned
\* down after it was found.
SPECIFICATION FairResultsSpec
CONSTANTS
  b1 = b1
  b2 = b2
  q1 = q1
  q2 = q2
  h1 = h1
  h2 = h2
  NoReq = NoReq
  Bids = {b1, b2}
  Requests = {q1, q2}
  Like <- MCLike
  Callbacks <- MCDearCallbacks
  Reconciliations <- MCEither
  Held = 2
  Arrivals <- EitherOrders
  Handlers = {h1}
  Deliveries = 2
  MaxFaults = 0
PROPERTIES
  EveryBidIsDecided
CHECK_DEADLOCK FALSE
