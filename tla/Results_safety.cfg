\* Two handlers at once, which may twice die anywhere or fail to pay.
SPECIFICATION ResultsSpec
CONSTANTS
  b1 = b1
  b2 = b2
  q1 = q1
  q2 = q2
  h1 = h1
  h2 = h2
  NoReq = NoReq
  Bids = {b1, b2}
  Requests = {q1, q2}
  Like <- MCLike
  Callbacks <- MCCallbacks
  Reconciliations <- MCLateRejection
  Held = 2
  Arrivals <- CallbacksInOrder
  Handlers = {h1, h2}
  Deliveries = 2
  MaxFaults = 2
SYMMETRY Symmetric
INVARIANTS
  VerdictsAreSettled
PROPERTIES
  FinalIsKept
CHECK_DEADLOCK FALSE
