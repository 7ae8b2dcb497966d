\* Approvals, the link to the bank, settings, checks, references and messages.
SPECIFICATION SupportSpec
CONSTANTS
  g1 = g1  k1 = k1  k2 = k2  k3 = k3
  investor = investor  supervisor = supervisor
  place = place  approve = approve
  c1 = c1  c2 = c2  p1 = p1  p2 = p2
  None = None
  NotCached = NotCached
  NoRecord = NoRecord
  NoLimit = NoLimit
  Grants = {g1}
  Principals = {investor, supervisor}
  Scopes = {place, approve}
  Amounts = {1, 2}
  Redemptions = {k1, k2, k3}
  Permitted <- MCPermitted
  Callers = {c1, c2}
  Lifetime = 5
  RenewAfter = 3
  Timeout = 1
  MaxRetries = 1
  MaxNow = 5
  MaxRevocations = 1
  MaxLosses = 1
  Bodies <- SmallBodies
  Window = 0
  Skews = {0, 1}
  Receivers = {w1, w2}
  w1 = w1  w2 = w2
  MaxClock = 1
  MaxPosts = 2
  MaxDeaths = 1
  NoText = NoText
  TypedFaces <- SmallFaces
  TypedPrices <- SmallPrices
  BidStep = 2
  LeastBid = 5
  BotMinimum = 5
  MaxFace = 11
  MaxSafe = 12
  Average = 9705
  Processes = {p1, p2}
  Readers = {"r1"}
  Writers = {"w1", "w2"}
  MaxSets = 3
  Names <- SmallNames
  Listed <- OnList
  Births = {1, 2}
  Drawn = {0, 31}
  Written = {0, 16, 23, 31, 32, 33, 35}
SYMMETRY Symmetric
INVARIANTS
  LinkIsTrue
  AcknowledgedIsAnnounced
  TermsArrive
  ChangesAreKept
  AutoApprovedIsVerified
  OnlyMeantIsLookedUp
  MessageIsTrue
PROPERTIES
  ImplementsApproval
CHECK_DEADLOCK FALSE
