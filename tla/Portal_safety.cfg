\* One tab, one onboarding screen, one form, one table and one desk of the portal.
CONSTANTS
  ann = ann  ben = ben
  active = active  pending = pending
  None = None
  NoPrice = NoPrice
  People = {ann, ben}
  MaxEvents = 3
  Typed1 = Typed1  Typed2 = Typed2  Odd = Odd
  Named = {Typed1, Typed2, Odd}
  Valid = {Typed1, Typed2}
  Account = Account
  Unsaid = Unsaid
  MaxSaves = 3
  MaxLosses = 1
  MinimumBid = 100
  BidMultiple = 100
  CommissionBps = 15
  Faces = {100, 200, 250}
  Prices <- SmallPrices
  Quotes <- SmallQuotes
  Balance = 40000
  MaxCalls = 2
  MaxVisits = 2
  MyBids = {1, 2}
  Funds = 9
  Stake = 3
  Part = 1
  MaxErrands = 2
  MaxMoves = 2
  MaxSlips = 1
  Searches = {active, pending}
  PageSize = 1
  MaxRows = 2
  MaxAsked = 2
  Ali = Ali  Bea = Bea  Cai = Cai  Dan = Dan
  Nobody = Nobody
  Staff = {Ali, Bea, Cai, Dan}
  RoleOf <- Roles
  NameOf <- Names
  MaxShifts = 2
  MaxRounds = 1
  MaxBatches = 1
SPECIFICATION PortalSpec
INVARIANTS
  TabIsOwn
  WizardIsTrue
  MoneyIsAsShown
  SecondBidOnlyInDoubt
  StoreIsTrue
  TablesAreTrue
  DeskIsOwn
  DeskGuides
CHECK_DEADLOCK FALSE
