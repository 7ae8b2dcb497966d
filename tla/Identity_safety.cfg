\* One customer and one staff user; every flow.
SPECIFICATION IdentitySpec
CONSTANTS
  cust = cust
  staff = staff
  s1 = s1
  s2 = s2
  s3 = s3
  q1 = q1
  q2 = q2
  q3 = q3
  p1 = p1
  p2 = p2
  officer = officer
  supervisor = supervisor
  None = None
  Accounts = {cust, staff}
  Customers = {cust}
  StaffUsers = {staff}
  SessionIds = {s1, s2, s3}
  Reqs = {q1, q2, q3}
  Secrets = {p1, p2}
  Roles = {officer, supervisor}
  Officers = {officer, supervisor}
  MaxAttempts = 2
  CodeAttempts = 2
  MaxPerHour = 1
  Gap = 1
  Ttl = 2
  Hour = 3
  MaxNow = 2
SYMMETRY Symmetric
CONSTRAINT OneAccount
INVARIANTS
  SpentIsLocked
  SessionsAreDue
  CodesKept
PROPERTIES
  HolderOrTwo
CHECK_DEADLOCK FALSE
