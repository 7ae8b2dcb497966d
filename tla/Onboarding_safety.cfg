\* Two tasks at once, two submissions, one task cut short; four requests of two numbers,
\* two codes, and one loss, reload or request from another device.
SPECIFICATION MCSpec
CONSTANTS
  t1 = t1
  t2 = t2
  s1 = s1
  s2 = s2
  n1 = n1
  n2 = n2
  juma = juma
  newcomer = newcomer
  None = None
  Tasks = {t1, t2}
  Staff = {s1, s2}
  Numbers = {n1, n2}
  Profiles = {juma, newcomer}
  Clear = {newcomer}
  Customers = {juma}
  MaxSubmits = 2
  MaxFaults = 1
  ph1 = ph1
  ph2 = ph2
  Nil = Nil
  Phones = {ph1, ph2}
  MaxRequests = 4
  MaxCodes = 2
  MaxMishaps = 1
SYMMETRY Symmetric
INVARIANTS
  OneAccountIsOpened
  ReadyAsDecided
  WaitingIsListed
  EnrolmentIsAsSaid
PROPERTIES
  ClosedStays
CHECK_DEADLOCK FALSE
