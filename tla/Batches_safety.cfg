\* Prepare, approve, submit and resend, with time-outs and crashes of both services.
SPECIFICATION BatchesSpec
CONSTANTS
  b1 = b1
  b2 = b2
  n1 = n1
  n2 = n2
  s1 = s1
  s2 = s2
  t1 = t1
  t2 = t2
  t3 = t3
  NoOne = NoOne
  NoRef = NoRef
  Bids = {b1, b2}
  Faces = {1}
  Staff = {s1, s2}
  Refs = {n1, n2}
  Tasks = {t1, t2, t3}
  Faults = TRUE
SYMMETRY Symmetric
INVARIANTS
  BatchesAreSafe
  SubmittedIsAtBot
CHECK_DEADLOCK FALSE
