\* One batch of two bids, one amendment at BoT, one fault, two attempts of a check.
SPECIFICATION GatewaySpec
CONSTANTS
  a1 = a1
  None = None
  Amends = {a1}
  Faces = {1, 2}
  Packages <- TwoBids
  MaxAttempts = 2
  MaxFaults = 1
INVARIANTS
  RecordIsTrue
PROPERTIES
  LossIsRaised
CHECK_DEADLOCK FALSE
