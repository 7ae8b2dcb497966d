\* Two replicas, three rows, one fault; batches of two, so that one may hold what another skips.
SPECIFICATION OutboxSpec
CONSTANTS
  Relays = {r1, r2}
  MaxRows = 3
  BatchSize = 2
  MaxFaults = 1
PROPERTIES
  ImplementsChannel
CHECK_DEADLOCK FALSE
