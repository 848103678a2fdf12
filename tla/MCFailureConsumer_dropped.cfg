\* One dead-letter write is refused and the next record is handled.
CONSTANTS
  Workers = {w1}
  NoWorker = none
  Partitions = {p1}
  MaxRecords = 2
  MaxAttempts = 1
  ParkOutcomes <- Unreliable
  MaxCrashes = 0
  MaxRevokes = 0
  MaxStops = 0
SPECIFICATION Spec
CHECK_DEADLOCK FALSE
INVARIANT NothingDropped
