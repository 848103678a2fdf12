\* Two workers that crash, lose their partition and are stopped; no symmetry,
\* because of the temporal properties.
CONSTANTS
  Workers = {w1, w2}
  NoWorker = none
  Partitions = {p1}
  MaxRecords = 2
  MaxAttempts = 2
  ParkOutcomes <- Unreliable
  MaxCrashes = 1
  MaxRevokes = 1
  MaxStops = 1
SPECIFICATION Spec
CHECK_DEADLOCK FALSE
INVARIANTS
  NothingSkipped
  InOrder
PROPERTIES
  StopsCauseNoRework
  EveryRecordIsSettled
  BusyWorkerStops
