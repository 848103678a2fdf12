\* Two deliveries and a replay run into each other, and one statement fails.
CONSTANTS
  Deliveries = {d1, d2}
  Replays = {r1}
  MaxAttempts = 2
  Outcomes = {"conclusive", "inconclusive", "broken", "undiagnosed"}
  MaxSteps = 1
  MaxFaults = 1
  MaxCrashes = 0
SPECIFICATION Spec
CHECK_DEADLOCK FALSE
SYMMETRY DeliverySymmetry
INVARIANTS
  TraceIsNumbered
  StatusIsEarned
  AnnouncedIsStored
