\* A process dies and a statement fails while two deliveries race.
CONSTANTS
  Deliveries = {d1, d2}
  Replays = {}
  MaxAttempts = 2
  Outcomes = {"conclusive", "broken", "undiagnosed"}
  MaxSteps = 1
  MaxFaults = 1
  MaxCrashes = 1
SPECIFICATION Spec
CHECK_DEADLOCK FALSE
INVARIANTS
  HandledIsStored
PROPERTY
  EveryDeliveryEnds
  EveryIncidentIsSettled
