\* One task instance that fails twice, and a record of a newer schema.
SPECIFICATION Spec
CONSTANTS
  Tasks = {t1}
  MaxTries = 2
  Foreign = {"future"}
  MaxForeign = 1
  MaxResends = 1
  MaxFailovers = 1
  MaxCrashes = 1
  t1 = t1
INVARIANTS
  PublishedStays
  
  RetriesInOrder

  
CHECK_DEADLOCK FALSE
