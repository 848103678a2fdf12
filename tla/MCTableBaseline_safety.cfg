\* A comparison, a profile and the baseline command, around one change.
CONSTANTS
  Names <- MCNames
  Types = {"text", "int"}
  Levels <- MCLevels
  Alert = 2
  InitialTable <- MCTable
  Comparers = {c1}
  Profilers = {p1}
  Recorders = {r1}
  MaxChanges = 1
SPECIFICATION BaselineSpec
CHECK_DEADLOCK FALSE
INVARIANTS
  BaselineTypeOK
  KnownTableIsCompared
  RenamesAreMatched
  AlarmHasACause
