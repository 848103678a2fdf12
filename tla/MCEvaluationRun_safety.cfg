\* One scenario that failed before as well, and the control.
CONSTANTS
  Failing = {drift}
  Controls = {healthy}
  Attributed = {drift}
  Older = {drift}
  Diagnoses <- MCDiagnoses
  PageLimit = 2
  MaxReplays = 1
SPECIFICATION Spec
CHECK_DEADLOCK FALSE
PROPERTY EvaluationEnds
INVARIANTS
  CorrectIsEarned
  SilenceIsHonest
