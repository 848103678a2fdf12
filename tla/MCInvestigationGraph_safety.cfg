\* Two tools, a name no tool has, three rounds, five calls.
CONSTANTS
  Tools = {t1, t2}
  UnknownTools = {ghost}
  Inputs = {i1}
  NoInput = none
  Strengths <- MCStrengths
  MaxIterations = 3
  MaxToolCalls = 5
  CallsPerRound = 2
  MaxHypotheses = 2
  TriageShortcut = 9000
  MinConclude = 5000
SYMMETRY ToolSymmetry
SPECIFICATION Spec
CHECK_DEADLOCK FALSE
INVARIANTS
  BudgetsRespected
  ConclusionIsEarned
  EscalationReasonIsTrue
PROPERTIES
  RecordIsAppendOnly
