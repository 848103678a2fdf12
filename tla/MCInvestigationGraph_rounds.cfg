\* Four tools, where the evidence term saturates, and few calls; no
\* symmetry, because of the temporal property.
CONSTANTS
  Tools = {t1, t2, t3, t4}
  UnknownTools = {ghost}
  Inputs = {i1}
  NoInput = none
  Strengths <- MCStrengths
  MaxIterations = 3
  MaxToolCalls = 4
  CallsPerRound = 2
  MaxHypotheses = 1
  TriageShortcut = 9000
  MinConclude = 5000
SPECIFICATION Spec
CHECK_DEADLOCK FALSE
INVARIANTS
  CertaintyIsEarned
PROPERTY
  ImplementsInvestigation
