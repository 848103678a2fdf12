\* up to three rows, pages of one or two.
CONSTANTS
  IncidentIds = {1, 2, 3}
  DiagnosisIds = {1, 2}
  Times = {1, 2}
  Limits = {0, 1, 2}
  CandidateLimit = 2
  Score <- MCScore
  MinSimilarity = 3
  OtherType = {}
  Any = any
  MaxRows = 3
  MaxReviews = 1
SPECIFICATION Spec
CHECK_DEADLOCK FALSE
INVARIANTS
  PagesDescend
  NothingStandingIsSkipped
  AnswersAreWhole
  NothingCloserIsPassedOver
  FeedbackStands
