\* Three rounds, five tool calls, and a name that is no tool.
CONSTANTS
  upstream = upstream
  history = history
  snapshot = snapshot
  Tools = {upstream, history, snapshot}
  UnknownTools = {invented}
  Known = {"dag_id", "try_number"}
  Declares <- MCDeclares
  Required <- MCRequired
  Defaulted = {"limit"}
  Values = {v}
  Fact = fact
  Blank = blank
  MaxIterations = 3
  MaxToolCalls = 5
  CallsPerRound = 2
SPECIFICATION Spec
CHECK_DEADLOCK FALSE
INVARIANTS
  SettledStaysSettled
  
  RoundsLearn
