\* Four tasks, one of them mapped, and one clearing.
CONSTANTS
  a = a
  b = b
  m = m
  f = f
  Tasks = {a, b, m, f}
  Failing = f
  Edges <- MCEdges
  AllDone = {b, f}
  Mapped = {m}
  MapLength = 2
  Histories <- MCHistories
  Limits <- MCLimits
  NoTask = none
  MaxClears = 1
SPECIFICATION Spec
CHECK_DEADLOCK FALSE
INVARIANTS
  WalkFindsTheAncestors
  RootFailedFirst
  AllSucceededIsSo
  NewIsToldFromChronic
