SPECIFICATION FairSpec
CONSTANTS
  d1 = d1
  d2 = d2
  p = p
  q = q
  r = r
  s = s
  t = t
  Dialogs = {d1, d2}
  Paths = {p, q, r, s, t}
  NoPath = NoPath
  Reported <- AsDiscovered
  Choices <- SomeChoices
  Faults = {"raise"}
  MaxBatches = 1
INVARIANTS CountIsExact StopTakesEffect
PROPERTIES StopEndsTheRun WindowCompletes
CHECK_DEADLOCK FALSE
