SPECIFICATION LedgerSpec
CONSTANTS
  u1 = u1
  u2 = u2
  Units = {u1, u2}
  Dbs = {d1, d2}
  Stamp <- Stamps
  Tolerance = 2
  MaxRuns = 2
  Savers = {s1, s2}
  Processes = {p1, p2}
SYMMETRY Symmetry
INVARIANTS LogIsWhole NoLitter
PROPERTIES NothingForgotten SkipIsJustified
CHECK_DEADLOCK FALSE
