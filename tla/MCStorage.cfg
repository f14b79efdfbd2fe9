SPECIFICATION FairSpec
CONSTANTS
  m1 = m1
  m2 = m2
  m3 = m3
  Mails = {m1, m2, m3}
  Dates = {1, 2}
  Texts = {"a", "b"}
  Hash <- Colliding
  NoWriter = NoWriter
  Batches <- SomeBatches
  BandSize = 4
  RetryMax = 1
  Writers = {w1, w2}
  Faults = {"error", "die"}
  MaxCalls = 3
INVARIANTS TablesAgree  NewestFirst
PROPERTIES RowidNeverMoves ImplementsMailTable CallEnds
CHECK_DEADLOCK FALSE
