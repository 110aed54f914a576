\* Two turns and a heartbeat compete for the lock under the code's fairness.
SPECIFICATION FairSpec
CONSTANTS
  t1 = t1
  t2 = t2
  k1 = k1
  Turns = {t1, t2}
  Ticks = {k1}
  Reloads = {}
  None = None
  Blank = Blank
  Score = 10
  Threshold = 10
  ThresholdCap = 12
  DriftEvery = 2
  HasEmbedding = FALSE
  MaxRestarts = 0
CHECK_DEADLOCK FALSE
PROPERTIES
  CallsEnd
