\* Two memories on either side of every threshold, over 210 days.
SPECIFICATION Spec
CONSTANTS
  m1 = m1
  m2 = m2
  Memories = {m1, m2}
  Missing = Missing
  Scores = {2, 3, 8, 9}
  Refined = {10, 100}
  MaxAge = 7
SYMMETRY MemorySymmetry
CHECK_DEADLOCK FALSE
INVARIANTS
  TypeOK
  RetryIsSafe
  MicroIsForgotten
PROPERTIES
  GraceAfterRecovery
