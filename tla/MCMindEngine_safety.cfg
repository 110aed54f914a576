\* Two turns, a settings request and a crash.
SPECIFICATION Spec
CONSTANTS
  t1 = t1
  t2 = t2
  r1 = r1
  Turns = {t1, t2}
  Ticks = {}
  Reloads = {r1}
  None = None
  Blank = Blank
  Score = 10
  Threshold = 10
  ThresholdCap = 12
  DriftEvery = 2
  HasEmbedding = TRUE
  MaxRestarts = 1
SYMMETRY TurnSymmetry
CHECK_DEADLOCK FALSE
INVARIANTS
  TypeOK
  LockGuardsSaves
  FinishedTurnsOnDisk
  SnapshotsInOrder
  TurnIsCarried
  ImportanceBacked
  QuietIsSaved
  FlagHasHint
PROPERTIES
  ImplementsDurableMind
