\* The instance of MCPersonality_mood.cfg.
SPECIFICATION Spec
CONSTANTS
  Unit = 100
  Dims = {"pleasure"}
  Drifting = {"agreeableness"}
  MaxDrifts = 1
  Events <- TwoEvents
  Intensities = {100}
  Levels = {30, 80}
  OceanSettings <- ThreeSettings
  Presets = {"passionate", "jolly"}
  i1 = i1
  i2 = i2
  Identities = {i1, i2}
  FileOcean <- Middling
  FileTone <- Balanced
  FileIdentity = i1
INVARIANTS
  IdentityReachesAgent
