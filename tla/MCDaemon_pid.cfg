\* Two daemons, no changes to the mind.
SPECIFICATION ForegroundSpec
CONSTANTS
  d1 = d1
  d2 = d2
  Daemons = {d1, d2}
  Nobody = Nobody
  Changes = {}
  Changing = {}
SYMMETRY DaemonSymmetry
CHECK_DEADLOCK FALSE
INVARIANTS
  NoFileNotRunning
