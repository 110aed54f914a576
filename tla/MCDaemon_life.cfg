\* Two daemons, two commands, one change to the mind.  PIDs run out.
SPECIFICATION Spec
CONSTANTS
  d1 = d1
  d2 = d2
  Daemons = {d1, d2}
  Nobody = Nobody
  c1 = c1
  Changes = {c1}
  Changing = {d1}
CHECK_DEADLOCK FALSE
INVARIANTS
  TypeOK
  StaleOnlyAfterFailure
PROPERTIES
  ReportIsFresh
  LastSaveTellsRequests
  StopIsObeyed
  TakeoverEnds
