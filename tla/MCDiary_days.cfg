\* Days of six steps, checks every two, model calls of up to one, two turns,
\* of which the engine keeps one.
SPECIFICATION Spec
CONSTANTS
  Day = 6
  Check = 2
  Latency = 1
  Capacity = 1
  Horizon = 15
  MaxTurns = 2
  MaxStops = 1
CHECK_DEADLOCK FALSE
INVARIANTS
  TypeOK
  Punctual
PROPERTIES
  TurnsReachTheDiary
  ImplementsDiaryBook
