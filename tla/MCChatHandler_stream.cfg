\* One chat whose agent run produces up to three events.
SPECIFICATION FairSpec
CONSTANTS
  r1 = r1
  Requests = {r1}
  MaxEvents = 3
CHECK_DEADLOCK FALSE
INVARIANTS
  AnswerTellsPhases
  NothingLeftRunning
PROPERTIES
  EveryRequestEnds
  ImplementsChatProtocol
