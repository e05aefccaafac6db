CONSTANTS
  Task = {0, 1, 2}
  Idle = 2
  MAX_PRIORITIES = 2
  TickMod = 3
  OverflowMod = 1
  EventLists = {}
  Builds <- MCBuilds
  WordMod = 3
  Increment = 2
  Target = 2
  MaxNesting = 2
  MaxLate = 2
SPECIFICATION FairSpec
INVARIANTS TicksKeepTime MaskMatchesNesting VerdictIsRight
PROPERTIES TestEnds
CHECK_DEADLOCK FALSE
