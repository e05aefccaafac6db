CONSTANTS
  XLEN = 5
  PMP_NUM_REGIONS = 2
  Indices = {0, 1, 2}
  Areas <- MCAreas
  Perms <- MCPerms
  MaxCalls = 3
  Code <- MCCode
  Memory <- MCMemory
  Triggers <- MCTriggers
  Policies = {3, 7, 11, 16}
  Wanted = {2, 3, 4, 7}
SPECIFICATION FairSpec
INVARIANTS GuardsAsAsked EachInstructionOnce NothingSlipsThrough
PROPERTIES VerdictIsExact TriggerEnds
CHECK_DEADLOCK FALSE
