CONSTANTS
  a = a
  b = b
  idle = idle
  Task <- MCTask
  Idle = idle
  Apps <- MCApps
  EventLists <- MCEventLists
  MAX_PRIORITIES = 2
  TickMod = 3
  OverflowMod = 2
  MaxPended = 1
  MaxValue = 1
  Item = {1, 2}
SPECIFICATION QueueSpec
INVARIANTS WaitersAreServed TimeoutIsHonest
PROPERTIES IsFifo
