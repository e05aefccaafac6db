CONSTANTS
  a = a
  b = b
  idle = idle
  Task <- MCTask
  Idle = idle
  Apps <- MCApps
  EventLists <- MCEventLists
  MAX_PRIORITIES = 2
  TickMod = 4
  OverflowMod = 1
  MaxPended = 2
  MaxValue = 1
SPECIFICATION Spec
INVARIANTS SchedulerIsSound HighestReadyRuns WakesOnTime NoTickIsLost NoNotificationIsLost SuspendedStaysOut
