CONSTANTS
  TIMER_QUEUE_MAX = 2
  CLOCK_TIME = 335
  Delays <- MCDelays
  Programs <- MCPeriodic
  NEVER = 100
  UINT_MAX = 15
  MaxTime = 4
SPECIFICATION Spec
INVARIANTS RepeatIsRearmed
