CONSTANTS
  TIMER_QUEUE_MAX = 3
  CLOCK_TIME = 335
  Delays <- MCDelays
  Programs <- MCPrograms
  NEVER = 100
  UINT_MAX = 15
  MaxTime = 3
SPECIFICATION FairSpec
INVARIANTS TypeOK EarliestIsArmed NoStaleWakeup SlotsAreCounted
PROPERTY EveryTimerFires
