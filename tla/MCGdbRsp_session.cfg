CONSTANTS
  LAST = 2
  POLL_EVERY = 2
  Requests <- MCRequests
  MaxRequests = 4
  MaxInterrupts = 1
  MaxGarbled = 1
SPECIFICATION FairSpec
INVARIANTS SessionIsSound
PROPERTIES TargetHaltsForGdb RequestsInLockstep SessionProgresses
CHECK_DEADLOCK FALSE
