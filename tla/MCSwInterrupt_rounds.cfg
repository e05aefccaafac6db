CONSTANTS
  BP_MAX = 5
  Preloads <- MCBuilds
SPECIFICATION FairSpec
INVARIANTS PulsesAreCounted
PROPERTIES RunsInLockstep HostAlwaysReports BothSidesFinish
CHECK_DEADLOCK FALSE
