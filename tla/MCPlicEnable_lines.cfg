CONSTANT
  Builds <- MCBuilds
SPECIFICATION FairSpec
INVARIANTS LinesAreSound
PROPERTIES HostFinishes
CHECK_DEADLOCK FALSE
