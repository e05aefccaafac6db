CONSTANT
  Builds <- MCAsBuilt
SPECIFICATION FairSpec
INVARIANTS PassesAsListed
CHECK_DEADLOCK FALSE
