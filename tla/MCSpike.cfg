SPECIFICATION SpikeFairSpec
CONSTANTS
  Pen <- MCPen
  Sets = 2
  Ways = 2
  WordMod = 1024
  HighMod = 4
  Scenarios <- MCScenarios
  Insns <- MCInsns
  MaxWalk = 5
  Events = 3
  MagicAddr = 6
  GuardMax = 20
  MaxPolls = 400
  FwGuard = 2
INVARIANTS PassIsExitZero ReadingsAreSound MeasuresAreExact
PROPERTIES DriverEnds CycleReadIsWhole
