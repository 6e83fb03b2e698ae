\* The user refuses, or cannot be asked for, the privileged copy.
SPECIFICATION Spec
CONSTANTS
  Manager = {w1}
  Sched = {s1}
  Mode = {auto}
  AutoMode = auto
  ArgList = {x, y}
  x = x
  None = None
  Empty = Empty
  Garbled = Garbled
  EmptyConfig = None
  StockArgs <- MCStockArgs
  DefaultConfig <- MCDefaultConfig
  Listed <- MCListed
  InitialEtc <- MCNoFile
  InitialUnits <- MCCalmUnits
  Faults = {"pkexec"}
INVARIANTS
  AppliedRunsAlways
