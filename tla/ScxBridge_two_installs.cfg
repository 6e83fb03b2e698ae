\* Two applications share the staging file.
SPECIFICATION Spec
CONSTANTS
  Manager = {w1, w2}
  Sched = {s1}
  Mode = {auto}
  AutoMode = auto
  ArgList = {x, y}
  x = x
  None = None
  Empty = Empty
  Garbled = Garbled
  EmptyConfig = None
  StockArgs <- MCStockArgs
  DefaultConfig <- MCDefaultConfig
  Listed <- MCListed
  InitialEtc <- MCNoFile
  InitialUnits <- MCCalmUnits
  Faults = {}
PROPERTIES
  InstallsOwnConfig
