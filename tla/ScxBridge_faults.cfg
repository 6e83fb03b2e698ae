\* One application, every fault.
SPECIFICATION LiveSpec
CONSTANTS
  Manager = {w1}
  Sched = {s1}
  Mode = {auto}
  AutoMode = auto
  ArgList = {x, y}
  x = x
  None = None
  Empty = Empty
  Garbled = Garbled
  EmptyConfig = None
  StockArgs <- MCStockArgs
  DefaultConfig <- MCDefaultConfig
  Listed <- MCListed
  InitialEtc <- MCInitialEtc
  InitialUnits <- MCAnyUnits
  Faults <- MCFaultKinds
INVARIANTS
  TypeOK
  PersistedAsRequested
  AppliedRuns
  BootHandedOver
  LegacyDownUnlessRefused
  MemoryInSync
PROPERTIES
  JobsEnd
