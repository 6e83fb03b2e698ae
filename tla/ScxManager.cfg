\* The window over the bridge: installing may fail, and the daemon keeps what it
\* read when it started.
SPECIFICATION ManagerSpec
CONSTANTS
  Me = w1
  Manager = {w1}
  lavd = lavd
  custom = custom
  Sched <- MCSched
  Listed <- MCListed
  First = lavd
  ProfileAware = {lavd}
  Mode <- SchedMode
  AutoMode = "Auto"
  ArgList <- MCArgList
  Typed <- MCTyped
  Tried = {0, 1}
  MaxJobs = 2
  None = None
  Empty = Empty
  Garbled = Garbled
  EmptyConfig = None
  Resource <- MCResource
  Unparsable = Unparsable
  StockArgs <- MCStockArgs
  DefaultConfig <- MCDefaultConfig
  InitialEtc <- MCInitialEtc
  InitialUnits <- MCCalmUnits
  Faults = {"pkexec"}
INVARIANTS
  ManagerTypeOK
  PersistedAsRequested
  AppliedRuns
  OnlyRequestedArgs
  FieldShowsDisk
PROPERTIES
  ImplementsWindow
  ImplementsSession
  OthersArgsKept
  UntouchedStoresNothing
