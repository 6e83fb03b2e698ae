\* The window with its three kinds of scheduler and two jobs a launch.
SPECIFICATION Spec
CONSTANTS
  lavd = lavd
  beerland = beerland
  custom = custom
  None = None
  Sched <- MCSched
  Listed <- MCListed
  First = lavd
  ProfileAware = {lavd}
  Resource <- MCResource
  Unparsable = Unparsable
  Mode <- SchedMode
  AutoMode = "Auto"
  ArgList <- MCArgList
  Typed <- MCTyped
  StockArgs <- MCStockArgs
  DefaultConfig <- MCDefaultConfig
  SavedConfig <- MCSavedConfig
  MaxJobs = 2
INVARIANTS
  TypeOK
  CardFollowsSelection
  FlagsFollowMemory
  FieldRoundTrips
  SectionNeverStale
  SectionMirrorsAdjusted
  ProfileShowsDaemonMode
