SPECIFICATION MCSpec
CONSTANTS
  MaxCrashes = 3
  Servers = {"a", "b"}
  Owner = "a"
  Elsewhere <- Other
  Reported <- MCReported
  Machine <- MCMachine
  Contents <- MCContents
  Rows <- MCRows
  Setups <- MCSetups
  Within <- MCWithin
  Probes <- MCProbes
  Targets <- MCTargets
  Hosts <- MCHosts
  Conditions <- MCConditions
  Subjects <- MCSubjects
  Tables <- MCTables
  FilterLists <- MCFilterLists
  GridItems <- MCGridItems
  CodecNames <- MCCodecNames
  Columns <- MCColumns
INVARIANTS
  BootTypeOK
  CompleteOnceUp
  LibraryTypeOK
  GridTruthful
  NotifyReachesOwner
  PlanConverges
  FramesMatch
  RoundTripsKeepMeaning
  AliasTablesAgree
  EmptiesLast
PROPERTIES
  NothingLost
  BootsInTheEnd
  EncodeNeeded
  PlanKept
  IndexCatchesUp
CHECK_DEADLOCK FALSE
