\* HostFaults
SPECIFICATION FairSpec
CONSTANTS
  Local = local
  NoNode = NoNode
  NoFile = NoFile
  Remotes = {r1}
  Files = {f1, f2}
  MaxJobs = 2
  MaxAttempts = 2
  Environments = {{"silence", "unpair", "purge"}, {"loss", "restart", "halt"}}
INVARIANTS
  ActiveHasDispatch
  OneDispatchPerJob
  OneBusyRowPerFile
PROPERTIES
  SilentNodeReleases
