\* WorkerFaults
SPECIFICATION Spec
CONSTANTS
  Local = local
  NoNode = NoNode
  NoFile = NoFile
  NoDispatch = NoDispatch
  Remotes = {r1}
  Files = {f1}
  MaxJobs = 1
  MaxAttempts = 2
  Cap = 2
  Environments = {{"silence", "loss", "restart", "unpair", "purge"}}
INVARIANTS
  TypeOK
  DoneMeansSwapped
PROPERTIES
  ImplementsHost
