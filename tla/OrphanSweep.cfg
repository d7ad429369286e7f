\* OrphanSweep
SPECIFICATION LocalFairSpec
CONSTANTS
  Local = local
  NoNode = NoNode
  NoFile = NoFile
  Remotes = {}
  Files = {f1}
  MaxJobs = 1
  MaxAttempts = 1
  Environments = {{"restart"}}
PROPERTIES
  OrphansSweptUp
