\* HostQueue
SPECIFICATION Spec
CONSTANTS
  Local = local
  NoNode = NoNode
  NoFile = NoFile
  Remotes = {r1, r2}
  Files = {f1}
  MaxJobs = 2
  MaxAttempts = 2
  Environments = {{"silence", "loss", "restart", "unpair", "purge"}}
SYMMETRY Symmetry
INVARIANTS
  TypeOK
  Owned
PROPERTIES
  SettledForGood
  LedgerSpec
