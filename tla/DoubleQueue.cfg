\* DoubleQueue
SPECIFICATION Spec
CONSTANTS
  Local = local
  NoNode = NoNode
  NoFile = NoFile
  Remotes = {r1}
  Files = {f1}
  MaxJobs = 2
  MaxAttempts = 2
  Environments = {{}}
INVARIANTS
  NoDoubleQueue
