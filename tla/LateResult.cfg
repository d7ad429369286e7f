\* LateResult
SPECIFICATION Spec
CONSTANTS
  Local = local
  NoNode = NoNode
  NoFile = NoFile
  Remotes = {r1}
  Files = {f1}
  MaxJobs = 1
  MaxAttempts = 2
  Environments = {{"silence"}}
PROPERTIES
  LateResultLeftAlone
