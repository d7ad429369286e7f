\* WorkerCancel
SPECIFICATION FairSpec
CONSTANTS
  Local = local
  NoNode = NoNode
  NoFile = NoFile
  NoDispatch = NoDispatch
  Remotes = {r1}
  Files = {f1, f2}
  MaxJobs = 2
  MaxAttempts = 1
  Cap = 1
  Environments = {{}}
INVARIANTS
  SwapNotDenied
  SlotsHold
  NoCollateralCancel
PROPERTIES
  CancelGetsThrough
