\* Repairing
SPECIFICATION FairSpec
CONSTANTS
  Local = local
  NoNode = NoNode
  NoFile = NoFile
  NoHost = NoHost
  Files = {f1}
  MaxJobs = 1
  MaxAttempts = 1
  Environments = {{}}
  Hosts = {h1, h2}
  RemoteJobs = {k1}
  SlotChoices = {1}
PROPERTY
  PairingTakesEffect
