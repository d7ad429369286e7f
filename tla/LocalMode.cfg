\* LocalMode
SPECIFICATION MCSpec
CONSTANTS
  Local = local
  NoNode = NoNode
  NoFile = NoFile
  NoHost = NoHost
  Files = {f1}
  MaxJobs = 2
  MaxAttempts = 2
  Environments = {{"halt", "restart", "purge"}}
  Hosts = {h1, h2}
  RemoteJobs = {k1}
  SlotChoices = {1, 2}
INVARIANTS
  TypeOK
  OneMode
  EncodesReachable
  EncodesApart
PROPERTIES
  ImplementsHost
  DisconnectTakesEffect
