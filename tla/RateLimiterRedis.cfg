SPECIFICATION Spec
CONSTANTS
  Gateways = {g1, g2}
  Clients = {c1}
  Calls = {a, b}
  Max = 1
  Window = 3
  CleanupEvery = 2
  RedisUrls = {TRUE}
  Delay = 1
  MaxClock = 4
  NoCall = NoCall
SYMMETRY MCSymmetry
INVARIANTS
  TypeOK
  RedisWindow
  DeploymentLimit
