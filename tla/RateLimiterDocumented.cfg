SPECIFICATION Spec
CONSTANTS
  Gateways = {g1}
  Clients = {c1}
  Calls = {a}
  Max = 1
  Window = 2
  CleanupEvery = 1
  RedisUrls = {TRUE}
  Delay = 1
  MaxClock = 3
  NoCall = NoCall
INVARIANTS
  DocumentedLimit
