SPECIFICATION Spec
CONSTANTS
  Gateways = {g1}
  Clients = {c1, c2}
  Calls = {a}
  Max = 2
  Window = 2
  CleanupEvery = 3
  RedisUrls = {FALSE}
  Delay = 1
  MaxClock = 5
  NoCall = NoCall
INVARIANTS
  IdleKeysForgotten
PROPERTIES
  FallbackImplementsWindow
