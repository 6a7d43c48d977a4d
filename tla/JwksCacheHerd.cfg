SPECIFICATION Spec
CONSTANTS
  Requests = {r1, r2}
  Kids = {k1, k2}
  None = None
  NoKid = NoKid
  TTL = 2
  MaxClock = 1
PROPERTIES
  NoHerd
