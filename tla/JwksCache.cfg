SPECIFICATION FairSpec
CONSTANTS
  Requests = {r1, r2, r3}
  Kids = {k1}
  None = None
  NoKid = NoKid
  TTL = 2
  MaxClock = 3
INVARIANTS
  TypeOK
  SingleFlight
  RevocationBound
  NoFalseRejection
PROPERTIES
  CacheAdvances
  ValidationImplemented
  EveryRequestEnds
