SPECIFICATION Spec
CONSTANTS
  Backends = {postgres, redis, s3, platform}
  Lazy = {s3, platform}
  Pooled = {postgres}
  Sessions = {s3}
  Overrides = {{redis}}
  Probers = {r}
INVARIANTS
  TypeOK
  ReadyIsTrue
PROPERTIES
  EachLifeImplemented
  EveryPhaseEnds
CHECK_DEADLOCK FALSE
