SPECIFICATION Spec
CONSTANTS
  Keys = {k1, k2, k3}
  Partitions = {p1, p2}
  Limit = 2
  Top = 3
INVARIANTS
  TypeOK
  WholeUnlessSaid
  PeekRecent
  LagNotOverstated
