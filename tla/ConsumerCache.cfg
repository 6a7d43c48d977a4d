SPECIFICATION Spec
CONSTANTS
  Calls = {a, b}
  Topics = {t1, t2}
  Groups = {g}
  Consumers = {x, y, z}
  NoGroup = NoGroup
  TTL = 0
  MaxClock = 1
  None = None
SYMMETRY MCSymmetry
INVARIANTS
  TypeOK
  LossExplained
  AlonePeekReadsItsTopic
PROPERTIES
  LendingImplemented
