SPECIFICATION Spec
CONSTANTS
  Calls = {a, b}
  Topics = {t1, t2}
  Groups = {g}
  Consumers = {x, y}
  NoGroup = NoGroup
  TTL = 1
  MaxClock = 1
  None = None
INVARIANTS
  PeekReadsItsTopic
