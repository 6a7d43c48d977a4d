CONSTANTS
  None = None
  inline = inline
  split = split
  masked = masked
  unsafe = unsafe
  ledger = ledger
  secret = secret
  Queries = {"transaction", "case", "decisions", "velocity", inline, split, masked, unsafe}
  Key <- MCKey
  Unsafe = {unsafe}
  Masked = {masked}
  Simple = {inline, split}
  Told <- MCTold
  Catalog <- MCCatalog
  Relations = {ledger, secret}
  Plans = {{}, {ledger}, {ledger, secret}}
  Permitted = {ledger}
  Calls = {"transaction", "case", "decisions", "velocity", client}
  Max = 2
SPECIFICATION Spec
INVARIANTS TypeOK CacheSound SourcesExact WholeOrPartial
PROPERTY GuardImplementsAllowlist
