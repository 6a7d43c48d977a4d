SPECIFICATION Spec
CONSTANTS
  Apps = {a1, a2}
  Configs = {local, test}
  Attempts = 3
  None = None
INVARIANTS
  TypeOK
  SuccessIsTrue
  DuplicatesExplained
PROPERTIES
  ProvisioningImplemented
  EveryBootstrapEnds
