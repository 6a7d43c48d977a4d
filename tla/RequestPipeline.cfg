SPECIFICATION Spec
CONSTANTS
  Scopes = {db, kafka}
  None = None
INVARIANTS
  TypeOK
  ContextRestored
  ToolsAdmitted
  ObservedStatus
  AnswersAgree
PROPERTIES
  AccessImplemented
