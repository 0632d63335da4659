SPECIFICATION Spec
CONSTANTS
  Calls <- AllCalls
  MaxRows = 3
  None = none
  MaxChanges = 1
INVARIANTS
  SealedStaysSealed
  AuthenticOrError
  WithinLimit
  ScreensFirst
  EveryRowChecked
  BlameIsTrue
PROPERTY Returns
