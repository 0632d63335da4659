SPECIFICATION Spec
CONSTANTS
  Calls <- WholesomeCbc
  MaxRows = 3
  None = none
  MaxChanges = 0
INVARIANT NeverInternal
