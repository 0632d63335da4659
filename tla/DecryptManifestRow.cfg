SPECIFICATION Spec
CONSTANTS
  Calls <- EncryptedManifest
  MaxRows = 3
  None = none
  MaxChanges = 0
INVARIANT VerifiedCoversEveryRow
