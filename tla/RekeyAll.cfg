\* Sources wholesome and per-entry, sound and damaged, under both passwords.
SPECIFICATION RekeySpec
CONSTANTS
  Calls <- RekeyCalls
  MaxRows = 3
  None = none
  MaxChanges = 1
INVARIANTS BegunWhenDue RekeyedWhole NothingCarriedOver BlameIsTrue
