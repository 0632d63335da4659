SPECIFICATION Spec
CONSTANTS
  Documents <- Manifests
  MaxDepth = 7
  None = none
INVARIANTS
  StackIsPath
  AllOrNothing
  SoundRowsAreRead
  NothingBorrowed
  RewrittenIsPlain
