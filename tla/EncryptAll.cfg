\* Chunks of 4 and stored blocks of 3: a chunk is one byte more than a block.
CONSTANTS
  Chunk = 4
  BlockMax = 3
  MaxInput = 13
  MaxChanges = 1
  Asked <- MCAsked
  ReadLimits <- SomeLimits
  MaxCost = 40
  MaxLanes = 3
  PerLane = 8
  SaltLengths = {8, 16}
SPECIFICATION Spec
INVARIANTS Decodes NoReachBack SizeIsTrue HeaderHasRoom BlameIsTrue CostsAgree
PROPERTY Returns
