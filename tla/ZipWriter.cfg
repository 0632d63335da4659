\* Two members of every kind and size: the second is at the u16 limit.
CONSTANTS
  U32Limit <- MCU32Limit
  U16Limit = 2
  Chunk = 100
  NameLengths = {2}
  Sizes <- MCSizes
  MaxMembers = 2
  Headroom <- MCHeadroom
  Slack <- MCSlack
SPECIFICATION Spec
INVARIANTS ReadsBack DescriptorsFit DescribedAsItWas WithinReach
CHECK_DEADLOCK FALSE
