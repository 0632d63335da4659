SPECIFICATION Spec
CONSTANTS
  p1 = p1
  p2 = p2
  t1 = t1
  t2 = t2
  NoInode = none
  Old = old
  Other = other
  Blank = blank
  Chunks = 2
  Procs = {p1, p2}
  Targets = {t1}
  TargetOf <- SharedTarget
  Inodes = {i1, i2}
  Intruded = {t1}
  Before <- InTurn
  Kinds = {"file"}
  Killable = {p1}
INVARIANTS
  TargetsWhole
  NeverMoreReadable
PROPERTY ForceOnly
SYMMETRY InodesAlike
