SPECIFICATION Spec
CONSTANTS
  p1 = p1
  p2 = p2
  t1 = t1
  t2 = t2
  NoInode = none
  Old = old
  Other = other
  Blank = blank
  Chunks = 2
  Procs = {p1}
  Targets = {t1}
  TargetOf <- OneTarget
  Inodes = {i1, i2, i3}
  Intruded = {t1}
  Before <- Alone
  Kinds = {"file", "scratch", "direct"}
  Killable = {p1}
INVARIANTS
  NoLeftover
  ScratchOnlyWhenDone
PROPERTIES
  KeepsPromise
  CancelStops
  Terminates
