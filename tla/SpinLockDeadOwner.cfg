SPECIFICATION FairSpec
CONSTANTS
  p1 = p1
  p2 = p2
  Procs = {p1, p2}
  NoPid = NoPid
  SpinLimit = 1
  Mortal = {p1}
  Opaque = {}
PROPERTY
  DeadOwnerIsReplaced
CHECK_DEADLOCK FALSE
