SPECIFICATION FairSpec
CONSTANTS
  p1 = p1
  p2 = p2
  p3 = p3
  Procs = {p1, p2, p3}
  NoPid = NoPid
  SpinLimit = 1
  Mortal = {p1, p2, p3}
  Opaque = {p3}
INVARIANTS
  TypeOK
  MutualExclusion
  WordTellsHeld
  OwnerHoldsLock
PROPERTIES
  ImplementsMutex
  WaitingEndsInAcquisition
CHECK_DEADLOCK FALSE
