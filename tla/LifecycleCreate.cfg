SPECIFICATION Spec
CONSTANTS
  p1 = p1
  p2 = p2
  p3 = p3
  Procs = {p1, p2, p3}
  SizeOf <- SameSize
  MaxWrites = 2
INVARIANTS
  TypeOK
  OpenedIsInitialised
  WritesSurvive
PROPERTY
  CrashIsReported
CHECK_DEADLOCK FALSE
