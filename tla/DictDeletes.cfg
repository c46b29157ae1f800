SPECIFICATION Spec
CONSTANTS
  p1 = p1
  p2 = p2
  p3 = p3
  k1 = k1
  k2 = k2
  k3 = k3
  NoKey = NoKey
  NoVal = NoVal
  Procs = {p1, p2}
  Keys = {k1, k3}
  SlotOf <- TwoLocks
  Pool = 2
  Calls <- DeleterCalls
  MaxCalls = 2
  Capacity = 3
  BlocksOf <- Blocks
  Modulus = 4
  Width = 4
  Absent = Absent
  NoOp = NoOp
  NoRet = NoRet
  OOM = OOM
INVARIANT
  CountsExact
CHECK_DEADLOCK FALSE
