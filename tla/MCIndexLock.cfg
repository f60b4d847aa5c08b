SPECIFICATION Spec
CONSTANTS
  c1 = c1
  c2 = c2
  c3 = c3
  c4 = c4
  Start = Start
  Calls <- MCCalls
INVARIANTS
  LockInv
  MutualExclusion
PROPERTIES
  FifoOrder
  EveryCallReturns
CHECK_DEADLOCK FALSE
