SPECIFICATION FairSpec
CONSTANTS
  Request = {r1, r2, r3, r4}
  Account = {a1}
  Object = {o1, o2, o3, o4}
  None = None
  MaxConcurrent = 2
  MaxAge = 0
  MaxTime = 2
INVARIANTS
  IInv
  CapacityRespected
PROPERTIES
  NoOvertaking
  EveryWaiterIsServed
CHECK_DEADLOCK FALSE
