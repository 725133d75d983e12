SPECIFICATION FairSpec
CONSTANTS
  Request = {r1, r2, r3}
  Chat = {c1, c2}
  Object = {o1, o2, o3}
  NoObject = NoObject
  NoChat = NoChat
INVARIANTS
  MutualExclusion
PROPERTIES
  ImplementsChatLine
  EveryWaiterIsServed
