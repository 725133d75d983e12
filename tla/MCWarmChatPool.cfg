SPECIFICATION Spec
CONSTANTS
  Request = {r1, r2}
  Model = {m1}
  Chat = {c1, c2, c3, c4}
  NoChat = NoChat
  PoolSize = 2
  LowWater = 1
INVARIANTS
  LeasesAreExclusive
  PoolsAreBounded
  LowPoolsAreRefilled
SYMMETRY Symmetry
