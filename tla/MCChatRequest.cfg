SPECIFICATION FairSpec
CONSTANTS
  a1 = a1  a2 = a2  c1 = c1  c2 = c2  d1 = d1  d2 = d2
  Request = {r1, r2}
  Session = {s1}
  Account <- MCAccount
  Chat <- MCChat
  Home <- MCHome
  None = None
  MaxRetries = 1
INVARIANTS
  DoneHoldsNothing
  
  ChatOnItsAccount
PROPERTIES
  LocksFollowTheLine
  EveryRequestFinishes
CHECK_DEADLOCK FALSE
