CONSTANTS
  Accounts = {a1}
  Callers = {k1, k2}
  MaxContexts = 2
  MaxResets = 2
  MaxCrashes = 1
SPECIFICATION Spec
INVARIANTS IdleAccountsAreWhole 
PROPERTIES WorkIsNotCutShort EveryResetEnds
