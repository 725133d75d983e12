SPECIFICATION Spec
CONSTANTS
  Request = {r1, r2}
  Session = {s, o}
  Tracked = s
  Keep = 2
  MaxRaw = 3
  Concurrency = 1
  MaxTurns = 6
  MaxSummaries = 2
  MaxChats = 2
INVARIANTS
  
  
  ActiveChatHasTurns
  DeletedChatsAreContinued
SYMMETRY Symmetry
