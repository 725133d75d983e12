SPECIFICATION FairStreamSpec
CONSTANTS
  Stream = {r1, r2}
  NoStream = NoStream
INVARIANTS
  PageHasOneOwner
  AnswersAreOwn
PROPERTIES
  EveryWaiterGetsThePage
CHECK_DEADLOCK FALSE
