SPECIFICATION ResponsesSpec
CONSTANTS
  r1 = r1
  r2 = r2
  Requests = {r1, r2}
  Answers <- MCAnswers
  Capacity = 1
  Evicted = 1
INVARIANTS
  
  StoredIsFound
PROPERTIES
  EveryStreamConcludes
CHECK_DEADLOCK FALSE
