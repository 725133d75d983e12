CONSTANTS
  Declared = {"callA", "callB"}
  Undeclared = {"callU"}
  Answers <- MCAnswers
  ProcessingRetries = 1
  MaxPiece = 4
SPECIFICATION StreamSpec
  
PROPERTY OneAnswerPerResponse EveryRequestEnds
CHECK_DEADLOCK FALSE
