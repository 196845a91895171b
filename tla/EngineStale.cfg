SPECIFICATION Spec
CONSTANTS
  w1 = w1
  w2 = w2
  None = None
  Unavailable = Unavailable
  Workers <- MCWorkers
  Ids <- MCIds
  Keep = 1
  MaxRestarts = 1
INVARIANTS
  AnswerWasActive
