SPECIFICATION FairSpec
CONSTANTS
  Requests = {r1, r2}
  Workers = {w1, w2}
  NoTrace = NoTrace
  MaxJars = 2
  JarKinds <- Kinds
INVARIANTS TasksAccounted AnswerComplete
PROPERTY EveryRequestAnswered
CHECK_DEADLOCK FALSE
