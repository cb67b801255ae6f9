SPECIFICATION ReplyFairSpec
CONSTANTS
  Task = {t1, t2}
  MaxSignals = 3
  Channel = {1, 2, 3}
  Crossing = {2}
INVARIANTS
  SleepsOnlyRegistered
  NewestValue
  AnswerIsTrue
PROPERTIES
  RequestIsAnswered
CHECK_DEADLOCK FALSE
