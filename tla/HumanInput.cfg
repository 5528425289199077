SPECIFICATION Spec
CONSTANTS
  c1 = c1
  c2 = c2
  a1 = a1
  a2 = a2
  NoAnswer = NoAnswer
  Rounds = 2
  Answers <- TwoAnswers
  Refusable <- TheSecond
  Callers <- TwoCallers
  TTL = 1
  MaxTime = 1
  MaxSignals = 2
SYMMETRY Symmetry
INVARIANTS
  AcceptedIsTrue
  RejectedIsTrue
  AnswerNotLost
CHECK_DEADLOCK FALSE
