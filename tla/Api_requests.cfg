SPECIFICATION FairSpec
CONSTANTS
  r1 = r1
  r2 = r2
  r3 = r3
  g1 = g1
  g2 = g2
  Requests = {r1, r2, r3}
  Groups = {g1, g2}
  Wanted <- ProfileAndGroup
  MaxConns = 1
  NoAnswer = NoAnswer
INVARIANTS TypeOK AnswerIsComplete AnswerIsHonest NothingLeftRunning
PROPERTIES EveryRequestAnswered
