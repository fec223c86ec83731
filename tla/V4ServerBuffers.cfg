SPECIFICATION FairSpec
CONSTANTS
  c1 = c1
  c2 = c2
  c3 = c3
  Client = {c1, c2, c3}
  Nil = Nil
  NumBuffers = 2
  LastBR = 6
  Calls <- NestedCalls
  Outcomes <- AnsweringOrNot
  Impatient = {c1}
  Deferrable = {c2, c3}
  MaxRequests = 2
  Joined <- Larger
  MaxCount = 7
INVARIANTS TypeOK AnswerMatches StringsInServerBuffers BuffersRestored NotAnsweredTwice
PROPERTIES Served CallersNotForgotten
CHECK_DEADLOCK FALSE
