SPECIFICATION FairSpec
CONSTANTS
  Requests = {r1, r2}
  Ports = {p1}
  None = None
  Note = Note
  MaxRestarts = 0
  MaxBacklog = 1
PROPERTIES
  AnsweredEventually
CHECK_DEADLOCK FALSE
