SPECIFICATION CtlFairSpec
CONSTANTS
  Clients = {c1, c2, c3}
  NULL = NULL
  MaxMsgs = 3
  Unanswered = {c3}
CHECK_DEADLOCK FALSE
INVARIANTS
  OwnReply
  BacklogIsBounded
PROPERTIES
  Answered
