SPECIFICATION FairSpec
CONSTANTS
  Request = {r1, r2}
  NoRequest = NoRequest
  Calls <- MCCalls
  Methods <- MCMethods
INVARIANTS
  TypeOK
  TextIsConcurrent
  OwnReply
PROPERTIES
  Answered
CHECK_DEADLOCK FALSE
