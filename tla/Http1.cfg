CONSTANTS
  HeadLen = 2
  MaxHead = 3
  Window = 5
  Requests = 2
  Bodies = {0, 3}
  Plans = {"skip", "half", "collect", "echo", "abort"}
  Peers = {"client", "pipeline"}
  BodyCap = 2
  MayTimeout = TRUE
  MayLeave = TRUE
SPECIFICATION Spec
INVARIANTS MessagesExact
 
CHECK_DEADLOCK FALSE
