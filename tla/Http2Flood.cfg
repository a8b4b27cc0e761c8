SPECIFICATION PairSpec
CONSTANTS
  Sids = {1, 3}
  InitialWindow = 2
  MaxFrame = 1
  SendCap = 2
  MaxStreams = 2
  FloodCap = 4
  ResetCap = 3
  ArenaSlots = 2
  WireCap = 3
  BodyLen = 3
  ReplyLens = {0, 3}
  Writes = {1, 2}
  MaxWrites = 2
  MaxGrants = 0
  ClientInits = {}
  MayPad = FALSE
  MayMismatch = FALSE
  MayGrantEarly = FALSE
  HandlersFail = FALSE
  Requests = 1
  BodyCap = 3
  MayLose = FALSE
INVARIANT NoAccusation
CHECK_DEADLOCK FALSE
