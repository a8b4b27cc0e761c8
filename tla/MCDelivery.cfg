CONSTANTS
  Producers = {p1, p2}
  Inboxes = {i1}
  Nodes = {n1, n2, n3}
  Null = Null
  NumBuffers = 4
  MaxFrames = 3
  Cores = {"c1", "c2"}
  Tasks = {"t1", "t2"}
  Home <- HomeOf
  Hosts = {"g"}
  Gw = "g"
  Remotes = {"r"}
  Macs = {1}
  CacheSize = 1
  PendingSlots = 1
  Attempts = 1
  SpinRetries = 1
  MayCancel = TRUE
SPECIFICATION MCSpec
INVARIANTS InboxExact ResolverExact
PROPERTIES ImplementsFifoChannel DeliveryEnds
CHECK_DEADLOCK FALSE
