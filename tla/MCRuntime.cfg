CONSTANTS
  WheelSize = 2
  Sleeps = {s1, s2}
  TaskOf <- OneEach
  Delays = {1, 2, 3}
  MaxTime = 5
  Owner = owner
  Remotes = {remote}
  NumWords = 2
  WordBits = 1
  EpochMod = 4
  MaxSpawns = 3
  Producers = {p, q}
  MaxItems = 2
  Threads = {p, q, r}
  Calls = 2
SPECIFICATION MCSpec
INVARIANTS BoundIsLower NoneOverdue ArenaExact EventExact InitialisedOnce
PROPERTIES WaitsEnd
CHECK_DEADLOCK FALSE
