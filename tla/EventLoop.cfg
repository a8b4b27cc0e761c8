CONSTANTS
  NumCores = 2
  Platforms <- Both
  Slots = {s1}
  Aborts = TRUE
SPECIFICATION FairSpec
INVARIANTS NoTimerSleptThrough
PROPERTIES BoundedCoreServes ShutdownCompletes
CHECK_DEADLOCK FALSE
