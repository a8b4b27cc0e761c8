CONSTANTS
  NumCores = 2
  Platforms <- IrqOnly
  Slots = {s1}
  Aborts = FALSE
SPECIFICATION FairSpec
PROPERTY CrossCoreWakeServed
CHECK_DEADLOCK FALSE
