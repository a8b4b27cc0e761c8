CONSTANTS
  Threads = {t1, t2}
  Slots = {s1, s2}
  NullIndex = NullIndex
  VersionMod = 3
  MaxPushes = 4
SPECIFICATION MCSpec
INVARIANTS SlotsConserved  
PROPERTIES ImplementsFreeList
CHECK_DEADLOCK FALSE
