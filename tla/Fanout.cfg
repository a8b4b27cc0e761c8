CONSTANTS
  Fanouts = {f1, f2}
  NumWorkers = 2
  ChunkSize = 1
  MaxLaunchers = 2
SPECIFICATION FairSpec
INVARIANTS CalledOnce NoneLeftBehind NoHandleForgotten
 
CHECK_DEADLOCK FALSE
