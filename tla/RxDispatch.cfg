CONSTANTS
  NumCores = 2
  CtrlNodes = 2
  MaxFrames = 3
SPECIFICATION FairSpec
INVARIANTS  OwnerDelivers 
 
