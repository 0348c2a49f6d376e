SPECIFICATION FairSpec
CONSTANTS
  SigMod = 3
  MaxCalls = 3
CHECK_DEADLOCK FALSE
INVARIANTS IntactReceive IndInv
PROPERTIES ImplementsCallChannel CallEnds MessageArrives
