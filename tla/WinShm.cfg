SPECIFICATION FairSpec
CONSTANTS
  Profiles = {"hybrid", "busywait"}
  MaxCalls = 2
CHECK_DEADLOCK FALSE
INVARIANTS DrainedBeforeDisconnect
PROPERTIES ImplementsCallChannel MessageArrives CloseIsNoticed
