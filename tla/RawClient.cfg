SPECIFICATION FairSpec
CONSTANTS
  Default = 2
  Cap = 8
  OverflowLimit = 2
  Baseline = TRUE
  ReqSizes = {1, 3}
  RespSizes = {4, 9}
  ReqConfig = 0
  RespConfig = 0
  MaxCalls = 2
CHECK_DEADLOCK FALSE
INVARIANTS RetryBound OverflowIsHopeless
PROPERTIES OversizeIsPermanent CallReturns
