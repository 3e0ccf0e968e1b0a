SPECIFICATION BridgeSpec
CONSTANTS
  MaxCalls = 3
  CorrMod = 3
  MaxWorkers = 2
  RingCap = 1
  MaxFaults = 2
  MaxDisposals = 1
CHECK_DEADLOCK FALSE
INVARIANTS BridgeTypeOK TableIsExact FrameIsUnderWay RingsAreRead
PROPERTY CallsEnd
