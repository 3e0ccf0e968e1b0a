SPECIFICATION NodeSpec
CONSTANTS
  Call = {service, host, panel}
  NoNode = none
  MaxStops = 2
CHECK_DEADLOCK FALSE
INVARIANTS NodeTypeOK RunningIsKnown OffIsOff
PROPERTY ChannelStays
