SPECIFICATION SenderSpec
CONSTANTS
  p1 = p1
  m1 = m1
  m2 = m2
  Pkt <- MCPkt
  NoPkt = none
  Msg <- MCMsg
  MsgOf <- MCMsgOf
  Lane = {cloud}
  Cloud = cloud
  MaxPull = 2
  Ages = {"fresh"}
  Overflow = FALSE
  ChatFirst = TRUE
  MaxFaults = 0
  MaxCrashes = 0
  Flusher = {f1, f2}
  MaxBatch = 1
  MaxResends = 1
  MaxRefusals = 2
  MaxRestarts = 0
  MeshUp = TRUE
CHECK_DEADLOCK FALSE
INVARIANTS OutboxTypeOK SentIsHandedOver
PROPERTY IntentKept
SYMMETRY Symmetric
