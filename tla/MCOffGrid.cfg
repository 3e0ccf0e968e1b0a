SPECIFICATION FairSpec
CONSTANTS
  p1 = p1
  p2 = p2
  m1 = m1
  Pkt <- MCPkt
  NoPkt = none
  Msg <- MCMsg
  MsgOf <- MCMsgOf
  Lane = {cloud}
  Cloud = cloud
  MaxPull = 2
  Ages = {"fresh"}
  Overflow = FALSE
  ChatFirst = TRUE
  MaxFaults = 0
  MaxCrashes = 0
  Flusher = {f1}
  MaxBatch = 1
  MaxResends = 1
  MaxRefusals = 1
  MaxRestarts = 1
  MeshUp = FALSE
INVARIANTS SentIsAccounted
PROPERTY Delivers
