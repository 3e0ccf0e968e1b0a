SPECIFICATION MailboxSpec
CONSTANTS
  p1 = p1
  p2 = p2
  m1 = m1
  m2 = m2
  Pkt <- MCPkt
  NoPkt = none
  Msg <- MCMsg
  MsgOf <- MCMsgOf
  Lane = {cloud, dc1, dc2}
  Cloud = cloud
  MaxPull = 1
  Ages = {"fresh", "stale", "expired"}
  Overflow = TRUE
  ChatFirst = TRUE
  MaxFaults = 0
  MaxCrashes = 0
INVARIANT KeptUntilDelivered
