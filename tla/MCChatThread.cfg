\* One message; two handlers under way, and the sweeps.
SPECIFICATION ChatSpec
CONSTANTS
  Msgs = {m1}
  RetryMax = 1
  MaxTasks = 2
  MaxUnread = 2
INVARIANTS ChatTypeOK TicksAreTrue BadgeCoversUnread LockIsReleased
PROPERTIES RecordsMoveOn PendingEnds
