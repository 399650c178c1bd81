SPECIFICATION BroadcastsSpec
CONSTANTS
  Users = {u1, u2}
  Senders = {e1}
  BatchSize = 1
CHECK_DEADLOCK FALSE
INVARIANT
  EveryRecipientIsFed
