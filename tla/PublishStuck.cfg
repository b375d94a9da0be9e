CONSTANTS
  Uploads = {u1, u2}
  None = None
  MaxAttempts = 1
  Oversize = {}
  Reentrant = FALSE
  Content <- Same
  Meta <- Same
  Posted <- PostedNone
  MaxPosted = 0
  Restarts = FALSE
SPECIFICATION PublishFairSpec
PROPERTY BroadcastingEnds
CHECK_DEADLOCK FALSE
