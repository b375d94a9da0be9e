CONSTANTS
  Uploads = {u1, u2}
  None = None
  MaxAttempts = 1
  Oversize = {}
  Reentrant = FALSE
  Content <- Own
  Meta <- Same
  Posted <- PostedFirst
  MaxPosted = 2
  Restarts = TRUE
SPECIFICATION PublishSpec
INVARIANTS PublishTypeOK LedgerAgrees DoneWasHanded OneBroadcastPerKey
PROPERTY KeepsJobs
CHECK_DEADLOCK FALSE
