CONSTANTS
  Uploads = {u1, u2}
  None = None
  MaxAttempts = 2
  Oversize = {u2}
  Reentrant = FALSE
SPECIFICATION FairSpec
INVARIANTS TypeOK ActiveIsUploading OneInFlight SessionMapLive TerminalUnstaged
PROPERTIES AttemptEnds QueueDrains RetryingSettles
CHECK_DEADLOCK FALSE
