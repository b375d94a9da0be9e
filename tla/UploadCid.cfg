CONSTANTS
  Uploads = {u1, u2}
  None = None
  MaxAttempts = 2
  Oversize = {}
  Reentrant = FALSE
SPECIFICATION Spec
INVARIANTS CidNamesOwnFile
CHECK_DEADLOCK FALSE
