CONSTANTS
  Cids = {c1, c2}
  EmptyCid = EmptyCid
  Hashes = {h0, h1, h2}
  ZeroHash = h0
  Anchorers = {a1, a2}
  Self = a1
  NoRecord = NoRecord
  None = None
  MaxBatch = 2
  Capacity = 1
  OwnLibrary = FALSE
  Faulty = TRUE
SPECIFICATION Spec
SYMMETRY Symmetric
INVARIANTS TypeOK ConfirmedOnChain
CHECK_DEADLOCK FALSE
