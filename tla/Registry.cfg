CONSTANTS
  Cids = {c1, c2, c3, c4}
  EmptyCid = EmptyCid
  Hashes = {h0, h1, h2}
  ZeroHash = h0
  Stamps = {0, 1}
  Anchorers = {a1, a2}
  NoRecord = NoRecord
  Batches <- MCBatches
  MaxBatch = 2
  Capacity = 3
SPECIFICATION Spec
INVARIANTS TypeOK
PROPERTIES IsLog BatchesAreBounded
CHECK_DEADLOCK FALSE
