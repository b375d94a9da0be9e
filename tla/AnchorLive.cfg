CONSTANTS
  Watchers = {w1}
  Cids = {c1, c2, c3}
  Commas = {}
  EmptyCid = EmptyCid
  h1 = h1
  h2 = h2
  Hashes = {h0, h1, h2}
  ZeroHash = h0
  NoRecord = NoRecord
  Envelopes <- OneEach
  Modulus = 4
  MaxSize = 2
  MaxBatch = 2
  Capacity = 3
  Faulty = FALSE
  MaxStore = 3
SPECIFICATION FairSpec
PROPERTY ReadIsAnchored
CHECK_DEADLOCK FALSE
