CONSTANTS
  Watchers = {w1}
  Cids = {c1, c2}
  Commas = {k1}
  EmptyCid = EmptyCid
  h1 = h1
  h2 = h2
  Hashes = {h0, h1, h2}
  ZeroHash = h0
  NoRecord = NoRecord
  Envelopes <- Mixed
  Modulus = 4
  MaxSize = 1
  MaxBatch = 2
  Capacity = 2
  Faulty = TRUE
  MaxStore = 2
SPECIFICATION Spec
INVARIANTS TypeOK PendingIsNew KnownOnChain AnchoredAsBroadcast
PROPERTIES EntriesSurvive
CHECK_DEADLOCK FALSE
