CONSTANTS
  Sizes = {0, 78, 79}
  Delays = {0, 1200}
SPECIFICATION FairSpec
INVARIANTS TypeOK OverInTime
PROPERTY SmallEnds
CHECK_DEADLOCK FALSE
