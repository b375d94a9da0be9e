CONSTANTS
  Jobs = {j1, j2}
  None = None
  MaxTries = 2
  MaxCount = 2
SPECIFICATION FairSpec
INVARIANTS TypeOK PollsWhileWorking PhaseIsCurrent AnchoredWasDone KeepsTrying
PROPERTY EndIsSeen
CHECK_DEADLOCK FALSE
