\* Three URBs, a queue that overfills, failed submissions,
\* suspend and resume at any moment.
SPECIFICATION FairSpec
CONSTANTS
  Urbs = 3
  LowWater = 1
  HighWater = 2
  FlowLimit = 1
  MaxLen = 2
  MaxTriggers = 2
  MayFail = TRUE
  MaySuspend = TRUE
INVARIANTS UrbsConserved StopIsUndone NoFrameForgotten QuietSuspendIsSafe
PROPERTIES StopEnds
CHECK_DEADLOCK FALSE
