\* The code's own proportions, in units of 30 seconds (a pass takes one or two),
\* with a SIM card that may be unreadable.
SPECIFICATION Spec
CONSTANTS
  Base = 10
  Step = 4
  PingAfter = 2
  MaxResets = 3
  Poll = 1
  ResetTime = 1
  SimStates = {"ccid", "noccid"}
  CloudStates = {"skip"}
  ClockSteps = {}
  MaxSteps = 0
  MaxKills = 0
  Retry = 5
  SlowQuery = FALSE
  UbusFails = FALSE
INVARIANTS
  NextCheckTwoMinutesLater
