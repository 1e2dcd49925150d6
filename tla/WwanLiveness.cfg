\* A small instance, a clock that steps once, no deaths.
SPECIFICATION FairSpec
CONSTANTS
  Base = 1
  Step = 1
  PingAfter = 0
  MaxResets = 2
  Poll = 1
  ResetTime = 1
  SimStates = {"ccid", "noccid"}
  CloudStates = {"skip", "offline", "garbled"}
  ClockSteps <- MCClockSteps
  MaxSteps = 1
  MaxKills = 0
  Retry = 0
  SlowQuery = TRUE
  UbusFails = FALSE
PROPERTIES
  WindowCloses
  MissingAddressEscalates
  MissingCloudIsActedOn
