SPECIFICATION Spec
CONSTANTS
  Base = 2
  Step = 1
  PingAfter = 1
  MaxResets = 3
  Poll = 1
  ResetTime = 1
  SimStates = {"ccid", "broken"}
  CloudStates = {"offline", "online"}
  ClockSteps <- MCClockSteps
  MaxSteps = 1
  MaxKills = 1
  Retry = 5
  SlowQuery = FALSE
  UbusFails = TRUE
INVARIANTS
  ModuleLeftAsFound
  RepowerMeansNoAddress
  DisabledIsLeftAlone
PROPERTIES
  PowerLossIsFinal
  LadderSpec
