\* The cloud agent may stop.
SPECIFICATION Spec
CONSTANTS
  Limit = 6
  Credit = 4
  PingAfter = 2
  MaxResets = 3
  Poll = 1
  ResetTime = 0
  DeviceF = FALSE
  HostChoices = {TRUE}
  CloudStates = {"offline", "empty"}
  CardChoices = {TRUE}
  ClockSteps <- MCClockSteps
  MaxSteps = 0
  MaxKills = 0
INVARIANT EmptyFileSkipsChecking
