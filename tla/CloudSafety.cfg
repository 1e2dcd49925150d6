\* The code's own proportions, in units of 60 seconds: an F series device, a
\* daemon that may die, a module that may not be found, an even clock and
\* a host for the online check.
SPECIFICATION Spec
CONSTANTS
  Limit = 3
  Credit = 2
  PingAfter = 1
  MaxResets = 3
  Poll = 1
  ResetTime = 0
  DeviceF = TRUE
  HostChoices = {TRUE}
  CloudStates = {"empty", "garbled", "offline", "online"}
  CardChoices = {TRUE, FALSE}
  ClockSteps <- MCClockSteps
  MaxSteps = 0
  MaxKills = 1
INVARIANTS RebootAfterFailedPing RestartsAreSpaced
PROPERTY LadderSpec
