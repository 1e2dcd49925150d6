\* An F series device whose daemon may die, and whose clock may step.
SPECIFICATION FairSpec
CONSTANTS
  Limit = 2
  Credit = 1
  PingAfter = 1
  MaxResets = 2
  Poll = 1
  ResetTime = 1
  DeviceF = TRUE
  HostChoices = {TRUE, FALSE}
  CloudStates = {"empty", "offline"}
  CardChoices = {TRUE, FALSE}
  ClockSteps <- MCClockSteps
  MaxSteps = 1
  MaxKills = 1
PROPERTIES PowerComesBack OfflineEndsInReboot
