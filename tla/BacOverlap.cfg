\* Runs that overlap after crond was restarted; few processes are enough to reach the throttle.
SPECIFICATION Spec
CONSTANTS
  Devices = {d1}
  Crons = {c1, c2}
  Throttle = 3
  Barrier = 2
  RpcKinds = {"devev"}
INVARIANT CollectAfterWorkers
PROPERTY BarriersDeadlock
\* Two runs at their barriers wait for each other for ever.
CHECK_DEADLOCK FALSE
