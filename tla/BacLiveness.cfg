\* One run at a time, as one crond starts them; pages that poll, and a call of
\* deveventlist.
SPECIFICATION PolledSpec
CONSTANTS
  Devices = {d1}
  Crons = {c1}
  Throttle = 20
  Barrier = 2
  RpcKinds = {"dev", "ev", "obj", "devev"}
INVARIANT ListIsComplete
PROPERTIES RequestsAreAnswered PolledObjectsAreRead
