\* A window of four, numbers that wrap, a pool that runs out, every fault.
SPECIFICATION FairSpec
CONSTANTS
  Modulus = 16
  Window = 4
  Pool = 2
  Spread = 2
  Delay = 1
  Lag = 4
  FirstFrame = 13
  LastFrame = 18
  MayDeinit = TRUE
  MayLeave = TRUE
INVARIANTS HeldInWindow PoolConserved FreedWhenQuiet DeliveredOnce
PROPERTIES InOrder DeliverySpec GapsEnd
CHECK_DEADLOCK FALSE
