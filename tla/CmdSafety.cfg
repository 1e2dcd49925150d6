\* Every kind of command, a kill, time-outs, a disconnect at any moment.
SPECIFICATION Spec
CONSTANTS
  Slots = {s1, s2}
  Kinds = {"query", "set", "traffic", "remove", "plain"}
  MaxQueued = 2
  MayKill = TRUE
  MayUnplug = TRUE
INVARIANTS NoAnswerToDeadStack OwnAnswer OneAtATime OverwriteNeedsPlain
  AwakeWhileQueued DoubleUnlinkNeedsDrain SlotsAccountedFor
PROPERTY DeferredIsStranded
SYMMETRY Symmetry
\* A disconnected driver stops.
CHECK_DEADLOCK FALSE
