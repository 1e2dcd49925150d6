\* No kills, no disconnect: the order of the queue, and who is served.
SPECIFICATION FairSpec
CONSTANTS
  Slots = {s1, s2, s3}
  Kinds = {"query", "set", "traffic", "remove"}
  MaxQueued = 2
  MayKill = FALSE
  MayUnplug = FALSE
PROPERTIES FifoSpec DeferredEnds
\* A slot whose command timed out in the worker is never freed.
CHECK_DEADLOCK FALSE
