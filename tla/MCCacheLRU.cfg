CONSTANTS
  Threads = {t1, t2, t3}
  Keys = {k1, k2}
  Sizes <- MCSizes
  MaxSize = 3
  INT_MAX = 9
  MaxClock = 1
  NULL = NULL
SPECIFICATION Spec
\* A connection's thread ends; the run stops at the first bad state.
CHECK_DEADLOCK FALSE
INVARIANT EvictionFindsTheOldest
