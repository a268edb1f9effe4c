CONSTANTS
  Threads = {t1, t2, t3}
  Keys = {k1, k2}
  Sizes <- MCSizes
  MaxSize = 3
  INT_MAX = 9
  MaxClock = 1
  NULL = NULL
SPECIFICATION FairSpec
\* A connection's thread ends; EveryThreadEnds says none is left waiting.
CHECK_DEADLOCK FALSE
INVARIANTS
  TypeOK
  WritersAreAlone
  SemaphoresAgree
  ReadersSeeAStableList
  SpaceIsAccounted
PROPERTIES
  ImplementsObjectCache
  EveryThreadEnds
