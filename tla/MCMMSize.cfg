CONSTANTS
  N_SEGLIST = 13
  CHUNKSIZE = 512
  SIZE_MOD = 1073741824
  Limit = 66000
SPECIFICATION Sweep
\* The sweep ends at Limit.
CHECK_DEADLOCK FALSE
INVARIANTS
  AdjustedSizeIsRight
  RootIsTheLevel
