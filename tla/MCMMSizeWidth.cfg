CONSTANTS
  N_SEGLIST = 3
  CHUNKSIZE = 32
  SIZE_MOD = 1024
  Limit = 1023
SPECIFICATION Sweep
\* The sweep ends at Limit.
CHECK_DEADLOCK FALSE
INVARIANT AdjustedSizeIsRight
