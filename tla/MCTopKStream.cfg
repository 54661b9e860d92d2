\* A buffer of four keys for the 2048 of the kernel, of which the best two are kept.  A block
\* that has written its rows has ended.
CONSTANTS
  ScoreRows <- MCRows
  NWarps = 2
  Lanes = 1
  Items = 2
  K = 2
SPECIFICATION StreamSpec
INVARIANT Exact
CHECK_DEADLOCK FALSE
