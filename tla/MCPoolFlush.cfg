\* Two compile workers and two CPUs that share them, or one that does not.
SPECIFICATION LiveSpec
CONSTANTS
  None = None
  c1 = c1
  c2 = c2
  w1 = w1
  w2 = w2
  Cpus = {c1, c2}
  Others = {w1, w2}
  Workers = {w1, w2}
  Disables = FALSE
  Remappers = {}
  MaxStops = 0
  QueueCap = 1
INVARIANTS
  CompilesCurrent
  FlushAlone
  CleanRestart
  PoolInv
PROPERTIES
  SharedFlushEnds
\* A worker that has not begun when the next flush comes stops both.
CHECK_DEADLOCK FALSE
