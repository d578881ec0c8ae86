\* A dead holder and two processes that reclaim its lock.
CONSTANTS
  Proc = {d1, d2, d3}
  MayCrash = {d1}
  MaxAttempts = 1
  NoDir = NoDir
SPECIFICATION Spec
INVARIANT MutualExclusion
CHECK_DEADLOCK FALSE
