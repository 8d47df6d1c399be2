SPECIFICATION FairSpec
CONSTANTS
  Processes = {p1, p2, p3}
  Threads = {t1, t2}
  Attempts = 3
INVARIANTS MajorityRuns StateIsKnown NoneLeftStopped NothingHangs
PROPERTY EveryProcessExits
CHECK_DEADLOCK FALSE
