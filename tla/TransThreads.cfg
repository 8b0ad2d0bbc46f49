\* Two threads share the process's transaction and nest it; whatever statement
\* fails, processes crash.
CONSTANTS
  t1 = t1
  t2 = t2
  Nobody = Nobody
  Threads = {t1, t2}
  NTopics = 1
  MaxDepth = 2
  MaxWrites = 2
  Faults = {"io", "version", "update", "rollback", "noti", "crash"}
SPECIFICATION Spec
SYMMETRY Symmetry
INVARIANTS CountIsOpenCalls InsideTransaction NoStrandedLock
PROPERTIES AtomicCommits
