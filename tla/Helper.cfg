\* Three threads of two processes, one call each, in five situations.
CONSTANTS
  t1 = t1
  t2 = t2
  t3 = t3
  p1 = p1
  p2 = p2
  Helper = Helper
  None = None
  Threads = {t1, t2, t3}
  Procs = {p1, p2}
  ProcOf <- MCProcOf
  DestSize = 1
  Texts = {0, 2}
  MaxRequests = 1
  Scenarios <- Handled
SPECIFICATION FairSpec
INVARIANTS TypeOK RepliesInStep CallbacksCounted ImportTransaction
PROPERTIES ImportIsAtomic RequestsAnswered
CHECK_DEADLOCK FALSE
