\* Two threads: is every committed change announced?
CONSTANTS
  t1 = t1
  t2 = t2
  Nobody = Nobody
  Threads = {t1, t2}
  NTopics = 1
  MaxDepth = 1
  MaxWrites = 2
  Faults = {}
SPECIFICATION Spec
INVARIANTS NotificationsKept
