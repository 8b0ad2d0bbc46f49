\* One thread, nested transactions, competing processes, a ROLLBACK that fails.  Any
\* other error would end the retries, whose bound is what MutexReleased is about.
CONSTANTS
  t1 = t1
  Nobody = Nobody
  Threads = {t1}
  NTopics = 2
  MaxDepth = 2
  MaxWrites = 3
  Faults = {"rollback"}
SPECIFICATION FairSpec
INVARIANTS TypeOK NotificationsKept
PROPERTIES MutexReleased AnnouncedIsCommitted SyncNeverMisses
