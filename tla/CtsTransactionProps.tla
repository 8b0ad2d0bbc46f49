------------------------ MODULE CtsTransactionProps ------------------------
(***************************************************************************)
(* What the transaction layer has to guarantee.                            *)
(***************************************************************************)
EXTENDS CtsTransaction

\* The counter is the number of begin_trans calls, over all threads, whose
\* end_trans is still to come: no path through begin_trans, its retries or
\* end_trans loses or repeats a count (transaction_count).
CountIsOpenCalls == transaction_count = Cardinality(Open)

\* Between its begin_trans and its end_trans a thread always has the write
\* lock behind it: its statements never run in autocommit mode, whatever
\* the other threads end meanwhile,
\* nor in a transaction that another thread tried in vain to roll back.
InsideTransaction ==
  \A t \in Threads : depth[t] > 0 => lock = "self" /\ "rollback" \notin failed

\* The write lock is stranded in one way only: this process has it while some
\* thread has an end_trans to call or is committing, or because the ROLLBACK of
\* end_trans failed, a result that the code ignores (cts-utils.c:276, 300).
NoStrandedLock ==
  lock = "self" =>
    \/ \E t \in Threads : depth[t] > 0 \/ pc[t] = "commit"
    \/ "rollback" \in failed

\* To the readers of the database the commits of this process and of the
\* others are the atomic batches of CtsAtomicStore, freshly stamped unless the
\* batch's own SELECT or UPDATE of the version failed: end_trans commits such
\* a batch (cts-utils.c:235, 284).
Abstract == INSTANCE CtsAtomicStore WITH
  rows <- rows, ver <- ver, sound <- failed \cap {"version", "update"} = {},
  Unversioned <- Unversioned
AtomicCommits == Abstract!ASpec

\* The waits inside begin_trans and end_trans are bounded: a thread gives
\* CTS_MUTEX_TRANSACTION back even if another process never releases the
\* database.
MutexReleased == \A t \in Threads : (holder = t) ~> (holder # t)

\* "The notification is sent once per a transaction" (cts-utils.h:159): the
\* flag of a topic with a committed change stays set until the topic is
\* announced.
NotificationsKept == owed \subseteq changes

\* ... and a topic is announced only for a change that is committed, so a
\* subscriber that reads the database on the event finds the change.
AnnouncedIsCommitted ==
  [][\A t \in Threads :
       pc[t] = "publish" /\ pc'[t] = "clear" => topic[t] \in owed]_vars

\* A program that keeps the version end_trans returned and asks later for
\* "updated contacts since the version (not include version)"
\* (cts-list.h:387) misses no change: whatever is committed after a version
\* was returned carries a larger stamp.
SyncNeverMisses ==
  [][\A r \in rows' \ rows : r.ver # Unversioned => r.ver > synced]_vars
=============================================================================
