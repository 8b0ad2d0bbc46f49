--------------------------- MODULE CtsTransaction ---------------------------
(***************************************************************************)
(* The transaction layer of the contacts library (src/src/cts-utils.c):    *)
(* contacts_svc_begin_trans, contacts_svc_end_trans, cts_get_next_ver and  *)
(* the nine change flags that become notifications after a commit.         *)
(*                                                                         *)
(* One process runs several threads over ONE database connection and one   *)
(* set of static variables; CTS_MUTEX_TRANSACTION protects the counter but *)
(* not the publication that follows a commit.  Other processes compete for *)
(* the database's write lock.  A thread is a program using the API: it     *)
(* nests begin/end pairs (an API call made inside an explicit transaction  *)
(* is such a pair) and changes rows in between.                            *)
(*                                                                         *)
(* A row stands for one change record and the version stamp it carries.    *)
(***************************************************************************)
EXTENDS Integers, FiniteSets

CONSTANTS
  Threads,     \* threads of this process
  NTopics,     \* number of change flags, tested in a fixed order
  MaxDepth,    \* bound: nesting of begin_trans calls in one thread
  MaxWrites,   \* bound: rows ever written, by this and other processes
  Faults,      \* what may fail, see below
  Nobody       \* not a thread

\* "io": BEGIN or COMMIT, with an error other than busy; "version": the
\* SELECT of the version; "update": its UPDATE; "rollback": a ROLLBACK, which
\* leaves the transaction open; "noti": opening a topic's file; "crash": the
\* process dies.
AllFaults == {"io", "version", "update", "rollback", "noti", "crash"}

Topics == 1..NTopics
Unversioned == 0        \* stamp of a change that takes no version (a link)

ASSUME ConstantsAssumption ==
  /\ IsFiniteSet(Threads)
  /\ Nobody \notin Threads
  /\ NTopics \in Nat
  /\ MaxDepth \in Nat
  /\ MaxWrites \in Nat
  /\ Faults \subseteq AllFaults

VARIABLES
  \* the static variables of cts-utils.c
  holder,             \* owner of CTS_MUTEX_TRANSACTION, or Nobody
  transaction_count,
  transaction_ver,
  version_up,
  changes,            \* the change flags that are true
  \* the threads
  pc,
  progress,           \* the retry delay of the holder, in units of 100 ms
  depth,              \* begin_trans calls a thread has not yet ended
  topic,              \* flag a thread sets next, or tests next
  \* the database file
  lock,               \* who has the write lock: "free", "self", "other"
  rows, ver,          \* the committed rows and version
  work,               \* the rows as this process's open transaction sees them
  failed,             \* the statements below that failed in the transaction
                      \* that has, or last had, the write lock
  \* history
  nextId,             \* rows written so far
  dirty,              \* topics of the changes in the open transaction
  owed,               \* topics with a committed change not yet announced
  synced              \* the largest version end_trans ever returned

statics == <<transaction_count, transaction_ver, version_up, changes>>
store == <<lock, rows, ver, work, failed>>
threads == <<pc, depth, topic>>
history == <<nextId, dirty, owed, synced>>
vars == <<holder, statics, threads, progress, store, history>>

PCs == {"idle", "noti", "begin", "exec", "end_true", "end_false",
        "commit", "publish", "clear"}

Row == [id : Nat, ver : Int]

\* The statements whose failure begin_trans and end_trans survive.
Ignored == {"version", "update", "rollback"}

\* The begin_trans calls that no end_trans has matched.
OpenOf(d) == {p \in Threads \X (1..MaxDepth) : p[2] <= d[p[1]]}
Open == OpenOf(depth)

TypeOK ==
  /\ holder \in Threads \cup {Nobody}
  /\ transaction_count \in Nat
  /\ transaction_ver \in Int
  /\ version_up \in BOOLEAN
  /\ changes \subseteq Topics
  /\ pc \in [Threads -> PCs]
  /\ progress \in Nat
  /\ depth \in [Threads -> 0..MaxDepth]
  /\ topic \in [Threads -> 0..NTopics + 1]
  /\ lock \in {"free", "self", "other"}
  /\ rows \subseteq Row
  /\ ver \in Int
  /\ work \subseteq Row
  /\ failed \subseteq Ignored
  /\ nextId \in Nat
  /\ dirty \subseteq Topics
  /\ owed \subseteq Topics
  /\ synced \in Nat

Init ==
  /\ holder = Nobody
  /\ transaction_count = 0
  /\ transaction_ver = 0
  /\ version_up = FALSE
  /\ changes = {}
  /\ pc = [t \in Threads |-> "idle"]
  /\ progress = 0
  /\ depth = [t \in Threads |-> 0]
  /\ topic = [t \in Threads |-> 0]
  /\ lock = "free"
  /\ rows = {}
  /\ ver = 0
  /\ work = {}
  /\ failed = {}
  /\ nextId = 0
  /\ dirty = {}
  /\ owed = {}
  /\ synced = 0

Goto(t, p) == pc' = [pc EXCEPT ![t] = p]

\* The pieces the handlers are made of.  Next to some stands a wrong
\* version of it, used to test that the properties notice.
MutAfterBegin == transaction_count
AfterBegin == transaction_count + 1

MutAfterEnd == transaction_count - 2
AfterEnd == transaction_count - 1

MutIsLastEnd == transaction_count >= 1
IsLastEnd == transaction_count = 1

\* cts_get_next_ver inside a transaction.
MutNextVer == transaction_ver
NextVer == transaction_ver + 1

\* SELECT ver, once BEGIN IMMEDIATE has the write lock.
MutVersionAtBegin == IF transaction_ver > 0 THEN transaction_ver ELSE ver
VersionAtBegin == ver

\* The next delay of a retry loop.
MutNextDelay == progress
NextDelay == 2 * progress

MutCancelledChanges == changes
CancelledChanges == {}      \* cts_cancel_changes

\* The flags once topic k's file has been opened.
MutFlagsWithout(k) == changes \ {k + 1}
FlagsWithout(k) == changes \ {k}

\* ROLLBACK.  When it fails nobody does it again: the transaction stays open
\* with its rows, whose changes will never be committed.
MutRollback == UNCHANGED <<lock, work, failed, dirty>>
Rollback ==
  /\ \/ lock' = "free" /\ work' = {} /\ UNCHANGED failed
     \/ /\ "rollback" \in Faults
        /\ failed' = failed \cup {"rollback"}
        /\ UNCHANGED <<lock, work>>
  /\ dirty' = {}

-----------------------------------------------------------------------------
(* contacts_svc_begin_trans *)

CTS_COMMIT_TRY_MAX == 5
CTS_ERR_DB_FAILED == -202

CallBegin(t) ==
  /\ pc[t] = "idle"
  /\ depth[t] < MaxDepth
  /\ Goto(t, "begin")
  /\ UNCHANGED <<holder, statics, depth, topic, progress, store,
                 nextId, dirty, owed, synced>>

\* Somebody has the process's transaction open already: only count.
BeginJoin(t) ==
  /\ pc[t] = "begin"
  /\ holder = Nobody
  /\ transaction_count > 0
  /\ transaction_count' = AfterBegin
  /\ depth' = [depth EXCEPT ![t] = @ + 1]
  /\ Goto(t, "idle")
  /\ UNCHANGED <<holder, transaction_ver, version_up, changes, topic, progress,
                 store, nextId, dirty, owed, synced>>

\* Nobody has: keep the mutex and go for the database's write lock.
BeginLock(t) ==
  /\ pc[t] = "begin"
  /\ holder = Nobody
  /\ transaction_count <= 0
  /\ holder' = t
  /\ progress' = 1
  /\ Goto(t, "exec")
  /\ UNCHANGED <<statics, depth, topic, store, nextId, dirty, owed, synced>>

\* BEGIN IMMEDIATE succeeds; the version is read under the write lock.  When
\* that fails begin_trans takes the error number for the version.
BeginExec(t) ==
  /\ pc[t] = "exec"
  /\ lock = "free"
  /\ lock' = "self"
  /\ work' = rows
  /\ transaction_count' = 1
  /\ \/ transaction_ver' = VersionAtBegin /\ failed' = {}
     \/ /\ "version" \in Faults
        /\ transaction_ver' = CTS_ERR_DB_FAILED
        /\ failed' = {"version"}
  /\ version_up' = FALSE
  /\ depth' = [depth EXCEPT ![t] = @ + 1]
  /\ holder' = Nobody
  /\ Goto(t, "idle")
  /\ dirty' = {}
  /\ UNCHANGED <<changes, topic, progress, rows, ver, nextId, owed, synced>>

\* CTS_ERR_DB_LOCK: sleep with the mutex held, double the delay, try again.
BeginRetry(t) ==
  /\ pc[t] = "exec"
  /\ lock = "other"
  /\ progress < CTS_COMMIT_TRY_MAX
  /\ progress' = NextDelay
  /\ UNCHANGED <<holder, statics, threads, store, nextId, dirty, owed, synced>>

\* The retries are used up, or the error was another one: a transaction that
\* a failed ROLLBACK left open makes every later BEGIN fail.
BeginFail(t) ==
  /\ pc[t] = "exec"
  /\ \/ lock = "other" /\ progress >= CTS_COMMIT_TRY_MAX
     \/ lock = "self"
     \/ "io" \in Faults
  /\ holder' = Nobody
  /\ Goto(t, "idle")
  /\ UNCHANGED <<statics, depth, topic, progress, store, nextId, dirty, owed, synced>>

-----------------------------------------------------------------------------
(* What an API call does between its begin and its end. *)

\* cts_get_next_ver and the statement that uses it, or a statement that
\* takes no version (link, favorite).
Write(t, k, versioned) ==
  /\ pc[t] = "idle"
  /\ depth[t] > 0
  /\ nextId < MaxWrites
  /\ nextId' = nextId + 1
  /\ version_up' = (version_up \/ versioned)
  /\ work' = work \cup
       {[id |-> nextId, ver |-> IF versioned THEN NextVer ELSE Unversioned]}
  /\ dirty' = dirty \cup {k}
  /\ topic' = [topic EXCEPT ![t] = k]
  /\ Goto(t, "noti")
  /\ UNCHANGED <<holder, transaction_count, transaction_ver, changes, depth,
                 progress, lock, rows, ver, failed, owed, synced>>

\* cts_set_contact_noti and its eight siblings.
SetNoti(t) ==
  /\ pc[t] = "noti"
  /\ changes' = changes \cup {topic[t]}
  /\ Goto(t, "idle")
  /\ UNCHANGED <<holder, transaction_count, transaction_ver, version_up, depth,
                 topic, progress, store, nextId, dirty, owed, synced>>

-----------------------------------------------------------------------------
(* contacts_svc_end_trans *)

CallEnd(t, is_success) ==
  /\ pc[t] = "idle"
  /\ depth[t] > 0
  /\ Goto(t, IF is_success THEN "end_true" ELSE "end_false")
  /\ UNCHANGED <<holder, statics, depth, topic, progress, store,
                 nextId, dirty, owed, synced>>

\* Not the last end: count down and report success, whatever was asked.
EndInner(t) ==
  /\ pc[t] \in {"end_true", "end_false"}
  /\ holder = Nobody
  /\ ~IsLastEnd
  /\ transaction_count' = AfterEnd
  /\ depth' = [depth EXCEPT ![t] = @ - 1]
  /\ Goto(t, "idle")
  /\ UNCHANGED <<holder, transaction_ver, version_up, changes, topic, progress,
                 store, nextId, dirty, owed, synced>>

\* The last end asks for a rollback: cts_cancel_changes, ROLLBACK.
EndAbort(t) ==
  /\ pc[t] = "end_false"
  /\ holder = Nobody
  /\ IsLastEnd
  /\ transaction_count' = AfterEnd
  /\ depth' = [depth EXCEPT ![t] = @ - 1]
  /\ changes' = CancelledChanges
  /\ Rollback
  /\ Goto(t, "idle")
  /\ UNCHANGED <<holder, transaction_ver, version_up, topic, progress, rows, ver,
                 nextId, owed, synced>>

\* The last end asks to commit: keep the mutex, UPDATE the version.
EndLock(t) ==
  /\ pc[t] = "end_true"
  /\ holder = Nobody
  /\ IsLastEnd
  /\ holder' = t
  /\ transaction_count' = AfterEnd
  /\ depth' = [depth EXCEPT ![t] = @ - 1]
  /\ transaction_ver' = IF version_up THEN transaction_ver + 1 ELSE transaction_ver
  /\ progress' = 4
  /\ Goto(t, "commit")
  /\ UNCHANGED <<version_up, changes, topic, store, nextId, dirty, owed, synced>>

\* COMMIT succeeds, the mutex is released, the publication starts.  The
\* result of the version's UPDATE, run when version_up, was only logged.
Commit(t) ==
  /\ pc[t] = "commit"
  /\ rows' = work
  /\ \/ ver' = (IF version_up THEN transaction_ver ELSE ver) /\ UNCHANGED failed
     \/ /\ version_up /\ "update" \in Faults
        /\ failed' = failed \cup {"update"}
        /\ UNCHANGED ver
  /\ work' = {}
  /\ lock' = "free"
  /\ holder' = Nobody
  /\ owed' = owed \cup dirty
  /\ dirty' = {}
  /\ topic' = [topic EXCEPT ![t] = 1]
  /\ Goto(t, "publish")
  /\ UNCHANGED <<statics, depth, progress, nextId, synced>>

\* A reader in another process makes COMMIT busy: sleep and try again.
CommitRetry(t) ==
  /\ pc[t] = "commit"
  /\ progress < CTS_COMMIT_TRY_MAX
  /\ progress' = NextDelay
  /\ UNCHANGED <<holder, statics, threads, store, nextId, dirty, owed, synced>>

\* Still busy, or another error: cancel the flags and roll back.
CommitFail(t) ==
  /\ pc[t] = "commit"
  /\ progress >= CTS_COMMIT_TRY_MAX \/ "io" \in Faults
  /\ changes' = CancelledChanges
  /\ Rollback
  /\ holder' = Nobody
  /\ Goto(t, "idle")
  /\ UNCHANGED <<transaction_count, transaction_ver, version_up, depth, topic,
                 progress, rows, ver, nextId, owed, synced>>

\* Test the next flag; when it is set, open and close the topic's file.
PublishTopic(t) ==
  LET k == topic[t] IN
  /\ pc[t] = "publish"
  /\ k \in changes
  /\ owed' = owed \ {k}
  /\ Goto(t, "clear")
  /\ UNCHANGED <<holder, statics, depth, topic, progress, store,
                 nextId, dirty, synced>>

\* The file was opened: the flag is cleared.
ClearTopic(t) ==
  /\ pc[t] = "clear"
  /\ changes' = FlagsWithout(topic[t])
  /\ topic' = [topic EXCEPT ![t] = @ + 1]
  /\ Goto(t, "publish")
  /\ UNCHANGED <<holder, transaction_count, transaction_ver, version_up, depth,
                 progress, store, nextId, dirty, owed, synced>>

\* The flag is not set, or the file cannot be opened: leave the flag alone.
SkipTopic(t) ==
  /\ pc[t] = "publish"
  /\ topic[t] \in Topics
  /\ topic[t] \notin changes \/ "noti" \in Faults
  /\ topic' = [topic EXCEPT ![t] = @ + 1]
  /\ UNCHANGED <<holder, statics, pc, depth, progress, store,
                 nextId, dirty, owed, synced>>

\* "return transaction_ver;", read without the mutex.
EndReturn(t) ==
  /\ pc[t] = "publish"
  /\ topic[t] = NTopics + 1
  /\ synced' = IF synced < transaction_ver THEN transaction_ver ELSE synced
  /\ Goto(t, "idle")
  /\ UNCHANGED <<holder, statics, depth, topic, progress, store,
                 nextId, dirty, owed>>

-----------------------------------------------------------------------------
(* The other processes that use the database, and the end of this one. *)

OtherBegin ==
  /\ lock = "free"
  /\ lock' = "other"
  /\ failed' = {}
  /\ UNCHANGED <<holder, statics, threads, progress, rows, ver, work,
                 nextId, dirty, owed, synced>>

\* It commits one stamped change, or gives up.
OtherEnd(commits) ==
  /\ lock = "other"
  /\ commits => nextId < MaxWrites
  /\ lock' = "free"
  /\ nextId' = IF commits THEN nextId + 1 ELSE nextId
  /\ ver' = IF commits THEN ver + 1 ELSE ver
  /\ rows' = IF commits
             THEN rows \cup {[id |-> nextId, ver |-> ver + 1]}
             ELSE rows
  /\ UNCHANGED <<holder, statics, threads, progress, work, failed, dirty, owed, synced>>

\* The process dies and starts again: SQLite rolls the open transaction
\* back, the static variables are new.
Crash ==
  /\ "crash" \in Faults
  /\ holder' = Nobody
  /\ transaction_count' = 0
  /\ transaction_ver' = 0
  /\ version_up' = FALSE
  /\ changes' = {}
  /\ pc' = [t \in Threads |-> "idle"]
  /\ depth' = [t \in Threads |-> 0]
  /\ topic' = [t \in Threads |-> 0]
  /\ progress' = 0
  /\ lock' = IF lock = "self" THEN "free" ELSE lock
  /\ work' = {}
  /\ failed' = {}
  /\ dirty' = {}
  /\ UNCHANGED <<rows, ver, nextId, owed, synced>>

-----------------------------------------------------------------------------
BeginStep(t) ==
  BeginJoin(t) \/ BeginLock(t) \/ BeginExec(t) \/ BeginRetry(t) \/ BeginFail(t)

EndStep(t) ==
  \/ EndInner(t) \/ EndAbort(t) \/ EndLock(t)
  \/ Commit(t) \/ CommitRetry(t) \/ CommitFail(t)
  \/ PublishTopic(t) \/ ClearTopic(t) \/ SkipTopic(t) \/ EndReturn(t)

Call(t) ==
  \/ CallBegin(t)
  \/ \E k \in Topics, versioned \in BOOLEAN : Write(t, k, versioned)
  \/ SetNoti(t)
  \/ \E is_success \in BOOLEAN : CallEnd(t, is_success)

Other == OtherBegin \/ \E commits \in BOOLEAN : OtherEnd(commits)

Next ==
  \/ \E t \in Threads : Call(t) \/ BeginStep(t) \/ EndStep(t)
  \/ Other
  \/ Crash

Spec == Init /\ [][Next]_vars

\* A thread inside begin_trans or end_trans keeps running; nothing obliges
\* a program to call, nor another process to release the database.
FairSpec == Spec /\ \A t \in Threads : WF_vars(BeginStep(t) \/ EndStep(t))
=============================================================================
