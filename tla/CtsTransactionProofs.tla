------------------------ MODULE CtsTransactionProofs ------------------------
(***************************************************************************)
(* Proofs about CtsTransaction, for any number of threads, any nesting and *)
(* any number of rows.  The inductive invariant IInv says what the static  *)
(* variables, the mutex and the database's write lock have to do with each *)
(* other; the properties follow from it.                                   *)
(***************************************************************************)
EXTENDS CtsTransactionProps, FiniteSetTheorems, TLAPS

-----------------------------------------------------------------------------
(* Counting the open calls. *)

\* One more begin_trans in one thread is one more open call in all.
LEMMA OpenUp ==
  ASSUME NEW d \in [Threads -> 0..MaxDepth], NEW t \in Threads,
         d[t] < MaxDepth, IsFiniteSet(OpenOf(d))
  PROVE  LET e == [d EXCEPT ![t] = @ + 1] IN
         /\ IsFiniteSet(OpenOf(e))
         /\ Cardinality(OpenOf(e)) = Cardinality(OpenOf(d)) + 1
<1> DEFINE e == [d EXCEPT ![t] = @ + 1]
           p == <<t, d[t] + 1>>
<1> MaxDepth \in Nat
  BY ConstantsAssumption DEF ConstantsAssumption
<1>1. OpenOf(e) = OpenOf(d) \cup {p}
  BY DEF OpenOf
<1>2. p \notin OpenOf(d)
  BY DEF OpenOf
<1>3. /\ IsFiniteSet(OpenOf(d) \cup {p})
      /\ Cardinality(OpenOf(d) \cup {p}) = Cardinality(OpenOf(d)) + 1
  BY <1>2, FS_AddElement
<1> QED
  BY <1>1, <1>3

\* One end_trans in a thread that has an open call is one open call less.
LEMMA OpenDown ==
  ASSUME NEW d \in [Threads -> 0..MaxDepth], NEW t \in Threads,
         d[t] > 0, IsFiniteSet(OpenOf(d))
  PROVE  LET e == [d EXCEPT ![t] = @ - 1] IN
         /\ IsFiniteSet(OpenOf(e))
         /\ Cardinality(OpenOf(e)) = Cardinality(OpenOf(d)) - 1
<1> DEFINE e == [d EXCEPT ![t] = @ - 1]
           p == <<t, d[t]>>
<1> MaxDepth \in Nat
  BY ConstantsAssumption DEF ConstantsAssumption
<1>1. OpenOf(e) = OpenOf(d) \ {p}
  BY DEF OpenOf
<1>2. p \in OpenOf(d)
  BY DEF OpenOf
<1>3. /\ IsFiniteSet(OpenOf(d) \ {p})
      /\ Cardinality(OpenOf(d) \ {p}) = Cardinality(OpenOf(d)) - 1
  BY <1>2, FS_RemoveElement
<1> QED
  BY <1>1, <1>3

\* There is an open call exactly when some thread is inside a transaction.
LEMMA OpenCount ==
  ASSUME NEW d \in [Threads -> 0..MaxDepth], IsFiniteSet(OpenOf(d))
  PROVE  /\ Cardinality(OpenOf(d)) \in Nat
         /\ Cardinality(OpenOf(d)) > 0 <=> \E t \in Threads : d[t] > 0
<1> MaxDepth \in Nat
  BY ConstantsAssumption DEF ConstantsAssumption
<1>1. Cardinality(OpenOf(d)) \in Nat
  BY FS_CardinalityType
<1>2. Cardinality(OpenOf(d)) = 0 <=> OpenOf(d) = {}
  BY FS_EmptySet
<1>3. ASSUME NEW t \in Threads, d[t] > 0
      PROVE  OpenOf(d) # {}
  <2>1. <<t, d[t]>> \in OpenOf(d)
    BY <1>3 DEF OpenOf
  <2> QED
    BY <2>1
<1>4. ASSUME OpenOf(d) # {}
      PROVE  \E t \in Threads : d[t] > 0
  BY <1>4 DEF OpenOf
<1> QED
  BY <1>1, <1>2, <1>3, <1>4

-----------------------------------------------------------------------------
(* The inductive invariant. *)

\* Where a thread is says what it has open and which flag it is at.
PcOK ==
  \A t \in Threads :
    /\ pc[t] \in {"noti", "end_true", "end_false"} => depth[t] > 0
    /\ pc[t] \in {"begin", "exec"} => depth[t] < MaxDepth
    /\ pc[t] \in {"noti", "clear"} => topic[t] \in Topics

CountOK ==
  /\ IsFiniteSet(OpenOf(depth))
  /\ transaction_count = Cardinality(OpenOf(depth))

\* The threads that wait for the database hold the mutex, and meanwhile no
\* call is open.
MutexOK ==
  \A t \in Threads :
    pc[t] \in {"exec", "commit"} => holder = t /\ transaction_count = 0

\* The process has the write lock while a call is open or a commit is tried;
\* a transaction that a failed ROLLBACK left open has neither.
LockOK ==
  /\ transaction_count > 0 \/ (\E t \in Threads : pc[t] = "commit")
       => lock = "self" /\ "rollback" \notin failed
  /\ lock = "self" => \/ transaction_count > 0
                      \/ \E t \in Threads : pc[t] = "commit"
                      \/ "rollback" \in failed

\* The open transaction extends the committed rows.  If none of its statements
\* failed, its new rows are not stamped or carry the next version, and its
\* version is the committed one until end_trans increments it.
WorkOK ==
  lock = "self" =>
    /\ rows \subseteq work
    /\ failed = {} =>
         /\ \A r \in work \ rows :
              r.ver # Unversioned => r.ver = ver + 1 /\ version_up
         /\ transaction_ver = IF transaction_count = 0 /\ version_up THEN ver + 1 ELSE ver

IInv == TypeOK /\ PcOK /\ CountOK /\ MutexOK /\ LockOK /\ WorkOK

LEMMA InitIInv == Init => IInv
<1> SUFFICES ASSUME Init PROVE IInv
  OBVIOUS
<1> NTopics \in Nat /\ MaxDepth \in Nat
  BY ConstantsAssumption DEF ConstantsAssumption
<1>1. TypeOK
  <2>1. pc \in [Threads -> PCs]
    BY DEF Init, PCs
  <2>2. depth \in [Threads -> 0..MaxDepth] /\ topic \in [Threads -> 0..NTopics + 1]
    BY DEF Init
  <2>3. rows \subseteq Row /\ work \subseteq Row /\ failed \subseteq Ignored
    BY DEF Init
  <2>4. transaction_ver \in Int /\ ver \in Int
    BY DEF Init
  <2>5. /\ transaction_count \in Nat /\ progress \in Nat /\ nextId \in Nat /\ synced \in Nat
        /\ holder \in Threads \cup {Nobody} /\ version_up \in BOOLEAN
        /\ lock \in {"free", "self", "other"}
    BY DEF Init
  <2>6. changes \subseteq Topics /\ dirty \subseteq Topics /\ owed \subseteq Topics
    BY DEF Init
  <2> QED
    BY <2>1, <2>2, <2>3, <2>4, <2>5, <2>6 DEF TypeOK
<1>2. OpenOf(depth) = {}
  BY DEF Init, OpenOf
<1>3. CountOK
  BY <1>2, FS_EmptySet DEF CountOK, Init
<1>4. PcOK /\ MutexOK /\ LockOK /\ WorkOK
  BY DEF Init, PcOK, MutexOK, LockOK, WorkOK
<1> QED
  BY <1>1, <1>3, <1>4 DEF IInv

\* The counter is positive exactly when some thread is inside a transaction.
LEMMA CountPositive ==
  ASSUME IInv
  PROVE  /\ transaction_count \in Nat
         /\ transaction_count > 0 <=> \E t \in Threads : depth[t] > 0
<1>1. depth \in [Threads -> 0..MaxDepth] /\ IsFiniteSet(OpenOf(depth))
  BY DEF IInv, TypeOK, CountOK
<1>2. transaction_count = Cardinality(OpenOf(depth))
  BY DEF IInv, CountOK
<1> QED
  BY <1>1, <1>2, OpenCount

-----------------------------------------------------------------------------
(* Every step preserves the invariant. *)

LEMMA CallBeginKeeps ==
  ASSUME IInv, NEW t \in Threads, CallBegin(t)
  PROVE  IInv'
<1> NTopics \in Nat /\ MaxDepth \in Nat /\ Nobody \notin Threads
  BY ConstantsAssumption DEF ConstantsAssumption
<1> USE DEF IInv, CallBegin, Goto, statics, store, threads, history
<1>1. TypeOK'
  BY DEF TypeOK, PCs, Topics
<1>2. PcOK'
  BY DEF PcOK, TypeOK
<1>3. CountOK'
  BY DEF CountOK
<1>4. MutexOK'
  BY DEF MutexOK, TypeOK
<1>5. LockOK'
  BY DEF LockOK, MutexOK, TypeOK
<1>6. WorkOK'
  BY DEF WorkOK, LockOK, MutexOK, TypeOK
<1> QED
  BY <1>1, <1>2, <1>3, <1>4, <1>5, <1>6

LEMMA BeginJoinKeeps ==
  ASSUME IInv, NEW t \in Threads, BeginJoin(t)
  PROVE  IInv'
<1> NTopics \in Nat /\ MaxDepth \in Nat /\ Nobody \notin Threads
  BY ConstantsAssumption DEF ConstantsAssumption
<1>0. transaction_count \in Nat /\ (transaction_count > 0 <=> \E q \in Threads : depth[q] > 0)
  BY CountPositive
<1> USE DEF IInv, BeginJoin, Goto, statics, store, threads, history, AfterBegin
<1>1. TypeOK'
  BY <1>0 DEF TypeOK, PcOK, PCs, Topics
<1>2. PcOK'
  BY DEF PcOK, TypeOK
<1>3. CountOK'
  <2>1. depth \in [Threads -> 0..MaxDepth] /\ IsFiniteSet(OpenOf(depth))
    BY DEF TypeOK, CountOK
  <2>2. depth[t] < MaxDepth
    BY DEF PcOK
  <2>3. depth' = [depth EXCEPT ![t] = @ + 1]
    OBVIOUS
  <2>4. /\ IsFiniteSet(OpenOf(depth'))
        /\ Cardinality(OpenOf(depth')) = Cardinality(OpenOf(depth)) + 1
    BY <2>1, <2>2, <2>3, OpenUp
  <2>5. transaction_count' = Cardinality(OpenOf(depth)) + 1
    BY DEF CountOK
  <2> QED
    BY <2>4, <2>5 DEF CountOK, OpenOf
<1>4. MutexOK'
  BY <1>0 DEF MutexOK, TypeOK
<1>5. LockOK'
  BY <1>0 DEF LockOK, MutexOK, TypeOK
<1>6. WorkOK'
  BY <1>0 DEF WorkOK, LockOK, MutexOK, TypeOK
<1> QED
  BY <1>1, <1>2, <1>3, <1>4, <1>5, <1>6

LEMMA BeginLockKeeps ==
  ASSUME IInv, NEW t \in Threads, BeginLock(t)
  PROVE  IInv'
<1> NTopics \in Nat /\ MaxDepth \in Nat /\ Nobody \notin Threads
  BY ConstantsAssumption DEF ConstantsAssumption
<1> USE DEF IInv, BeginLock, Goto, statics, store, threads, history
<1>1. TypeOK'
  BY DEF TypeOK, PCs, Topics
<1>2. PcOK'
  BY DEF PcOK, TypeOK
<1>3. CountOK'
  BY DEF CountOK
<1>4. MutexOK'
  BY DEF MutexOK, TypeOK
<1>5. LockOK'
  BY DEF LockOK, MutexOK, TypeOK
<1>6. WorkOK'
  BY DEF WorkOK, LockOK, MutexOK, TypeOK
<1> QED
  BY <1>1, <1>2, <1>3, <1>4, <1>5, <1>6

LEMMA BeginExecKeeps ==
  ASSUME IInv, NEW t \in Threads, BeginExec(t)
  PROVE  IInv'
<1> NTopics \in Nat /\ MaxDepth \in Nat /\ Nobody \notin Threads
  BY ConstantsAssumption DEF ConstantsAssumption
<1>0. transaction_count \in Nat /\ (transaction_count > 0 <=> \E q \in Threads : depth[q] > 0)
  BY CountPositive
<1> USE DEF IInv, BeginExec, Goto, statics, store, threads, history, VersionAtBegin
<1>1. TypeOK'
  <2>1. pc' \in [Threads -> PCs]
    BY DEF TypeOK, PCs
  <2>2. depth' \in [Threads -> 0..MaxDepth]
    BY DEF TypeOK, PcOK
  <2>3. transaction_ver' \in Int /\ failed' \subseteq Ignored
    BY DEF TypeOK, Ignored, CTS_ERR_DB_FAILED
  <2> QED
    BY <2>1, <2>2, <2>3 DEF TypeOK
<1>2. PcOK'
  BY DEF PcOK, TypeOK
<1>3. CountOK'
  <2>1. depth \in [Threads -> 0..MaxDepth] /\ IsFiniteSet(OpenOf(depth))
    BY DEF TypeOK, CountOK
  <2>2. depth[t] < MaxDepth
    BY DEF PcOK
  <2>3. depth' = [depth EXCEPT ![t] = @ + 1]
    OBVIOUS
  <2>4. /\ IsFiniteSet(OpenOf(depth'))
        /\ Cardinality(OpenOf(depth')) = Cardinality(OpenOf(depth)) + 1
    BY <2>1, <2>2, <2>3, OpenUp
  <2>5. transaction_count' = Cardinality(OpenOf(depth)) + 1
    BY <2>1, CountPositive, OpenCount DEF CountOK, LockOK
  <2> QED
    BY <2>4, <2>5 DEF CountOK, OpenOf
<1>4. MutexOK'
  BY <1>0 DEF MutexOK, TypeOK
<1>5. LockOK'
  BY <1>0 DEF LockOK, MutexOK, TypeOK
<1>6. WorkOK'
  BY <1>0 DEF WorkOK, LockOK, MutexOK, TypeOK
<1> QED
  BY <1>1, <1>2, <1>3, <1>4, <1>5, <1>6

LEMMA BeginRetryKeeps ==
  ASSUME IInv, NEW t \in Threads, BeginRetry(t)
  PROVE  IInv'
<1> NTopics \in Nat /\ MaxDepth \in Nat /\ Nobody \notin Threads
  BY ConstantsAssumption DEF ConstantsAssumption
<1> USE DEF IInv, BeginRetry, Goto, statics, store, threads, history, NextDelay
<1>1. TypeOK'
  BY DEF TypeOK, PCs, Topics
<1>2. PcOK'
  BY DEF PcOK, TypeOK
<1>3. CountOK'
  BY DEF CountOK
<1>4. MutexOK'
  BY DEF MutexOK, TypeOK
<1>5. LockOK'
  BY DEF LockOK, MutexOK, TypeOK
<1>6. WorkOK'
  BY DEF WorkOK, LockOK, MutexOK, TypeOK
<1> QED
  BY <1>1, <1>2, <1>3, <1>4, <1>5, <1>6

LEMMA BeginFailKeeps ==
  ASSUME IInv, NEW t \in Threads, BeginFail(t)
  PROVE  IInv'
<1> NTopics \in Nat /\ MaxDepth \in Nat /\ Nobody \notin Threads
  BY ConstantsAssumption DEF ConstantsAssumption
<1> USE DEF IInv, BeginFail, Goto, statics, store, threads, history
<1>1. TypeOK'
  BY DEF TypeOK, PCs, Topics
<1>2. PcOK'
  BY DEF PcOK, TypeOK
<1>3. CountOK'
  BY DEF CountOK
<1>4. MutexOK'
  BY DEF MutexOK, TypeOK
<1>5. LockOK'
  BY DEF LockOK, MutexOK, TypeOK
<1>6. WorkOK'
  BY DEF WorkOK, LockOK, MutexOK, TypeOK
<1> QED
  BY <1>1, <1>2, <1>3, <1>4, <1>5, <1>6

LEMMA WriteKeeps ==
  ASSUME IInv, NEW t \in Threads, NEW k \in Topics, NEW versioned \in BOOLEAN, Write(t, k, versioned)
  PROVE  IInv'
<1> NTopics \in Nat /\ MaxDepth \in Nat /\ Nobody \notin Threads
  BY ConstantsAssumption DEF ConstantsAssumption
<1>0. transaction_count \in Nat /\ (transaction_count > 0 <=> \E q \in Threads : depth[q] > 0)
  BY CountPositive
<1> USE DEF IInv, Write, Goto, statics, store, threads, history, NextVer
<1>1. TypeOK'
  <2>1. pc' \in [Threads -> PCs]
    BY DEF TypeOK, PCs
  <2>2. topic' \in [Threads -> 0..NTopics + 1] /\ dirty' \subseteq Topics
    BY DEF TypeOK, Topics
  <2>3. depth[t] \in Nat /\ nextId \in Nat /\ NextVer \in Int /\ Unversioned \in Int
    BY DEF TypeOK, Unversioned
  <2>4. work' \subseteq Row
    BY <2>3 DEF TypeOK, Row
  <2> QED
    BY <2>1, <2>2, <2>3, <2>4 DEF TypeOK
<1>2. PcOK'
  BY DEF PcOK, TypeOK
<1>3. CountOK'
  BY DEF CountOK
<1>4. MutexOK'
  BY <1>0 DEF MutexOK, TypeOK
<1>5. LockOK'
  BY <1>0 DEF LockOK, MutexOK, TypeOK
<1>6. WorkOK'
  BY <1>0 DEF WorkOK, LockOK, MutexOK, TypeOK
<1> QED
  BY <1>1, <1>2, <1>3, <1>4, <1>5, <1>6

LEMMA SetNotiKeeps ==
  ASSUME IInv, NEW t \in Threads, SetNoti(t)
  PROVE  IInv'
<1> NTopics \in Nat /\ MaxDepth \in Nat /\ Nobody \notin Threads
  BY ConstantsAssumption DEF ConstantsAssumption
<1> USE DEF IInv, SetNoti, Goto, statics, store, threads, history
<1>1. TypeOK'
  BY DEF TypeOK, PcOK, PCs, Topics
<1>2. PcOK'
  BY DEF PcOK, TypeOK
<1>3. CountOK'
  BY DEF CountOK
<1>4. MutexOK'
  BY DEF MutexOK, TypeOK
<1>5. LockOK'
  BY DEF LockOK, MutexOK, TypeOK
<1>6. WorkOK'
  BY DEF WorkOK, LockOK, MutexOK, TypeOK
<1> QED
  BY <1>1, <1>2, <1>3, <1>4, <1>5, <1>6

LEMMA CallEndKeeps ==
  ASSUME IInv, NEW t \in Threads, NEW is_success \in BOOLEAN, CallEnd(t, is_success)
  PROVE  IInv'
<1> NTopics \in Nat /\ MaxDepth \in Nat /\ Nobody \notin Threads
  BY ConstantsAssumption DEF ConstantsAssumption
<1> USE DEF IInv, CallEnd, Goto, statics, store, threads, history
<1>1. TypeOK'
  BY DEF TypeOK, PCs, Topics
<1>2. PcOK'
  BY DEF PcOK, TypeOK
<1>3. CountOK'
  BY DEF CountOK
<1>4. MutexOK'
  BY DEF MutexOK, TypeOK
<1>5. LockOK'
  BY DEF LockOK, MutexOK, TypeOK
<1>6. WorkOK'
  BY DEF WorkOK, LockOK, MutexOK, TypeOK
<1> QED
  BY <1>1, <1>2, <1>3, <1>4, <1>5, <1>6

LEMMA EndInnerKeeps ==
  ASSUME IInv, NEW t \in Threads, EndInner(t)
  PROVE  IInv'
<1> NTopics \in Nat /\ MaxDepth \in Nat /\ Nobody \notin Threads
  BY ConstantsAssumption DEF ConstantsAssumption
<1>0. transaction_count \in Nat /\ (transaction_count > 0 <=> \E q \in Threads : depth[q] > 0)
  BY CountPositive
<1> USE DEF IInv, EndInner, Goto, statics, store, threads, history, AfterEnd, IsLastEnd
<1>1. TypeOK'
  <2>1. transaction_count' \in Nat
    BY <1>0 DEF PcOK
  <2>2. depth' \in [Threads -> 0..MaxDepth]
    BY DEF TypeOK, PcOK
  <2>3. pc' \in [Threads -> PCs]
    BY DEF TypeOK, PCs
  <2> QED
    BY <2>1, <2>2, <2>3 DEF TypeOK
<1>2. PcOK'
  BY DEF PcOK, TypeOK
<1>3. CountOK'
  <2>1. depth \in [Threads -> 0..MaxDepth] /\ IsFiniteSet(OpenOf(depth))
    BY DEF TypeOK, CountOK
  <2>2. depth[t] > 0
    BY DEF PcOK
  <2>3. depth' = [depth EXCEPT ![t] = @ - 1]
    OBVIOUS
  <2>4. /\ IsFiniteSet(OpenOf(depth'))
        /\ Cardinality(OpenOf(depth')) = Cardinality(OpenOf(depth)) - 1
    BY <2>1, <2>2, <2>3, OpenDown
  <2>5. transaction_count' = Cardinality(OpenOf(depth)) - 1
    BY DEF CountOK
  <2> QED
    BY <2>4, <2>5 DEF CountOK, OpenOf
<1>4. MutexOK'
  BY <1>0 DEF MutexOK, TypeOK
<1>5. LockOK'
  BY <1>0 DEF LockOK, MutexOK, TypeOK
<1>6. WorkOK'
  BY <1>0 DEF WorkOK, LockOK, MutexOK, TypeOK
<1> QED
  BY <1>1, <1>2, <1>3, <1>4, <1>5, <1>6

LEMMA EndAbortKeeps ==
  ASSUME IInv, NEW t \in Threads, EndAbort(t)
  PROVE  IInv'
<1> NTopics \in Nat /\ MaxDepth \in Nat /\ Nobody \notin Threads
  BY ConstantsAssumption DEF ConstantsAssumption
<1>0. transaction_count \in Nat /\ (transaction_count > 0 <=> \E q \in Threads : depth[q] > 0)
  BY CountPositive
<1> USE DEF IInv, EndAbort, Goto, statics, store, threads, history, AfterEnd, IsLastEnd, Rollback, CancelledChanges
<1>1. TypeOK'
  <2>1. transaction_count' \in Nat
    BY <1>0 DEF PcOK
  <2>2. depth' \in [Threads -> 0..MaxDepth]
    BY DEF TypeOK, PcOK
  <2>3. pc' \in [Threads -> PCs]
    BY DEF TypeOK, PCs
  <2> QED
    BY <2>1, <2>2, <2>3 DEF TypeOK, Ignored
<1>2. PcOK'
  BY DEF PcOK, TypeOK
<1>3. CountOK'
  <2>1. depth \in [Threads -> 0..MaxDepth] /\ IsFiniteSet(OpenOf(depth))
    BY DEF TypeOK, CountOK
  <2>2. depth[t] > 0
    BY DEF PcOK
  <2>3. depth' = [depth EXCEPT ![t] = @ - 1]
    OBVIOUS
  <2>4. /\ IsFiniteSet(OpenOf(depth'))
        /\ Cardinality(OpenOf(depth')) = Cardinality(OpenOf(depth)) - 1
    BY <2>1, <2>2, <2>3, OpenDown
  <2>5. transaction_count' = Cardinality(OpenOf(depth)) - 1
    BY DEF CountOK
  <2> QED
    BY <2>4, <2>5 DEF CountOK, OpenOf
<1>4. MutexOK'
  BY <1>0 DEF MutexOK, TypeOK
<1>5. LockOK'
  BY <1>0 DEF LockOK, MutexOK, TypeOK
<1>6. WorkOK'
  BY <1>0 DEF WorkOK, LockOK, MutexOK, TypeOK
<1> QED
  BY <1>1, <1>2, <1>3, <1>4, <1>5, <1>6

LEMMA EndLockKeeps ==
  ASSUME IInv, NEW t \in Threads, EndLock(t)
  PROVE  IInv'
<1> NTopics \in Nat /\ MaxDepth \in Nat /\ Nobody \notin Threads
  BY ConstantsAssumption DEF ConstantsAssumption
<1>0. transaction_count \in Nat /\ (transaction_count > 0 <=> \E q \in Threads : depth[q] > 0)
  BY CountPositive
<1> USE DEF IInv, EndLock, Goto, statics, store, threads, history, AfterEnd, IsLastEnd
<1>1. TypeOK'
  <2>1. transaction_count' \in Nat
    BY <1>0 DEF PcOK
  <2>2. depth' \in [Threads -> 0..MaxDepth]
    BY DEF TypeOK, PcOK
  <2>3. pc' \in [Threads -> PCs]
    BY DEF TypeOK, PCs
  <2> QED
    BY <2>1, <2>2, <2>3 DEF TypeOK
<1>2. PcOK'
  BY DEF PcOK, TypeOK
<1>3. CountOK'
  <2>1. depth \in [Threads -> 0..MaxDepth] /\ IsFiniteSet(OpenOf(depth))
    BY DEF TypeOK, CountOK
  <2>2. depth[t] > 0
    BY DEF PcOK
  <2>3. depth' = [depth EXCEPT ![t] = @ - 1]
    OBVIOUS
  <2>4. /\ IsFiniteSet(OpenOf(depth'))
        /\ Cardinality(OpenOf(depth')) = Cardinality(OpenOf(depth)) - 1
    BY <2>1, <2>2, <2>3, OpenDown
  <2>5. transaction_count' = Cardinality(OpenOf(depth)) - 1
    BY DEF CountOK
  <2> QED
    BY <2>4, <2>5 DEF CountOK, OpenOf
<1>4. MutexOK'
  BY <1>0 DEF MutexOK, TypeOK
<1>5. LockOK'
  BY <1>0 DEF LockOK, MutexOK, TypeOK
<1>6. WorkOK'
  BY <1>0 DEF WorkOK, LockOK, MutexOK, TypeOK
<1> QED
  BY <1>1, <1>2, <1>3, <1>4, <1>5, <1>6

LEMMA CommitKeeps ==
  ASSUME IInv, NEW t \in Threads, Commit(t)
  PROVE  IInv'
<1> NTopics \in Nat /\ MaxDepth \in Nat /\ Nobody \notin Threads
  BY ConstantsAssumption DEF ConstantsAssumption
<1>0. transaction_count \in Nat /\ (transaction_count > 0 <=> \E q \in Threads : depth[q] > 0)
  BY CountPositive
<1> USE DEF IInv, Commit, Goto, statics, store, threads, history
<1>1. TypeOK'
  <2>1. pc' \in [Threads -> PCs] /\ topic' \in [Threads -> 0..NTopics + 1]
    BY DEF TypeOK, PCs
  <2>2. ver' \in Int /\ failed' \subseteq Ignored
    BY DEF TypeOK, Ignored
  <2>3. owed' \subseteq Topics /\ dirty' \subseteq Topics
    BY DEF TypeOK
  <2> QED
    BY <2>1, <2>2, <2>3 DEF TypeOK
<1>2. PcOK'
  BY DEF PcOK, TypeOK
<1>3. CountOK'
  BY DEF CountOK
<1>4. MutexOK'
  BY <1>0 DEF MutexOK, TypeOK
<1>5. LockOK'
  BY <1>0 DEF LockOK, MutexOK, TypeOK
<1>6. WorkOK'
  BY <1>0 DEF WorkOK, LockOK, MutexOK, TypeOK
<1> QED
  BY <1>1, <1>2, <1>3, <1>4, <1>5, <1>6

LEMMA CommitRetryKeeps ==
  ASSUME IInv, NEW t \in Threads, CommitRetry(t)
  PROVE  IInv'
<1> NTopics \in Nat /\ MaxDepth \in Nat /\ Nobody \notin Threads
  BY ConstantsAssumption DEF ConstantsAssumption
<1> USE DEF IInv, CommitRetry, Goto, statics, store, threads, history, NextDelay
<1>1. TypeOK'
  BY DEF TypeOK, PCs, Topics
<1>2. PcOK'
  BY DEF PcOK, TypeOK
<1>3. CountOK'
  BY DEF CountOK
<1>4. MutexOK'
  BY DEF MutexOK, TypeOK
<1>5. LockOK'
  BY DEF LockOK, MutexOK, TypeOK
<1>6. WorkOK'
  BY DEF WorkOK, LockOK, MutexOK, TypeOK
<1> QED
  BY <1>1, <1>2, <1>3, <1>4, <1>5, <1>6

LEMMA CommitFailKeeps ==
  ASSUME IInv, NEW t \in Threads, CommitFail(t)
  PROVE  IInv'
<1> NTopics \in Nat /\ MaxDepth \in Nat /\ Nobody \notin Threads
  BY ConstantsAssumption DEF ConstantsAssumption
<1>0. transaction_count \in Nat /\ (transaction_count > 0 <=> \E q \in Threads : depth[q] > 0)
  BY CountPositive
<1> USE DEF IInv, CommitFail, Goto, statics, store, threads, history, Rollback, CancelledChanges
<1>1. TypeOK'
  BY <1>0 DEF TypeOK, PCs, Topics, Ignored
<1>2. PcOK'
  BY DEF PcOK, TypeOK
<1>3. CountOK'
  BY DEF CountOK
<1>4. MutexOK'
  BY <1>0 DEF MutexOK, TypeOK
<1>5. LockOK'
  BY <1>0 DEF LockOK, MutexOK, TypeOK
<1>6. WorkOK'
  BY <1>0 DEF WorkOK, LockOK, MutexOK, TypeOK
<1> QED
  BY <1>1, <1>2, <1>3, <1>4, <1>5, <1>6

LEMMA PublishTopicKeeps ==
  ASSUME IInv, NEW t \in Threads, PublishTopic(t)
  PROVE  IInv'
<1> NTopics \in Nat /\ MaxDepth \in Nat /\ Nobody \notin Threads
  BY ConstantsAssumption DEF ConstantsAssumption
<1> USE DEF IInv, PublishTopic, Goto, statics, store, threads, history
<1>1. TypeOK'
  BY DEF TypeOK, PCs, Topics
<1>2. PcOK'
  BY DEF PcOK, TypeOK
<1>3. CountOK'
  BY DEF CountOK
<1>4. MutexOK'
  BY DEF MutexOK, TypeOK
<1>5. LockOK'
  BY DEF LockOK, MutexOK, TypeOK
<1>6. WorkOK'
  BY DEF WorkOK, LockOK, MutexOK, TypeOK
<1> QED
  BY <1>1, <1>2, <1>3, <1>4, <1>5, <1>6

LEMMA ClearTopicKeeps ==
  ASSUME IInv, NEW t \in Threads, ClearTopic(t)
  PROVE  IInv'
<1> NTopics \in Nat /\ MaxDepth \in Nat /\ Nobody \notin Threads
  BY ConstantsAssumption DEF ConstantsAssumption
<1> USE DEF IInv, ClearTopic, Goto, statics, store, threads, history, FlagsWithout
<1>1. TypeOK'
  <2>1. pc' \in [Threads -> PCs]
    BY DEF TypeOK, PCs
  <2>2. topic' \in [Threads -> 0..NTopics + 1]
    <3>1. topic[t] \in 1..NTopics
      BY DEF PcOK, Topics
    <3> QED
      BY <3>1 DEF TypeOK
  <2> QED
    BY <2>1, <2>2 DEF TypeOK
<1>2. PcOK'
  BY DEF PcOK, TypeOK
<1>3. CountOK'
  BY DEF CountOK
<1>4. MutexOK'
  BY DEF MutexOK, TypeOK
<1>5. LockOK'
  BY DEF LockOK, MutexOK, TypeOK
<1>6. WorkOK'
  BY DEF WorkOK, LockOK, MutexOK, TypeOK
<1> QED
  BY <1>1, <1>2, <1>3, <1>4, <1>5, <1>6

LEMMA SkipTopicKeeps ==
  ASSUME IInv, NEW t \in Threads, SkipTopic(t)
  PROVE  IInv'
<1> NTopics \in Nat /\ MaxDepth \in Nat /\ Nobody \notin Threads
  BY ConstantsAssumption DEF ConstantsAssumption
<1> USE DEF IInv, SkipTopic, Goto, statics, store, threads, history
<1>1. TypeOK'
  BY DEF TypeOK, PCs, Topics
<1>2. PcOK'
  BY DEF PcOK, TypeOK
<1>3. CountOK'
  BY DEF CountOK
<1>4. MutexOK'
  BY DEF MutexOK, TypeOK
<1>5. LockOK'
  BY DEF LockOK, MutexOK, TypeOK
<1>6. WorkOK'
  BY DEF WorkOK, LockOK, MutexOK, TypeOK
<1> QED
  BY <1>1, <1>2, <1>3, <1>4, <1>5, <1>6

LEMMA EndReturnKeeps ==
  ASSUME IInv, NEW t \in Threads, EndReturn(t)
  PROVE  IInv'
<1> NTopics \in Nat /\ MaxDepth \in Nat /\ Nobody \notin Threads
  BY ConstantsAssumption DEF ConstantsAssumption
<1> USE DEF IInv, EndReturn, Goto, statics, store, threads, history
<1>1. TypeOK'
  BY DEF TypeOK, PCs, Topics
<1>2. PcOK'
  BY DEF PcOK, TypeOK
<1>3. CountOK'
  BY DEF CountOK
<1>4. MutexOK'
  BY DEF MutexOK, TypeOK
<1>5. LockOK'
  BY DEF LockOK, MutexOK, TypeOK
<1>6. WorkOK'
  BY DEF WorkOK, LockOK, MutexOK, TypeOK
<1> QED
  BY <1>1, <1>2, <1>3, <1>4, <1>5, <1>6

LEMMA OtherBeginKeeps ==
  ASSUME IInv, OtherBegin
  PROVE  IInv'
<1> USE DEF IInv, OtherBegin, statics, threads
<1>1. TypeOK'
  BY DEF TypeOK
<1>2. PcOK' /\ CountOK' /\ MutexOK'
  BY DEF PcOK, CountOK, MutexOK
<1>3. LockOK' /\ WorkOK'
  BY DEF LockOK, WorkOK
<1> QED
  BY <1>1, <1>2, <1>3

LEMMA OtherEndKeeps ==
  ASSUME IInv, NEW commits \in BOOLEAN, OtherEnd(commits)
  PROVE  IInv'
<1> USE DEF IInv, OtherEnd, statics, threads
<1>1. TypeOK'
  <2>1. ver' \in Int /\ nextId' \in Nat
    BY DEF TypeOK
  <2>2. rows' \subseteq Row
    BY DEF TypeOK, Row
  <2> QED
    BY <2>1, <2>2 DEF TypeOK
<1>2. PcOK' /\ CountOK' /\ MutexOK'
  BY DEF PcOK, CountOK, MutexOK
<1>3. LockOK' /\ WorkOK'
  BY DEF LockOK, WorkOK
<1> QED
  BY <1>1, <1>2, <1>3

LEMMA CrashKeeps ==
  ASSUME IInv, Crash
  PROVE  IInv'
<1> NTopics \in Nat /\ MaxDepth \in Nat
  BY ConstantsAssumption DEF ConstantsAssumption
<1> USE DEF IInv, Crash
<1>1. TypeOK'
  <2>1. pc' \in [Threads -> PCs]
    BY DEF PCs
  <2>2. depth' \in [Threads -> 0..MaxDepth] /\ topic' \in [Threads -> 0..NTopics + 1]
    OBVIOUS
  <2>3. transaction_ver' \in Int /\ transaction_count' \in Nat /\ progress' \in Nat
    OBVIOUS
  <2>4. changes' \subseteq Topics /\ work' \subseteq Row /\ failed' \subseteq Ignored
    OBVIOUS
  <2>5. dirty' \subseteq Topics
    OBVIOUS
  <2> QED
    BY <2>1, <2>2, <2>3, <2>4, <2>5 DEF TypeOK
<1>2. CountOK'
  <2>1. OpenOf(depth') = {}
    BY DEF OpenOf
  <2> QED
    BY <2>1, FS_EmptySet DEF CountOK, OpenOf
<1>3. PcOK' /\ MutexOK' /\ LockOK' /\ WorkOK'
  BY DEF PcOK, MutexOK, LockOK, WorkOK, TypeOK
<1> QED
  BY <1>1, <1>2, <1>3

LEMMA StutterKeeps ==
  ASSUME IInv, UNCHANGED vars
  PROVE  IInv'
BY DEF IInv, vars, statics, threads, store, history, TypeOK, PcOK, CountOK,
       MutexOK, LockOK, WorkOK, OpenOf

LEMMA NextKeeps ==
  ASSUME IInv, [Next]_vars
  PROVE  IInv'
<1>1. ASSUME NEW t \in Threads, Call(t)
      PROVE  IInv'
  BY <1>1, CallBeginKeeps, WriteKeeps, SetNotiKeeps, CallEndKeeps DEF Call
<1>2. ASSUME NEW t \in Threads, BeginStep(t)
      PROVE  IInv'
  BY <1>2, BeginJoinKeeps, BeginLockKeeps, BeginExecKeeps, BeginRetryKeeps,
     BeginFailKeeps DEF BeginStep
<1>3. ASSUME NEW t \in Threads, EndStep(t)
      PROVE  IInv'
  BY <1>3, EndInnerKeeps, EndAbortKeeps, EndLockKeeps, CommitKeeps,
     CommitRetryKeeps, CommitFailKeeps, PublishTopicKeeps, ClearTopicKeeps,
     SkipTopicKeeps, EndReturnKeeps DEF EndStep
<1>4. CASE Other
  BY <1>4, OtherBeginKeeps, OtherEndKeeps DEF Other
<1>5. CASE Crash
  BY <1>5, CrashKeeps
<1>6. CASE UNCHANGED vars
  BY <1>6, StutterKeeps
<1> QED
  BY <1>1, <1>2, <1>3, <1>4, <1>5, <1>6 DEF Next

-----------------------------------------------------------------------------
(* The theorems. *)

\* IInv holds in every reachable state.
THEOREM Invariant == Spec => []IInv
<1>1. IInv /\ [Next]_vars => IInv'
  BY NextKeeps
<1> QED
  BY <1>1, InitIInv, PTL DEF Spec

\* Every variable keeps its type (the handlers never take the counter below
\* zero, never set a flag or test one that does not exist).
THEOREM TypeCorrect == Spec => []TypeOK
<1>1. IInv => TypeOK
  BY DEF IInv
<1> QED
  BY <1>1, Invariant, PTL

\* transaction_count counts the open calls of all threads.
THEOREM CountCorrect == Spec => []CountIsOpenCalls
<1>1. IInv => CountIsOpenCalls
  BY DEF IInv, CountOK, CountIsOpenCalls, Open
<1> QED
  BY <1>1, Invariant, PTL

\* No statement of a thread inside a transaction runs in autocommit mode.
THEOREM AlwaysInside == Spec => []InsideTransaction
<1>1. IInv => InsideTransaction
  BY CountPositive DEF IInv, LockOK, InsideTransaction
<1> QED
  BY <1>1, Invariant, PTL

\* The write lock is never left behind, but by a ROLLBACK that failed.
THEOREM LockNeverStranded == Spec => []NoStrandedLock
<1>1. IInv => NoStrandedLock
  BY CountPositive DEF IInv, LockOK, NoStrandedLock
<1> QED
  BY <1>1, Invariant, PTL

\* Every step is, for a reader of the database, a batch of CtsAtomicStore or
\* nothing, whatever statement fails: a commit adds the rows of one
\* transaction, all stamped with the version it creates when the statements
\* that read and write the version succeeded.
THEOREM CommitsAreAtomic == Spec => AtomicCommits
<1> DEFINE sound == failed \cap {"version", "update"} = {}
<1>1. Init => Abstract!AInit
  BY DEF Init, Abstract!AInit
<1>2. ASSUME IInv, [Next]_vars
      PROVE  [Abstract!Publish]_<<rows, ver, sound>>
  <2>0. ASSUME UNCHANGED <<rows, ver>>
        PROVE  Abstract!Publish
    BY <2>0 DEF Abstract!Publish, Abstract!Fresh
  <2>1. ASSUME NEW t \in Threads, Call(t)
        PROVE  UNCHANGED <<rows, ver>>
    BY <2>1 DEF Call, CallBegin, Write, SetNoti, CallEnd, store
  <2>2. ASSUME NEW t \in Threads, BeginStep(t)
        PROVE  UNCHANGED <<rows, ver>>
    BY <2>2 DEF BeginStep, BeginJoin, BeginLock, BeginExec, BeginRetry, BeginFail, store
  <2>3. ASSUME NEW t \in Threads, EndStep(t), ~Commit(t)
        PROVE  UNCHANGED <<rows, ver>>
    BY <2>3 DEF EndStep, EndInner, EndAbort, EndLock, CommitRetry, CommitFail,
       PublishTopic, ClearTopic, SkipTopic, EndReturn, store
  <2>4. ASSUME NEW t \in Threads, Commit(t)
        PROVE  Abstract!Publish
    <3>1. lock = "self" /\ transaction_count = 0 /\ "rollback" \notin failed
      BY <1>2, <2>4 DEF IInv, LockOK, MutexOK, Commit
    <3>2. rows \subseteq rows'
      BY <1>2, <2>4, <3>1 DEF IInv, WorkOK, Commit
    <3>3. ASSUME sound'
          PROVE  Abstract!Fresh
      <4>1. ver' = (IF version_up THEN transaction_ver ELSE ver) /\ failed' = failed
        BY <2>4, <3>3 DEF Commit
      <4>2. failed = {}
        BY <1>2, <3>1, <3>3, <4>1 DEF IInv, TypeOK, Ignored
      <4>3. /\ \A r \in work \ rows : r.ver # Unversioned => r.ver = ver + 1 /\ version_up
            /\ version_up => transaction_ver = ver + 1
        BY <1>2, <3>1, <4>2 DEF IInv, WorkOK
      <4>4. rows' = work
        BY <2>4 DEF Commit
      <4> QED
        BY <4>1, <4>3, <4>4 DEF Abstract!Fresh
    <3> QED
      BY <3>2, <3>3 DEF Abstract!Publish
  <2>5. ASSUME Other
        PROVE  Abstract!Publish
    <3>1. CASE OtherBegin
      BY <2>0, <3>1 DEF OtherBegin
    <3>2. ASSUME NEW commits \in BOOLEAN, OtherEnd(commits)
          PROVE  Abstract!Publish
      BY <3>2 DEF OtherEnd, Abstract!Publish, Abstract!Fresh
    <3> QED
      BY <2>5, <3>1, <3>2 DEF Other
  <2>6. ASSUME Crash
        PROVE  UNCHANGED <<rows, ver>>
    BY <2>6 DEF Crash
  <2>7. ASSUME UNCHANGED vars
        PROVE  UNCHANGED <<rows, ver>>
    BY <2>7 DEF vars, store
  <2> QED
    BY <1>2, <2>0, <2>1, <2>2, <2>3, <2>4, <2>5, <2>6, <2>7 DEF Next
<1> QED
  BY <1>1, <1>2, Invariant, PTL DEF Spec, AtomicCommits, Abstract!ASpec, Abstract!avars

-----------------------------------------------------------------------------
(* A process with one thread: the flags and the returned version.  With two *)
(* threads the properties below fail, as the flags and the version are      *)
(* read after the mutex is released.                                        *)

Publishing(u) == pc[u] \in {"publish", "clear"}

\* The flag that is about to be set, and the one that is about to be cleared.
SetNext(u) == {k \in {topic[u]} : pc[u] = "noti"}
ClearNext(u) == {k \in {topic[u]} : pc[u] = "clear"}

\* The flags are the changes of the open transaction and the committed changes
\* that are not announced; those are only there while the thread announces
\* them, in order.
FlagsOK(u) ==
  /\ dirty \subseteq changes \cup SetNext(u) /\ SetNext(u) \subseteq dirty
  /\ changes \subseteq dirty \cup owed \cup ClearNext(u)
  /\ owed \subseteq changes \ ClearNext(u)
  /\ ~Publishing(u) => owed = {}
  /\ Publishing(u) => dirty = {} /\ \A k \in owed : k >= topic[u]
  /\ lock # "self" => dirty = {}

LEMMA FlagsKept ==
  ASSUME NEW u, Threads = {u}, {"crash", "noti"} \cap Faults = {},
         IInv, FlagsOK(u), [Next]_vars
  PROVE  FlagsOK(u)'
<1> NTopics \in Nat
  BY ConstantsAssumption DEF ConstantsAssumption
<1> USE DEF FlagsOK, Publishing, SetNext, ClearNext, Goto
<1>1. /\ DOMAIN pc = {u} /\ pc = [t \in {u} |-> pc[t]]
      /\ DOMAIN topic = {u} /\ topic = [t \in {u} |-> topic[t]]
      /\ topic[u] \in Int /\ owed \subseteq 1..NTopics
  BY DEF IInv, TypeOK, Topics
<1>2. CASE Call(u)
  <2>1. CASE CallBegin(u)
    BY <1>1, <2>1 DEF CallBegin, statics, store
  <2>2. ASSUME NEW k \in Topics, NEW versioned \in BOOLEAN, Write(u, k, versioned)
        PROVE  FlagsOK(u)'
    <3>1. lock = "self"
      BY <2>2, CountPositive DEF IInv, LockOK, Write
    <3> QED
      BY <1>1, <2>2, <3>1 DEF Write
  <2>3. CASE SetNoti(u)
    BY <1>1, <2>3 DEF SetNoti, store
  <2>4. ASSUME NEW is_success \in BOOLEAN, CallEnd(u, is_success)
        PROVE  FlagsOK(u)'
    BY <1>1, <2>4 DEF CallEnd, statics, store
  <2> QED
    BY <1>2, <2>1, <2>2, <2>3, <2>4 DEF Call
<1>3. CASE BeginStep(u)
  <2>1. CASE BeginJoin(u)
    BY <1>1, <2>1 DEF BeginJoin, store
  <2>2. CASE BeginLock(u)
    BY <1>1, <2>2 DEF BeginLock, statics, store
  <2>3. CASE BeginExec(u)
    BY <1>1, <2>3 DEF BeginExec
  <2>4. CASE BeginRetry(u)
    BY <1>1, <2>4 DEF BeginRetry, statics, threads, store
  <2>5. CASE BeginFail(u)
    BY <1>1, <2>5 DEF BeginFail, statics, store
  <2> QED
    BY <1>3, <2>1, <2>2, <2>3, <2>4, <2>5 DEF BeginStep
<1>4. CASE EndStep(u)
  <2>1. CASE EndInner(u)
    BY <1>1, <2>1 DEF EndInner, store
  <2>2. CASE EndAbort(u)
    BY <1>1, <2>2 DEF EndAbort, Rollback, CancelledChanges
  <2>3. CASE EndLock(u)
    BY <1>1, <2>3 DEF EndLock, store
  <2>4. CASE Commit(u)
    BY <1>1, <2>4 DEF Commit, statics, IInv, TypeOK, Topics
  <2>5. CASE CommitRetry(u)
    BY <1>1, <2>5 DEF CommitRetry, statics, threads, store
  <2>6. CASE CommitFail(u)
    BY <1>1, <2>6 DEF CommitFail, Rollback, CancelledChanges
  <2>7. CASE PublishTopic(u)
    BY <1>1, <2>7 DEF PublishTopic, statics, store
  <2>8. CASE ClearTopic(u)
    BY <1>1, <2>8 DEF ClearTopic, FlagsWithout, store
  <2>9. CASE SkipTopic(u)
    BY <1>1, <2>9 DEF SkipTopic, statics, store
  <2>10. CASE EndReturn(u)
    BY <1>1, <2>10 DEF EndReturn, statics, store
  <2> QED
    BY <1>4, <2>1, <2>2, <2>3, <2>4, <2>5, <2>6, <2>7, <2>8, <2>9, <2>10 DEF EndStep
<1>5. CASE Other
  <2>1. CASE OtherBegin
    BY <2>1 DEF OtherBegin, statics, threads
  <2>2. ASSUME NEW commits \in BOOLEAN, OtherEnd(commits)
        PROVE  FlagsOK(u)'
    BY <2>2 DEF OtherEnd, statics, threads
  <2> QED
    BY <1>5, <2>1, <2>2 DEF Other
<1>6. ~Crash
  BY DEF Crash
<1>7. CASE UNCHANGED vars
  BY <1>7 DEF vars, statics, threads, store, history
<1> QED
  BY <1>2, <1>3, <1>4, <1>5, <1>6, <1>7 DEF Next

LEMMA FlagsAlways ==
  ASSUME NEW u, Threads = {u}, {"crash", "noti"} \cap Faults = {}
  PROVE  Spec => [](IInv /\ FlagsOK(u))
<1>1. Init => FlagsOK(u)
  BY DEF Init, FlagsOK, Publishing, SetNext, ClearNext
<1>2. IInv /\ FlagsOK(u) /\ [Next]_vars => FlagsOK(u)'
  BY FlagsKept
<1> QED
  BY <1>1, <1>2, Invariant, PTL DEF Spec

\* In a process with one thread, whose files can be opened and which does not
\* die, the flag of a committed change stays set until it is announced
\* (end_trans, cts_noti_publish_*).
THEOREM AloneNotificationsKept ==
  ASSUME NEW u, Threads = {u}, {"crash", "noti"} \cap Faults = {}
  PROVE  Spec => []NotificationsKept
<1>1. FlagsOK(u) => NotificationsKept
  BY DEF FlagsOK, NotificationsKept
<1> QED
  BY <1>1, FlagsAlways, PTL

\* ... and it announces nothing that is not committed.
THEOREM AloneAnnouncesCommitted ==
  ASSUME NEW u, Threads = {u}, {"crash", "noti"} \cap Faults = {}
  PROVE  Spec => AnnouncedIsCommitted
<1>1. ASSUME IInv, FlagsOK(u), Next, NEW t \in Threads, pc[t] = "publish", pc'[t] = "clear"
      PROVE  topic[t] \in owed
  <2>1. t = u /\ pc[u] = "publish" /\ pc'[u] = "clear" /\ DOMAIN pc = {u}
    BY <1>1 DEF IInv, TypeOK
  <2>2. changes \subseteq owed
    BY <1>1, <2>1 DEF FlagsOK, Publishing, ClearNext
  <2>3. ~Call(u) /\ ~BeginStep(u) /\ ~Other /\ ~Crash
    BY <2>1 DEF Call, CallBegin, Write, SetNoti, CallEnd, BeginStep, BeginJoin, BeginLock,
       BeginExec, BeginRetry, BeginFail, Other, OtherBegin, OtherEnd, Crash, threads, Goto
  <2>4. EndStep(u)
    BY <1>1, <2>3 DEF Next
  <2>5. PublishTopic(u)
    BY <2>1, <2>4 DEF EndStep, EndInner, EndAbort, EndLock, Commit, CommitRetry, CommitFail,
       ClearTopic, SkipTopic, EndReturn, threads, Goto
  <2> QED
    BY <2>1, <2>2, <2>5 DEF PublishTopic
<1>2. IInv /\ FlagsOK(u) /\ [Next]_vars =>
        [\A t \in Threads : pc[t] = "publish" /\ pc'[t] = "clear" => topic[t] \in owed]_vars
  BY <1>1
<1> QED
  BY <1>2, FlagsAlways, PTL DEF Spec, AnnouncedIsCommitted

\* The versions that were returned are not newer than the committed one, and
\* the one that will be returned is not either.
ReturnedOK(u) ==
  /\ synced <= ver
  /\ Publishing(u) => transaction_ver <= ver

Versioned == failed \subseteq {"rollback"}

LEMMA ReturnedKept ==
  ASSUME NEW u, Threads = {u}, {"version", "update"} \cap Faults = {},
         IInv, ReturnedOK(u), Versioned, [Next]_vars
  PROVE  /\ ReturnedOK(u)'
         /\ Versioned'
         /\ \A r \in rows' \ rows : r.ver # Unversioned => r.ver > synced
<1> USE DEF ReturnedOK, Publishing, Goto
<1>1. /\ DOMAIN pc = {u} /\ pc = [t \in {u} |-> pc[t]]
      /\ synced \in Nat /\ ver \in Int /\ transaction_ver \in Int
  BY DEF IInv, TypeOK
<1>0. Versioned'
  BY DEF Versioned, Next, Call, CallBegin, Write, SetNoti, CallEnd, BeginStep, BeginJoin,
     BeginLock, BeginExec, BeginRetry, BeginFail, EndStep, EndInner, EndAbort, EndLock,
     Commit, CommitRetry, CommitFail, Rollback, PublishTopic, ClearTopic, SkipTopic,
     EndReturn, Other, OtherBegin, OtherEnd, Crash, vars, store
<1> SUFFICES /\ ReturnedOK(u)'
             /\ \A r \in rows' \ rows : r.ver # Unversioned => r.ver > synced
  BY <1>0
<1>2. CASE Call(u)
  BY <1>1, <1>2 DEF Call, CallBegin, Write, SetNoti, CallEnd, statics, store
<1>3. CASE BeginStep(u)
  BY <1>1, <1>3 DEF BeginStep, BeginJoin, BeginLock, BeginExec, BeginRetry, BeginFail,
     statics, threads, store
<1>4. CASE Commit(u)
  <2>1. lock = "self" /\ transaction_count = 0 /\ failed = {}
    BY <1>4 DEF IInv, LockOK, MutexOK, Commit, Versioned
  <2>2. /\ \A r \in work \ rows : r.ver # Unversioned => r.ver = ver + 1
        /\ transaction_ver = IF version_up THEN ver + 1 ELSE ver
    BY <2>1 DEF IInv, WorkOK
  <2>3. rows' = work /\ ver' = transaction_ver /\ UNCHANGED <<transaction_ver, synced>>
    BY <1>4, <2>2 DEF Commit, statics
  <2> QED
    BY <1>1, <2>2, <2>3
<1>5. CASE EndStep(u) /\ ~Commit(u)
  BY <1>1, <1>5 DEF EndStep, EndInner, EndAbort, EndLock, CommitRetry, CommitFail, Rollback,
     PublishTopic, ClearTopic, SkipTopic, EndReturn, statics, threads, store
<1>6. CASE Other
  <2>1. CASE OtherBegin
    BY <2>1 DEF OtherBegin, statics, threads
  <2>2. ASSUME NEW commits \in BOOLEAN, OtherEnd(commits)
        PROVE  /\ ReturnedOK(u)'
               /\ \A r \in rows' \ rows : r.ver # Unversioned => r.ver > synced
    BY <1>1, <2>2 DEF OtherEnd, statics, threads
  <2> QED
    BY <1>6, <2>1, <2>2 DEF Other
<1>7. CASE Crash
  BY <1>1, <1>7 DEF Crash
<1>8. CASE UNCHANGED vars
  BY <1>8 DEF vars, statics, threads, store, history
<1> QED
  BY <1>2, <1>3, <1>4, <1>5, <1>6, <1>7, <1>8 DEF Next

\* In a process with one thread, whatever fails but the SELECT and the UPDATE
\* of the version and whatever other processes commit: a program that asks for
\* the changes since the version end_trans returned misses none.
THEOREM AloneSyncNeverMisses ==
  ASSUME NEW u, Threads = {u}, {"version", "update"} \cap Faults = {}
  PROVE  Spec => SyncNeverMisses
<1>1. Init => ReturnedOK(u) /\ Versioned
  BY DEF Init, ReturnedOK, Publishing, Versioned
<1>2. IInv /\ ReturnedOK(u) /\ Versioned /\ [Next]_vars => (ReturnedOK(u) /\ Versioned)'
  BY ReturnedKept
<1>3. IInv /\ ReturnedOK(u) /\ Versioned /\ [Next]_vars =>
        [\A r \in rows' \ rows : r.ver # Unversioned => r.ver > synced]_vars
  BY ReturnedKept
<1> QED
  BY <1>1, <1>2, <1>3, Invariant, PTL DEF Spec, SyncNeverMisses
=============================================================================
