-------------------------- MODULE CtsHelperProofs ---------------------------
(***************************************************************************)
(* The helper daemon and the requests to it.  First the SIM operations,    *)
(* for any processes, threads and cards: one runs at a time, its TAPI      *)
(* calls are counted, and an import is one transaction.  Then the          *)
(* requests: each is answered once, and every reply is of one.             *)
(***************************************************************************)
EXTENDS CtsHelperProps, FiniteSetTheorems, SequenceTheorems, TLAPS

\* The service numbers are not read, and the SIM is ready.  Else a second chain
\* of TAPI calls runs beside the operation's own, or a process waits for none.
Quiet == \A s \in Scenarios : s.faults \cap {"sdn", "not_ready", "card_busy"} = {}

-----------------------------------------------------------------------------
(* The inductive invariant. *)

Free == sim = [data |-> None, count |-> 0, pending |-> {}]

\* One operation runs, and has asked TAPI for one thing.
Busy(op, i) ==
  /\ sim = [data |-> sim.data, count |-> 1, pending |-> {Call(op, env.card, i)}]
  /\ sim.data # None

Others == {"count", "meta", "avail", "find", "update"}
NoImport == loop # "begin" /\ lock # Helper

\* The import waits for record i: before its transaction, or with the records
\* before i in it, but for those whose insertion failed.
Importing(i) ==
  /\ i \in 1..env.used
  /\ \/ loop = "begin" /\ lock # Helper /\ i = 1
     \/ loop # "begin" /\ lock = Helper /\ unstored \cup refused = 1..(i - 1)

SimInv ==
  \/ Free /\ NoImport
  \/ \E op \in Others, i \in Nat : Busy(op, i) /\ NoImport
  \/ \E i \in Nat : Busy("read", i) /\ Importing(i)

\* A thread that inserts has the write lock.
Inserting(t) == pc[t] \in {"inserting", "saving"} \/ (pc[t] = "waiting" /\ req[t] = "name")
LockInv == \A t \in Threads : Inserting(t) => lock = t

Typed ==
  /\ env \in Scenarios
  /\ DOMAIN pc = Threads /\ pc = [t \in Threads |-> pc[t]]
  /\ DOMAIN req = Threads /\ req = [t \in Threads |-> req[t]]
  /\ refused \subseteq 1..env.used /\ stored \subseteq 1..env.used

IInv == Typed /\ LockInv /\ SimInv

\* What ImportIsAtomic says of one step.
Atomic == stored' # stored => stored' \cup refused' = 1..env.used

-----------------------------------------------------------------------------
(* Steps that leave the SIM and the lock alone. *)

LEMMA SimKept ==
  ASSUME SimInv, UNCHANGED <<env, sim, loop, unstored, refused>>,
         lock' = lock \/ (lock # Helper /\ lock' # Helper)
  PROVE  SimInv'
<1>1. CASE Free /\ NoImport
  BY <1>1 DEF Free, NoImport, SimInv
<1>2. ASSUME NEW op \in Others, NEW i \in Nat, Busy(op, i), NoImport
      PROVE  SimInv'
  BY <1>2 DEF Busy, NoImport, SimInv
<1>3. ASSUME NEW i \in Nat, Busy("read", i), Importing(i)
      PROVE  SimInv'
  <2>1. Busy("read", i)'
    BY <1>3 DEF Busy
  <2>2. Importing(i)'
    BY <1>3 DEF Importing
  <2> QED
    BY <2>1, <2>2 DEF SimInv
<1> QED
  BY <1>1, <1>2, <1>3 DEF SimInv

LEMMA CallerKeeps ==
  ASSUME IInv, NEW t \in Threads, Caller(t)
  PROVE  IInv' /\ Atomic
<1> USE ConstantsAssumption DEF ConstantsAssumption
<1>1. /\ UNCHANGED <<env, sim, loop, records>>
      /\ pc' = [pc EXCEPT ![t] = pc'[t]] /\ req' = [req EXCEPT ![t] = req'[t]]
      /\ \/ lock' = lock /\ (Inserting(t)' => Inserting(t))
         \/ lock = None /\ lock' = t
         \/ Inserting(t) /\ lock' = None /\ ~Inserting(t)'
  <2> USE DEF IInv, Typed, Inserting
  <2>1. CASE ImportSim(t) \/ ExportSim(t) \/ NormalizeStr(t)
    BY <2>1 DEF ImportSim, ExportSim, NormalizeStr, Ask, MayCall, base, records
  <2>2. CASE StartInsert(t)
    BY <2>2 DEF StartInsert
  <2>3. CASE NormalizeName(t)
    BY <2>3 DEF NormalizeName, Ask, base, records
  <2>4. CASE NormalizeNoName(t)
    BY <2>4 DEF NormalizeNoName, base, records
  <2>5. CASE Receive(t)
    BY <2>5 DEF Receive, base, records
  <2>6. CASE EndInsert(t)
    BY <2>6 DEF EndInsert
  <2> QED
    BY <2>1, <2>2, <2>3, <2>4, <2>5, <2>6 DEF Caller
<1>2. Typed' /\ Atomic
  BY <1>1 DEF IInv, Typed, Atomic, records
<1>3. \A u \in Threads \ {t} : Inserting(u)' <=> Inserting(u)
  BY <1>1 DEF IInv, Typed, Inserting
<1>4. LockInv'
  BY <1>1, <1>3 DEF IInv, LockInv
<1>5. SimInv'
  BY <1>1, SimKept DEF IInv, LockInv, records
<1> QED
  BY <1>2, <1>4, <1>5 DEF IInv

-----------------------------------------------------------------------------
(* What TAPI's answers find, and what the helper makes of them. *)

LEMMA Waiting ==
  ASSUME SimInv, NEW op, NEW call \in Answers(op)
  PROVE  /\ loop = "idle"
         /\ \E i \in Nat : /\ call = Call(op, env.card, i) /\ Busy(op, i)
                           /\ op \in Others => NoImport
                           /\ op = "read" => Importing(i)
<1>1. call \in sim.pending /\ loop = "idle" /\ call.op = op
  BY DEF Answers
<1>2. ~Free
  BY <1>1 DEF Free
<1>3. ASSUME NEW o \in Others, NEW i \in Nat, Busy(o, i), NoImport
      PROVE  call = Call(op, env.card, i) /\ Busy(op, i) /\ op # "read"
  <2>1. call = Call(o, env.card, i)
    BY <1>1, <1>3 DEF Busy
  <2>2. o = op
    BY <1>1, <2>1 DEF Call
  <2> QED
    BY <1>3, <2>1, <2>2 DEF Others
<1>4. ASSUME NEW i \in Nat, Busy("read", i), Importing(i)
      PROVE  call = Call(op, env.card, i) /\ Busy(op, i) /\ op \notin Others
  <2>1. call = Call("read", env.card, i)
    BY <1>1, <1>4 DEF Busy
  <2>2. "read" = op
    BY <1>1, <2>1 DEF Call
  <2> QED
    BY <1>4, <2>1, <2>2 DEF Others
<1> QED
  BY <1>1, <1>2, <1>3, <1>4 DEF SimInv

LEMMA SimAnswered ==
  ASSUME NEW op, NEW i, Busy(op, i)
  PROVE  /\ Answered(sim, Call(op, env.card, i)) = [data |-> sim.data, count |-> 1, pending |-> {}]
         /\ sim.data # None
<1>1. \A d, call : Answered([data |-> d, count |-> 1, pending |-> {call}], call)
                    = [data |-> d, count |-> 1, pending |-> {}]
  BY DEF Answered
<1>2. Answered(sim, Call(op, env.card, i))
        = Answered([data |-> sim.data, count |-> 1, pending |-> {Call(op, env.card, i)}],
                   Call(op, env.card, i))
  BY DEF Busy
<1> QED
  BY <1>1, <1>2 DEF Busy

LEMMA LastDeregisters ==
  \A p : Deregister([data |-> None, count |-> 1, pending |-> p])
           = [data |-> None, count |-> 0, pending |-> {}]
<1> TAKE p
<1> DEFINE s == [data |-> None, count |-> 1, pending |-> p]
<1>1. s.count = 1
  OBVIOUS
<1>2. Deregister(s) = [s EXCEPT !.count = 0, !.pending = {}]
  BY <1>1 DEF Deregister
<1>3. [s EXCEPT !.count = 0, !.pending = {}] = [[s EXCEPT !.count = 0] EXCEPT !.pending = {}]
  OBVIOUS
<1>4. [s EXCEPT !.count = 0] = [data |-> None, count |-> 0, pending |-> p]
  OBVIOUS
<1>5. [[data |-> None, count |-> 0, pending |-> p] EXCEPT !.pending = {}]
        = [data |-> None, count |-> 0, pending |-> {}]
  OBVIOUS
<1> QED
  BY <1>2, <1>3, <1>4, <1>5

LEMMA FinishFrees ==
  ASSUME NEW pending, NEW val,
         Finish([data |-> sim.data, count |-> 1, pending |-> pending], val)
  PROVE  Free'
<1> DEFINE last == [data |-> None, count |-> 1, pending |-> pending]
<1>1. sim' = Deregister(last)
  BY DEF Finish
<1>2. Deregister(last) = [data |-> None, count |-> 0, pending |-> {}]
  BY LastDeregisters
<1> QED
  BY <1>1, <1>2 DEF Free

LEMMA NextCall ==
  ASSUME NEW op, NEW i, sim.data # None, env' = env,
         sim' = Post([data |-> sim.data, count |-> 1, pending |-> {}], Call(op, env.card, i))
  PROVE  Busy(op, i)'
  BY DEF Post, Busy

\* An operation is begun when none runs.
LEMMA StartKeeps ==
  ASSUME SimInv, NEW p \in Procs, NEW op \in {"count", "meta"}, NEW first,
         first = Call(op, env.card, 0),
         StartSim(p, first), UNCHANGED <<env, lock, unstored, refused, loop>>
  PROVE  SimInv'
<1> USE ConstantsAssumption DEF ConstantsAssumption
<1>1. CASE sim.data # None
  BY <1>1, SimKept DEF StartSim
<1>2. CASE sim.data = None
  <2>1. Free /\ NoImport
    BY <1>2 DEF SimInv, Busy
  <2>2. sim = [data |-> None, count |-> 0, pending |-> {}]
    BY <2>1 DEF Free
  <2>3. NoImport'
    BY <2>1 DEF NoImport
  <2>6. Register(sim) = [data |-> None, count |-> 1, pending |-> {}]
    <3>1. sim.count + 1 = 1
      BY <2>2
    <3>2. Register(sim) = [sim EXCEPT !.count = 1]
      BY <3>1 DEF Register
    <3> QED
      BY <2>2, <3>2
  <2>4. CASE sim' = [Post(Register(sim), first) EXCEPT !.data = p]
    <3>4. Post(Register(sim), first) = [data |-> None, count |-> 1, pending |-> {first}]
      BY <2>6 DEF Post
    <3>5. [[data |-> None, count |-> 1, pending |-> {first}] EXCEPT !.data = p]
            = [data |-> p, count |-> 1, pending |-> {first}]
      OBVIOUS
    <3>1. sim' = [data |-> p, count |-> 1, pending |-> {first}]
      BY <2>4, <3>4, <3>5
    <3>2. Busy(op, 0)'
      BY <3>1 DEF Busy
    <3>3. op \in Others
      BY DEF Others
    <3> QED
      BY <3>2, <3>3, <2>3 DEF SimInv
  <2>5. CASE sim' = Deregister(Register(sim))
    <3>1. Free'
      BY <2>6, <2>5, LastDeregisters DEF Free
    <3> QED
      BY <3>1, <2>3 DEF SimInv
  <2> QED
    BY <1>2, <2>4, <2>5 DEF StartSim
<1> QED
  BY <1>1, <1>2

-----------------------------------------------------------------------------
(* The helper's steps. *)

LEMMA HandleKeeps ==
  ASSUME Quiet, IInv, NEW p \in Procs, Handle(p)
  PROVE  IInv' /\ Atomic
<1>1. UNCHANGED <<env, client, base, loop>>
  BY DEF Handle, HandleStr, HandleName, HandleImport, HandleExport
<1>2. Typed' /\ LockInv' /\ Atomic
  BY <1>1 DEF IInv, Typed, LockInv, Inserting, Atomic, client, base, records
<1>3. UNCHANGED <<env, lock, unstored, refused, loop>>
  BY <1>1 DEF base, records
<1>4. CASE HandleStr(p) \/ HandleName(p)
  <2>1. UNCHANGED sim
    BY <1>4 DEF HandleStr, HandleName
  <2> QED
    BY <1>2, <1>3, <2>1, SimKept DEF IInv
<1>5. CASE HandleImport(p)
  <2>1. ~Fault("not_ready")
    BY DEF Quiet, IInv, Typed, Fault
  <2>2. StartSim(p, Call("count", env.card, 0))
    BY <1>5, <2>1 DEF HandleImport, StartRead
  <2> QED
    BY <1>2, <1>3, <2>2, StartKeeps DEF IInv
<1>6. CASE HandleExport(p)
  <2>1. StartSim(p, Call("meta", env.card, 0)) \/ UNCHANGED sim
    BY <1>6 DEF HandleExport, StartWrite
  <2> QED
    BY <1>2, <1>3, <2>1, StartKeeps, SimKept DEF IInv
<1> QED
  BY <1>4, <1>5, <1>6 DEF Handle

LEMMA PbCountKeeps ==
  ASSUME IInv, PbCount
  PROVE  IInv' /\ Atomic
<1> USE ConstantsAssumption DEF ConstantsAssumption
<1>1. PICK call \in Answers("count") : PbCount!(call)
  BY DEF PbCount
<1>2. PICK i \in Nat : call = Call("count", env.card, i) /\ Busy("count", i) /\ NoImport
  BY <1>1, Waiting DEF IInv, Others
<1>3. /\ Answered(sim, call) = [data |-> sim.data, count |-> 1, pending |-> {}]
      /\ sim.data # None /\ call.book = env.card
  BY <1>2, SimAnswered DEF Call
<1>4. UNCHANGED <<env, client, base>>
  BY <1>1
<1>5. Typed' /\ LockInv' /\ Atomic
  BY <1>4 DEF IInv, Typed, LockInv, Inserting, Atomic, client, base, records
<1>6. CASE /\ env.used > 0 /\ loop' = "begin"
           /\ sim' = Post(Answered(sim, call), Call("read", call.book, 1))
  <2>1. Busy("read", 1)'
    BY <1>3, <1>4, <1>6, NextCall
  <2>2. env.used \in Nat
    BY DEF IInv, Typed
  <2>3. Importing(1)'
    BY <1>2, <1>4, <1>6, <2>2 DEF NoImport, Importing, base, records
  <2> QED
    BY <1>5, <2>1, <2>3 DEF IInv, SimInv
<1>7. CASE Finish(Answered(sim, call), "error") /\ UNCHANGED loop
  <2>1. Free'
    BY <1>3, <1>7, FinishFrees
  <2>2. NoImport'
    BY <1>2, <1>4, <1>7 DEF NoImport, base, records
  <2> QED
    BY <1>5, <2>1, <2>2 DEF IInv, SimInv
<1> QED
  BY <1>1, <1>6, <1>7

\* The answers of an export go from one call to the next or end it.
LEMMA ExportKeeps ==
  ASSUME IInv, MetaInfo \/ WriteAvailable \/ FindEmptySlot \/ Updated
  PROVE  IInv' /\ Atomic
<1>1. UNCHANGED <<env, client, base, loop>>
  BY DEF MetaInfo, WriteAvailable, FindEmptySlot, Updated
<1>2. Typed' /\ LockInv' /\ Atomic
  BY <1>1 DEF IInv, Typed, LockInv, Inserting, Atomic, client, base, records
<1>3. PICK op \in {"meta", "avail", "find", "update"} : \E call \in Answers(op) :
        \/ \E val : Finish(Answered(sim, call), val)
        \/ \E o \in Others, j \in Nat : sim' = Post(Answered(sim, call), Call(o, call.book, j))
  <2>1. CASE MetaInfo
    BY <2>1 DEF MetaInfo, Others
  <2>2. CASE WriteAvailable
    BY <2>2 DEF WriteAvailable, Others
  <2>3. CASE FindEmptySlot
    <3>1. PICK call \in Answers("find") : FindEmptySlot!(call)
      BY <2>3 DEF FindEmptySlot
    <3>2. call.index \in Nat /\ env.used \in Nat
      BY Waiting, ConstantsAssumption DEF IInv, Typed, Call, ConstantsAssumption
    <3> QED
      BY <3>1, <3>2 DEF WriteContact, Others
  <2>4. CASE Updated
    BY <2>4 DEF Updated
  <2> QED
    BY <2>1, <2>2, <2>3, <2>4
<1>9. PICK call \in Answers(op) :
        \/ \E val : Finish(Answered(sim, call), val)
        \/ \E o \in Others, j \in Nat : sim' = Post(Answered(sim, call), Call(o, call.book, j))
  BY <1>3
<1>4. PICK i \in Nat : call = Call(op, env.card, i) /\ Busy(op, i) /\ NoImport
  BY Waiting DEF IInv, Others
<1>5. /\ Answered(sim, call) = [data |-> sim.data, count |-> 1, pending |-> {}]
      /\ sim.data # None /\ call.book = env.card
  BY <1>4, SimAnswered DEF Call
<1>6. NoImport'
  BY <1>1, <1>4 DEF NoImport, base, records
<1>7. CASE \E val : Finish(Answered(sim, call), val)
  <2>1. Free'
    BY <1>5, <1>7, FinishFrees
  <2> QED
    BY <1>2, <1>6, <2>1 DEF IInv, SimInv
<1>8. CASE \E o \in Others, j \in Nat : sim' = Post(Answered(sim, call), Call(o, call.book, j))
  <2>1. PICK o \in Others, j \in Nat : Busy(o, j)'
    BY <1>1, <1>5, <1>8, NextCall
  <2> QED
    BY <1>2, <1>6, <2>1 DEF IInv, SimInv
<1> QED
  BY <1>9, <1>7, <1>8

\* A record is put beside those before it; the last one is the end of the
\* transaction, and with it all records are stored.
LEMMA ReadRecordKeeps ==
  ASSUME IInv, ReadRecord
  PROVE  IInv' /\ Atomic
<1> USE ConstantsAssumption DEF ConstantsAssumption
<1>1. PICK call \in Answers("read") : ReadRecord!(call)
  BY DEF ReadRecord
<1>2. PICK i \in Nat : call = Call("read", env.card, i) /\ Busy("read", i) /\ Importing(i)
  BY <1>1, Waiting DEF IInv
<1>3. loop = "idle"
  BY Waiting DEF IInv
<1>4. /\ Answered(sim, call) = [data |-> sim.data, count |-> 1, pending |-> {}]
      /\ sim.data # None /\ call.book = env.card /\ call.index = i
  BY <1>2, SimAnswered DEF Call
<1>5. /\ lock = Helper /\ unstored \cup refused = 1..(i - 1) /\ i \in 1..env.used
      /\ env.used \in Nat /\ refused \subseteq 1..env.used /\ stored \subseteq 1..env.used
  BY <1>2, <1>3 DEF Importing, IInv, Typed
<1>6. UNCHANGED <<env, client, loop>>
  BY <1>1
<1>7. ASSUME NEW new \in {{i}, {}}, refused' = refused \cup ({i} \ new),
             i < env.used, Insert(new), UNCHANGED lock,
             sim' = Post(Answered(sim, call), Call("read", call.book, i + 1))
      PROVE  IInv' /\ Atomic
  <2>1. unstored' = unstored \cup new /\ UNCHANGED stored
    BY <1>5, <1>7 DEF Insert
  <2>2. unstored' \cup refused' = 1..i
    <3>1. unstored' \cup refused' = (1..(i - 1)) \cup {i}
      BY <1>5, <1>7, <2>1
    <3> QED
      BY <1>5, <3>1
  <2>3. Busy("read", i + 1)'
    BY <1>4, <1>6, <1>7, NextCall
  <2>4. Importing(i + 1)'
    BY <1>3, <1>5, <1>6, <1>7, <2>2 DEF Importing
  <2>5. Typed' /\ LockInv' /\ Atomic
    BY <1>5, <1>6, <1>7, <2>1 DEF IInv, Typed, LockInv, Inserting, Atomic, client
  <2> QED
    BY <1>5, <2>3, <2>4, <2>5 DEF IInv, SimInv
<1>8. ASSUME Finish(Answered(sim, call), "ok"),
             \/ /\ i = env.used
                /\ \E new \in {{i}, {}} : /\ refused' = refused \cup ({i} \ new)
                                          /\ EndTrans(TRUE, LastOne(new))
             \/ EndTrans(FALSE, {}) /\ UNCHANGED refused
      PROVE  IInv' /\ Atomic
  <2>1. Free'
    BY <1>4, <1>8, FinishFrees
  <2>2. lock' = None
    BY <1>5, <1>8 DEF EndTrans
  <2>3. /\ stored' = stored \/ stored' \cup refused' = 1..env.used
        /\ refused' \subseteq 1..env.used /\ stored' \subseteq 1..env.used
    <3>1. ASSUME i = env.used, NEW new \in {{i}, {}}, refused' = refused \cup ({i} \ new),
                 EndTrans(TRUE, LastOne(new))
          PROVE  stored' \cup refused' = 1..env.used
      <4>1. stored' = stored \cup unstored \cup new
        BY <1>5, <3>1 DEF EndTrans, LastOne
      <4>2. stored' \cup refused' = stored \cup (1..(i - 1)) \cup {i}
        BY <1>5, <3>1, <4>1
      <4>3. (1..(i - 1)) \cup {i} = 1..env.used
        BY <1>5, <3>1
      <4> QED
        BY <1>5, <4>2, <4>3
    <3>2. CASE EndTrans(FALSE, {}) /\ UNCHANGED refused
      BY <1>5, <3>2 DEF EndTrans
    <3> QED
      BY <1>8, <3>1, <3>2
  <2>4. Atomic /\ Typed'
    BY <1>6, <2>3 DEF IInv, Typed, Atomic, client
  <2>5. LockInv'
    BY <1>5, <1>6 DEF IInv, Typed, LockInv, Inserting, client
  <2>6. NoImport'
    BY <1>3, <1>6, <2>2 DEF NoImport
  <2> QED
    BY <2>1, <2>4, <2>5, <2>6 DEF IInv, SimInv
<1>9. Inserted(i) \subseteq {{i}, {}}
  BY DEF Inserted
<1>10. \/ \E new \in Inserted(i) :
            /\ refused' = refused \cup ({i} \ new)
            /\ \/ /\ i < env.used /\ Insert(new) /\ UNCHANGED lock
                  /\ sim' = Post(Answered(sim, call), Call("read", call.book, i + 1))
               \/ /\ i = env.used /\ EndTrans(TRUE, LastOne(new))
                  /\ Finish(Answered(sim, call), "ok")
       \/ /\ EndTrans(FALSE, {}) /\ UNCHANGED refused
          /\ Finish(Answered(sim, call), "ok")
  BY <1>1, <1>4
<1> QED
  BY <1>7, <1>8, <1>9, <1>10

\* The transaction of an import is begun or given up.
LEMMA DatabaseKeeps ==
  ASSUME IInv, Database
  PROVE  IInv' /\ Atomic
<1> USE ConstantsAssumption DEF ConstantsAssumption
<1>1. CASE UpdateCollation
  <2>1. UNCHANGED <<env, client, base, sim>> /\ loop = "collate" /\ loop' = "idle"
    BY <1>1 DEF UpdateCollation
  <2>2. Typed' /\ LockInv' /\ Atomic
    BY <2>1 DEF IInv, Typed, LockInv, Inserting, Atomic, client, base, records
  <2>3. CASE Free /\ NoImport
    BY <2>1, <2>2, <2>3 DEF Free, NoImport, IInv, SimInv, base, records
  <2>4. ASSUME NEW op \in Others, NEW i \in Nat, Busy(op, i), NoImport
        PROVE  SimInv'
    BY <2>1, <2>4 DEF Busy, NoImport, SimInv, base, records
  <2>5. ASSUME NEW i \in Nat, Busy("read", i), Importing(i)
        PROVE  SimInv'
    BY <2>1, <2>5 DEF Busy, Importing, SimInv, base, records
  <2> QED
    BY <2>2, <2>3, <2>4, <2>5 DEF IInv, SimInv
<1>2. ASSUME loop = "begin"
      PROVE  \E i \in Nat : Busy("read", i) /\ Importing(i) /\ i = 1 /\ lock # Helper
  BY <1>2 DEF IInv, SimInv, NoImport, Importing
<1>3. CASE BeginImport
  <2>1. loop = "begin" /\ lock = None /\ lock' = Helper /\ unstored' = {} /\ refused' = {} /\ loop' = "idle"
        /\ UNCHANGED <<env, client, sim, stored>>
    BY <1>3 DEF BeginImport
  <2>2. Busy("read", 1) /\ Importing(1)
    BY <1>2, <2>1
  <2>3. Busy("read", 1)'
    BY <2>1, <2>2 DEF Busy
  <2>4. unstored' \cup refused' = 1..(1 - 1)
    BY <2>1
  <2>5. Importing(1)'
    BY <2>1, <2>2, <2>4 DEF Importing
  <2>6. \A t \in Threads : ~Inserting(t)
    BY <2>1 DEF IInv, LockInv
  <2>7. LockInv'
    BY <2>1, <2>6 DEF LockInv, Inserting, client
  <2>8. Typed' /\ Atomic
    BY <2>1 DEF IInv, Typed, Atomic, client
  <2> QED
    BY <2>3, <2>5, <2>7, <2>8 DEF IInv, SimInv
<1>4. CASE GiveUpImport
  <2>1. loop = "begin" /\ loop' = "idle" /\ Finish(sim, "error")
        /\ UNCHANGED <<env, client, base>>
    BY <1>4 DEF GiveUpImport
  <2>2. Typed' /\ LockInv' /\ Atomic
    BY <2>1 DEF IInv, Typed, LockInv, Inserting, Atomic, client, base, records
  <2>3. Busy("read", 1) /\ lock # Helper
    BY <1>2, <2>1
  <2>4. sim = [data |-> sim.data, count |-> 1, pending |-> {Call("read", env.card, 1)}]
    BY <2>3 DEF Busy
  <2>5. Free'
    BY <2>1, <2>4, FinishFrees
  <2>6. NoImport'
    BY <2>1, <2>3 DEF NoImport, base, records
  <2> QED
    BY <2>2, <2>5, <2>6 DEF IInv, SimInv
<1> QED
  BY <1>1, <1>3, <1>4 DEF Database

LEMMA RegionKeeps ==
  ASSUME IInv, RegionChanged
  PROVE  IInv' /\ Atomic
<1>1. UNCHANGED <<env, client, base, sim>> /\ loop = "idle" /\ loop' = "collate"
  BY DEF RegionChanged
<1>2. Typed' /\ LockInv' /\ Atomic
  BY <1>1 DEF IInv, Typed, LockInv, Inserting, Atomic, client, base, records
<1>3. CASE Free /\ NoImport
  BY <1>1, <1>2, <1>3 DEF Free, NoImport, IInv, SimInv, base, records
<1>4. ASSUME NEW op \in Others, NEW i \in Nat, Busy(op, i), NoImport
      PROVE  SimInv'
  BY <1>1, <1>4 DEF Busy, NoImport, SimInv, base, records
<1>5. ASSUME NEW i \in Nat, Busy("read", i), Importing(i)
      PROVE  SimInv'
  BY <1>1, <1>5 DEF Busy, Importing, SimInv, base, records
<1> QED
  BY <1>2, <1>3, <1>4, <1>5 DEF IInv, SimInv

-----------------------------------------------------------------------------
(* The theorems. *)

LEMMA InitHolds == Init => IInv
<1> USE ConstantsAssumption DEF ConstantsAssumption
<1> SUFFICES ASSUME Init PROVE IInv
  OBVIOUS
<1>1. Typed
  BY DEF Init, Typed
<1>2. LockInv
  BY DEF Init, LockInv, Inserting
<1>3. Free /\ NoImport
  BY DEF Init, Free, NoImport
<1> QED
  BY <1>1, <1>2, <1>3 DEF IInv, SimInv

LEMMA StepKeeps ==
  ASSUME Quiet, IInv, [Next]_vars
  PROVE  IInv' /\ Atomic
<1>1. CASE UNCHANGED vars
  <2>1. UNCHANGED <<env, client, base, loop, sim>>
    BY <1>1 DEF vars
  <2>2. Typed' /\ LockInv' /\ Atomic
    BY <2>1 DEF IInv, Typed, LockInv, Inserting, Atomic, client, base, records
  <2> QED
    BY <2>1, <2>2, SimKept DEF IInv, base, records
<1>2. ASSUME NEW t \in Threads, Caller(t)
      PROVE  IInv' /\ Atomic
  BY <1>2, CallerKeeps
<1>3. ASSUME NEW p \in Procs, Handle(p)
      PROVE  IInv' /\ Atomic
  BY <1>3, HandleKeeps
<1>4. CASE Telephony
  <2>1. ~ReadServiceNumber
    <3>1. ASSUME NEW call \in Answers("read")
          PROVE  call.book # "SDN"
      BY Waiting, ConstantsAssumption DEF IInv, Typed, Call, ConstantsAssumption
    <3> QED
      BY <3>1 DEF ReadServiceNumber
  <2> QED
    BY <1>4, <2>1, PbCountKeeps, ReadRecordKeeps, ExportKeeps DEF Telephony
<1>5. CASE Database
  BY <1>5, DatabaseKeeps
<1>6. ~ReadSDN
  BY DEF ReadSDN, Quiet, IInv, Typed, Fault
<1>7. CASE RegionChanged
  BY <1>7, RegionKeeps
<1> QED
  BY <1>1, <1>2, <1>3, <1>4, <1>5, <1>6, <1>7 DEF Next

LEMMA Inductive == Quiet => (Spec => []IInv)
<1> SUFFICES ASSUME Quiet PROVE Spec => []IInv
  OBVIOUS
<1>1. Init => IInv
  BY InitHolds
<1>2. IInv /\ [Next]_vars => IInv'
  BY StepKeeps
<1> QED
  BY <1>1, <1>2, PTL DEF Spec

\* The count of registrations of helper/sim.c is the number of TAPI calls that
\* are not answered, so the library is open exactly while it is needed.
THEOREM CallsAreCounted == Quiet => (Spec => []CallbacksCounted)
<1> SUFFICES ASSUME Quiet PROVE Spec => []CallbacksCounted
  OBVIOUS
<1>1. IInv => CallbacksCounted
  <2> SUFFICES ASSUME IInv PROVE CallbacksCounted
    OBVIOUS
  <2>1. CASE Free
    BY <2>1, FS_EmptySet DEF Free, CallbacksCounted
  <2>2. ASSUME NEW op, NEW i, Busy(op, i)
        PROVE  CallbacksCounted
    BY <2>2, FS_Singleton DEF Busy, CallbacksCounted
  <2> QED
    BY <2>1, <2>2 DEF IInv, SimInv
<1> QED
  BY <1>1, Inductive, PTL

\* The transaction of an import is open exactly while its next record is
\* awaited (helper_sim_read_record_cb and the callbacks around it).
THEOREM ImportHasItsTransaction == Quiet => (Spec => []ImportTransaction)
<1> SUFFICES ASSUME Quiet PROVE Spec => []ImportTransaction
  OBVIOUS
<1>1. IInv => ImportTransaction
  <2> SUFFICES ASSUME IInv PROVE ImportTransaction
    OBVIOUS
  <2>1. CASE Free /\ NoImport
    BY <2>1 DEF Free, NoImport, ImportTransaction
  <2>2. ASSUME NEW op \in Others, NEW i \in Nat, Busy(op, i), NoImport
        PROVE  ImportTransaction
    BY <2>2 DEF Busy, NoImport, ImportTransaction, Others, Call
  <2>3. ASSUME NEW i \in Nat, Busy("read", i), Importing(i)
        PROVE  ImportTransaction
    <3>1. sim.pending = {Call("read", env.card, i)}
      BY <2>3 DEF Busy
    <3>2. env.card # "SDN"
      BY ConstantsAssumption DEF IInv, Typed, ConstantsAssumption
    <3> QED
      BY <2>3, <3>1, <3>2 DEF Importing, ImportTransaction, Call
  <2> QED
    BY <2>1, <2>2, <2>3 DEF IInv, SimInv
<1> QED
  BY <1>1, Inductive, PTL

\* Whatever the interleaving with other processes' writes and with failures of
\* the card, the records of an import are stored in one step or not at all, and
\* the only ones that may be missing are those whose insertion failed.
THEOREM ImportsAreAtomic == Quiet => (Spec => ImportIsAtomic)
<1> SUFFICES ASSUME Quiet PROVE Spec => ImportIsAtomic
  OBVIOUS
<1>1. IInv /\ [Next]_vars => [Atomic]_vars
  BY StepKeeps
<1> QED
  BY <1>1, Inductive, PTL DEF Spec, ImportIsAtomic, Atomic
-----------------------------------------------------------------------------
(***************************************************************************)
(* The request protocol of cts-socket.c and helper-socket.c, for any       *)
(* processes, threads, texts and failures but one: a process has one       *)
(* request under way exactly while one of its threads waits for it.        *)
(***************************************************************************)

\* helper_handle_normalize_name has no return after a collation key failed: it
\* answers that request twice, and what is stated of replies would not hold.
CollationWorks == \A s \in Scenarios : "collate" \notin s.faults

-----------------------------------------------------------------------------
(* Types, with what the streams and the calls must carry for the answers   *)
(* and the records to be of theirs.                                        *)

Attachments == {s \in Seq(Nat) : Len(s) <= 3}
Values == {"ok", "busy", "error"}
Replies == [kind : {"header"}, type : {"return"}, val : Values, sizes : Attachments]
             \cup {Byte}

Ops == {"count", "read", "meta", "avail", "find", "update"}
Books == {s.card : s \in Scenarios} \cup {"SDN"}
Calls ==
  {c \in [op : Ops, book : Books, index : Nat] :
     c.op = "read" /\ c.book # "SDN" => c.index \in 1..env.used}
Sims == [data : Procs \cup {None}, count : Int, pending : SUBSET Calls]

\* What the callers leave alone, what the helper leaves alone, and the rest.
HelperTypes ==
  /\ env \in Scenarios
  /\ loop \in {"idle", "begin", "collate"} /\ sim \in Sims
  /\ unstored \subseteq 1..env.used /\ refused \subseteq 1..env.used
  /\ stored \subseteq 1..env.used /\ services \subseteq Nat
ClientTypes ==
  /\ pc \in [Threads -> {"idle", "inserting", "waiting", "saving", "lost"}]
  /\ req \in [Threads -> {"none", "import", "export", "str", "name"}]
  /\ answer \in [Threads -> {"none", "ok", "busy", "error"}]
  /\ left \in [Threads -> 0..MaxRequests]
  /\ holder \in [Procs -> Threads \cup {None}]
SharedTypes ==
  /\ up \in [Procs -> Seq(Replies)] /\ DOMAIN down = Procs
  /\ unread \subseteq Procs /\ lock \in Threads \cup {Helper, None}

Types == HelperTypes /\ ClientTypes /\ SharedTypes

-----------------------------------------------------------------------------
(* The invariant of the protocol. *)

\* How many attachments each request has.
Parts(type) == CASE type = "import" -> 0 [] type \in {"str", "export"} -> 1 [] type = "name" -> 3
Requests == {"import", "export", "str", "name"}

\* The request of p is on its way, or with the SIM, or its reply is under way,
\* or it was not read.
Asked(p) ==
  /\ up[p] = <<>> /\ sim.data # p /\ p \notin unread
  /\ \E type \in Requests, sizes \in Attachments :
       Len(sizes) = Parts(type) /\ down[p] = Message(type, "none", sizes)
AtSim(p) == down[p] = <<>> /\ up[p] = <<>> /\ sim.data = p /\ p \notin unread
Told(p) ==
  /\ down[p] = <<>> /\ sim.data # p /\ p \notin unread
  /\ \E val \in Values, sizes \in Attachments : up[p] = Message("return", val, sizes)

Dropped(p) == down[p] = <<>> /\ up[p] = <<>> /\ sim.data # p /\ p \in unread

Silent(p) ==
  holder[p] = None /\ down[p] = <<>> /\ up[p] = <<>> /\ sim.data # p /\ p \notin unread

Waits(t) == pc[t] = "waiting"

\* CTS_MUTEX_SOCKET_FD is held by the thread whose request is under way.
Engaged(p) ==
  /\ holder[p] \in Threads
  /\ ProcOf[holder[p]] = p /\ Waits(holder[p])
  /\ Asked(p) \/ AtSim(p) \/ Told(p) \/ Dropped(p)

Waiters == \A t \in Threads : pc[t] # "lost" /\ (Waits(t) => holder[ProcOf[t]] = t)

Protocol == Waiters /\ \A p \in Procs : Silent(p) \/ Engaged(p)

RInv == Types /\ Protocol

-----------------------------------------------------------------------------
(* Messages and the reading of them. *)

LEMMA TotalIsNat ==
  ASSUME NEW sizes \in Attachments
  PROVE  Total(sizes) \in Nat
  BY DEF Attachments, Total

LEMMA OnePart ==
  ASSUME NEW sizes \in Attachments, Len(sizes) = 1
  PROVE  Total(sizes) = sizes[1]
<1>1. sizes \in Seq(Nat) /\ DOMAIN sizes = 1..1 /\ sizes[1] \in Nat
  BY ElementOfSeq DEF Attachments
<1>2. 1 \in DOMAIN sizes /\ 2 \notin DOMAIN sizes /\ 3 \notin DOMAIN sizes
  BY <1>1
<1> QED
  BY <1>1, <1>2 DEF Total

LEMMA MessageShape ==
  ASSUME NEW type, NEW val, NEW sizes \in Attachments
  PROVE  LET m == Message(type, val, sizes) IN
         /\ m \in Seq({Header(type, val, sizes), Byte})
         /\ Len(m) = 1 + Total(sizes) /\ m # <<>>
         /\ Head(m) = Header(type, val, sizes) /\ m[1] = Header(type, val, sizes)
         /\ \A i \in 2..Len(m) : m[i] = Byte
<1> DEFINE n == Total(sizes)
           S == {Header(type, val, sizes), Byte}
           a == <<Header(type, val, sizes)>>
           b == [i \in 1..n |-> Byte]
<1>1. n \in Nat
  BY TotalIsNat
<1>2. a \in Seq(S) /\ Len(a) = 1 /\ a[1] = Header(type, val, sizes)
  OBVIOUS
<1> HIDE DEF n
<1>3. b \in Seq(S) /\ Len(b) = n /\ \A i \in 1..n : b[i] = Byte
  BY <1>1
<1>4. Message(type, val, sizes) = a \o b
  BY DEF Message, n
<1> HIDE DEF a, b, S
<1>5. /\ a \o b \in Seq(S) /\ Len(a \o b) = 1 + n
      /\ (a \o b)[1] = a[1] /\ \A i \in 2..(1 + n) : (a \o b)[i] = Byte
  <2>1. /\ a \o b \in Seq(S) /\ Len(a \o b) = Len(a) + Len(b)
        /\ \A i \in 1..(Len(a) + Len(b)) :
             (a \o b)[i] = IF i <= Len(a) THEN a[i] ELSE b[i - Len(a)]
    BY <1>2, <1>3, ConcatProperties
  <2> QED
    BY <1>1, <1>2, <1>3, <2>1
<1>6. a \o b # <<>> /\ Head(a \o b) = a[1]
  BY <1>1, <1>5
<1> QED
  BY <1>2, <1>4, <1>5, <1>6 DEF n, S

\* A message that is read to its end leaves the stream empty.
LEMMA MessageRead ==
  ASSUME NEW type, NEW val, NEW sizes \in Attachments
  PROVE  LET m == Message(type, val, sizes) IN
         SubSeq(m, Total(sizes) + 2, Len(m)) = <<>>
<1> DEFINE m == Message(type, val, sizes)
<1>1. m \in Seq({Header(type, val, sizes), Byte}) /\ Len(m) = 1 + Total(sizes) /\ Total(sizes) \in Nat
  BY MessageShape, TotalIsNat
<1> HIDE DEF m
<1> QED
  BY <1>1 DEF m

LEMMA MessageIsFirst ==
  ASSUME NEW type, NEW val, NEW sizes \in Attachments
  PROVE  <<>> \o Message(type, val, sizes) = Message(type, val, sizes)
<1> DEFINE m == Message(type, val, sizes)
<1>1. m \in Seq({Header(type, val, sizes), Byte})
  BY MessageShape
<1> HIDE DEF m
<1> QED
  BY <1>1 DEF m

\* cts_safe_read takes what fits, cts_remove_invalid_msg the rest.
LEMMA AllTaken ==
  ASSUME NEW type, NEW sizes \in Attachments
  PROVE  Taken(type, sizes) = Total(sizes)
<1> USE ConstantsAssumption DEF ConstantsAssumption
<1>1. sizes \in Seq(Nat)
  BY DEF Attachments
<1>2. \A n \in Nat : Kept(n) + Discarded(n) = n
  BY DEF Kept, Discarded
<1>3. sizes = [i \in DOMAIN sizes |-> Kept(sizes[i]) + Discarded(sizes[i])]
  BY <1>1, <1>2
<1> QED
  BY <1>3 DEF Taken

\* helper_discard_msg after a part that could not be normalised leaves none of
\* the parts behind it.
LEMMA NoneUnread ==
  ASSUME NEW sizes \in Attachments, Len(sizes) = 3, NEW i \in {1, 2}
  PROVE  Unread(sizes, i) = 0
<1>1. sizes \in [1..3 -> Nat]
  <2>1. sizes \in Seq(Nat) /\ Len(sizes) = 3
    BY DEF Attachments
  <2> QED
    BY <2>1, LenProperties
<1>2. CASE i = 1
  <2> DEFINE rest == SubSeq(sizes, 2, 3)
  <2>1. DOMAIN rest = 1..2 /\ rest[1] = sizes[2] /\ rest[2] = sizes[3]
    BY <1>1
  <2>2. sizes[2] \in Nat /\ sizes[3] \in Nat
    BY <1>1
  <2> HIDE DEF rest
  <2>3. Total(rest) = sizes[2] + sizes[3]
    BY <2>1, <2>2 DEF Total
  <2> QED
    BY <1>2, <2>2, <2>3 DEF Unread, rest
<1>3. CASE i = 2
  <2> DEFINE rest == SubSeq(sizes, 3, 3)
  <2>1. DOMAIN rest = 1..1 /\ rest[1] = sizes[3]
    BY <1>1
  <2>2. sizes[3] \in Nat
    BY <1>1
  <2> HIDE DEF rest
  <2>3. Total(rest) = sizes[3]
    BY <2>1, <2>2 DEF Total
  <2> QED
    BY <1>3, <2>2, <2>3 DEF Unread, rest
<1> QED
  BY <1>2, <1>3

-----------------------------------------------------------------------------
(* Every step keeps the types. *)

\* The operators of helper/sim.c keep what is typed, and the process that waits.
LEMMA SimOperators ==
  ASSUME NEW s \in Sims
  PROVE  /\ \A c : Answered(s, c) \in Sims /\ Answered(s, c).data = s.data
         /\ \A c \in Calls : Post(s, c) \in Sims /\ Post(s, c).data = s.data
         /\ Register(s) \in Sims /\ Register(s).data = s.data
         /\ Deregister(s) \in Sims /\ Deregister(s).data = s.data
         /\ \A d \in Procs \cup {None} :
              [s EXCEPT !.data = d] \in Sims /\ [s EXCEPT !.data = d].data = d
<1> DEFINE C == Calls
<1>1. s \in [data : Procs \cup {None}, count : Int, pending : SUBSET C]
  BY DEF Sims
<1> HIDE DEF C
<1>2. \A c : Answered(s, c) = [data |-> s.data, count |-> s.count, pending |-> s.pending \ {c}]
  BY <1>1 DEF Answered
<1>3. \A c : Post(s, c) = [data |-> s.data, count |-> s.count, pending |-> s.pending \cup {c}]
  BY <1>1 DEF Post
<1>4. Register(s) = [data |-> s.data, count |-> s.count + 1, pending |-> s.pending]
  BY <1>1 DEF Register
<1>5. PICK q \in SUBSET C :
        Deregister(s) = [data |-> s.data, count |-> s.count - 1, pending |-> q]
  <2>1. CASE s.count = 1
    <3>1. Deregister(s) = [s EXCEPT !.count = @ - 1, !.pending = {}]
      BY <2>1 DEF Deregister
    <3>2. Deregister(s) = [data |-> s.data, count |-> s.count - 1, pending |-> {}]
      BY <1>1, <3>1
    <3> QED
      BY <3>2
  <2>2. CASE s.count # 1
    <3>1. Deregister(s) = [s EXCEPT !.count = @ - 1, !.pending = @]
      BY <2>2 DEF Deregister
    <3>2. Deregister(s) = [data |-> s.data, count |-> s.count - 1, pending |-> s.pending]
      BY <1>1, <3>1
    <3> QED
      BY <1>1, <3>2
  <2> QED
    BY <2>1, <2>2
<1>6. \A d : [s EXCEPT !.data = d] = [data |-> d, count |-> s.count, pending |-> s.pending]
  BY <1>1
<1>7. \A d \in Procs \cup {None}, n \in Int, r \in SUBSET C :
        [data |-> d, count |-> n, pending |-> r] \in Sims
  BY DEF Sims, C
<1>8. \A c : Answered(s, c) \in Sims /\ Answered(s, c).data = s.data
  <2> TAKE c
  <2>1. s.pending \ {c} \in SUBSET C
    BY <1>1
  <2> QED
    BY <1>1, <1>2, <1>7, <2>1
<1>9. \A c \in Calls : Post(s, c) \in Sims /\ Post(s, c).data = s.data
  <2> TAKE c \in Calls
  <2>1. s.pending \cup {c} \in SUBSET C
    BY <1>1 DEF C
  <2> QED
    BY <1>1, <1>3, <1>7, <2>1
<1>10. Register(s) \in Sims /\ Register(s).data = s.data
  BY <1>1, <1>4, <1>7
<1>11. Deregister(s) \in Sims /\ Deregister(s).data = s.data
  BY <1>1, <1>5, <1>7
<1>12. \A d \in Procs \cup {None} :
         [s EXCEPT !.data = d] \in Sims /\ [s EXCEPT !.data = d].data = d
  BY <1>1, <1>6, <1>7
<1> QED
  BY <1>8, <1>9, <1>10, <1>11, <1>12

LEMMA MessageTyped ==
  ASSUME NEW val \in Values, NEW sizes \in Attachments
  PROVE  Message("return", val, sizes) \in Seq(Replies)
<1>1. Message("return", val, sizes) \in Seq({Header("return", val, sizes), Byte})
  BY MessageShape
<1>2. {Header("return", val, sizes), Byte} \subseteq Replies
  BY DEF Header, Replies
<1> QED
  BY <1>1, <1>2, SeqMonotonic

LEMMA ReplyTyped ==
  ASSUME Types, NEW p \in Procs, NEW val \in Values, NEW sizes \in Attachments,
         Reply(p, val, sizes)
  PROVE  up' \in [Procs -> Seq(Replies)]
<1> DEFINE m == Message("return", val, sizes)
<1>1. m \in Seq(Replies)
  BY MessageTyped
<1> HIDE DEF m
<1>2. up[p] \o m \in Seq(Replies)
  BY <1>1, ConcatProperties DEF Types, SharedTypes
<1> QED
  BY <1>2 DEF Types, SharedTypes, Reply, m

\* What a step of a SIM operation may say: nothing, or that it has ended.
SimTells ==
  \/ UNCHANGED up /\ sim'.data = sim.data
  \/ /\ sim.data # None /\ sim'.data = None
     /\ \E val \in Values : Reply(sim.data, val, <<>>)

\* sim, up and what they say after a step.
SimMoves == sim' \in Sims /\ up' \in [Procs -> Seq(Replies)] /\ SimTells

LEMMA FinishMoves ==
  ASSUME Types, NEW s \in Sims, s.data = sim.data, NEW val \in Values, Finish(s, val)
  PROVE  SimMoves
<1>1. [s EXCEPT !.data = None] \in Sims /\ [s EXCEPT !.data = None].data = None
  BY SimOperators
<1>2. sim' \in Sims /\ sim'.data = None
  BY <1>1, SimOperators DEF Finish
<1>3. CASE s.data = None
  <2>1. UNCHANGED up
    BY <1>3 DEF Finish
  <2> QED
    BY <1>2, <1>3, <2>1 DEF SimMoves, SimTells, Types, SharedTypes
<1>4. CASE s.data # None
  <2>1. s.data \in Procs
    BY <1>4 DEF Sims
  <2>2. Reply(sim.data, val, <<>>)
    BY <1>4 DEF Finish
  <2>3. <<>> \in Attachments
    BY DEF Attachments
  <2>4. up' \in [Procs -> Seq(Replies)]
    BY <2>1, <2>2, <2>3, ReplyTyped
  <2> QED
    BY <1>2, <1>4, <2>2, <2>4 DEF SimMoves, SimTells
<1> QED
  BY <1>3, <1>4

\* An answer of TAPI leads to the next call, or to the end.
LEMMA AnswerMoves ==
  ASSUME Types, NEW op, NEW call \in Answers(op),
         \/ \E next \in Calls : sim' = Post(Answered(sim, call), next) /\ UNCHANGED up
         \/ \E val \in Values : Finish(Answered(sim, call), val)
  PROVE  SimMoves
<1> DEFINE s == Answered(sim, call)
<1>1. s \in Sims /\ s.data = sim.data
  BY SimOperators DEF Types, HelperTypes
<1> HIDE DEF s
<1>2. ASSUME NEW next \in Calls, sim' = Post(s, next), UNCHANGED up
      PROVE  SimMoves
  BY <1>1, <1>2, SimOperators DEF SimMoves, SimTells, Types, SharedTypes
<1>3. ASSUME NEW val \in Values, Finish(s, val)
      PROVE  SimMoves
  BY <1>1, <1>3, FinishMoves
<1> QED
  BY <1>2, <1>3 DEF s

LEMMA CallsAre ==
  ASSUME Types, NEW op, NEW call \in Answers(op)
  PROVE  /\ call.op = op /\ call.book \in Books /\ call.index \in Nat
         /\ op = "read" /\ call.book # "SDN" => call.index \in 1..env.used
         /\ env.used \in Nat
<1>1. call \in Calls
  BY DEF Answers, Types, HelperTypes, Sims
<1> QED
  BY <1>1, ConstantsAssumption DEF Answers, Calls, Types, HelperTypes, ConstantsAssumption

LEMMA CallerTyped ==
  ASSUME Types, NEW t \in Threads, Caller(t)
  PROVE  Types'
<1> USE ConstantsAssumption DEF ConstantsAssumption
<1>0. HelperTypes /\ ClientTypes /\ SharedTypes /\ ProcOf[t] \in Procs
  BY DEF Types
<1>1. UNCHANGED <<env, loop, sim, unstored, refused, stored, services>>
  BY DEF Caller, ImportSim, ExportSim, NormalizeStr, Ask, MayCall, StartInsert,
     NormalizeName, NormalizeNoName, Receive, EndInsert, base, records
<1>2. HelperTypes'
  BY <1>0, <1>1 DEF HelperTypes, Sims, Calls
<1>3. ASSUME NEW type \in Requests, NEW sizes, Ask(t, type, sizes),
             UNCHANGED left \/ (Spend(t) /\ left[t] > 0)
      PROVE  ClientTypes' /\ SharedTypes'
  <2>1. left' \in [Threads -> 0..MaxRequests]
    BY <1>0, <1>3 DEF ClientTypes, Spend
  <2>2. ClientTypes'
    BY <1>0, <1>3, <2>1 DEF ClientTypes, Ask, Requests
  <2>3. SharedTypes'
    BY <1>0, <1>3 DEF SharedTypes, Ask, base, records
  <2> QED
    BY <2>2, <2>3
<1>4. ASSUME ImportSim(t) \/ ExportSim(t) \/ NormalizeStr(t) \/ NormalizeName(t)
      PROVE  ClientTypes' /\ SharedTypes'
  <2>1. \E type \in Requests : \E sizes :
          Ask(t, type, sizes) /\ (UNCHANGED left \/ (Spend(t) /\ left[t] > 0))
    BY <1>4 DEF ImportSim, ExportSim, NormalizeStr, NormalizeName, MayCall, Requests
  <2> QED
    BY <1>3, <2>1
<1>5. ASSUME StartInsert(t)
      PROVE  ClientTypes' /\ SharedTypes'
  BY <1>0, <1>5 DEF StartInsert, MayCall, Spend, ClientTypes, SharedTypes, wires, requests
<1>6. ASSUME NormalizeNoName(t)
      PROVE  ClientTypes' /\ SharedTypes'
  BY <1>0, <1>6 DEF NormalizeNoName, ClientTypes, SharedTypes, wires, requests, base, records
<1>7. ASSUME EndInsert(t)
      PROVE  ClientTypes' /\ SharedTypes'
  BY <1>0, <1>7 DEF EndInsert, ClientTypes, SharedTypes, wires, requests
<1>8. ASSUME Receive(t)
      PROVE  ClientTypes' /\ SharedTypes'
  <2> DEFINE p == ProcOf[t]
             hdr == Head(up[p])
             more == Taken(req[t], hdr.sizes)
  <2>1. p \in Procs /\ up[p] \in Seq(Replies) /\ up[p] # <<>> /\ hdr \in Replies
    <3>1. p \in Procs /\ up[p] \in Seq(Replies) /\ up[p] # <<>>
      BY <1>0, <1>8 DEF Receive, SharedTypes
    <3> QED
      BY <3>1, HeadTailProperties
  <2>2. UNCHANGED <<left, down, unread, lock>>
    BY <1>8 DEF Receive, base, requests
  <2>3. CASE hdr.kind # "header"
    BY <1>0, <1>8, <2>2, <2>3 DEF Receive, ClientTypes, SharedTypes
  <2>4. CASE hdr.kind = "header"
    <3>1. hdr.val \in Values /\ hdr.sizes \in Attachments
      BY <2>1, <2>4 DEF Replies, Byte
    <3>2. more \in Nat
      BY <3>1, AllTaken, TotalIsNat
    <3> HIDE DEF hdr, more, p
    <3>3. SubSeq(up[p], more + 2, Len(up[p])) \in Seq(Replies)
      <4>1. \A i \in (more + 2)..Len(up[p]) : up[p][i] \in Replies
        BY <2>1, <3>2, ElementOfSeq
      <4>2. more + 2 \in Int /\ Len(up[p]) \in Int
        BY <2>1, <3>2
      <4> QED
        BY <4>1, <4>2, SubSeqProperties
    <3>4. /\ up' = [up EXCEPT ![p] = SubSeq(up[p], more + 2, Len(up[p]))]
          /\ answer' = [answer EXCEPT ![t] = hdr.val]
          /\ pc' = [pc EXCEPT ![t] = IF req[t] = "name" THEN "saving" ELSE "idle"]
          /\ holder' = [holder EXCEPT ![p] = None]
          /\ UNCHANGED req
      BY <1>8, <2>4 DEF Receive, hdr, more, p
    <3>5. ClientTypes'
      BY <1>0, <2>1, <2>2, <3>1, <3>4 DEF ClientTypes, Values
    <3>6. SharedTypes'
      BY <1>0, <2>1, <2>2, <3>3, <3>4 DEF SharedTypes
    <3> QED
      BY <3>5, <3>6
  <2> QED
    BY <2>3, <2>4
<1> QED
  BY <1>2, <1>4, <1>5, <1>6, <1>7, <1>8 DEF Caller, Types

\* What changes beside the SIM operation and the streams back.
BaseTyped ==
  /\ env' = env /\ UNCHANGED client /\ DOMAIN down' = Procs /\ unread' \subseteq Procs
  /\ loop' \in {"idle", "begin", "collate"} /\ lock' \in Threads \cup {Helper, None}
  /\ unstored' \subseteq 1..env.used /\ refused' \subseteq 1..env.used
  /\ stored' \subseteq 1..env.used /\ services' \subseteq Nat

LEMMA MovesTyped ==
  ASSUME Types, BaseTyped, sim' \in Sims, up' \in [Procs -> Seq(Replies)]
  PROVE  Types'
<1>1. HelperTypes'
  BY DEF BaseTyped, Types, HelperTypes, Sims, Calls
<1>2. ClientTypes'
  BY DEF BaseTyped, Types, ClientTypes, client
<1>3. SharedTypes'
  BY DEF BaseTyped, Types, SharedTypes
<1> QED
  BY <1>1, <1>2, <1>3 DEF Types

\* The answers of TAPI, the transaction of an import and the setting changes.
LEMMA EventMoves ==
  ASSUME Types, Telephony \/ Database \/ ReadSDN \/ RegionChanged
  PROVE  SimMoves /\ BaseTyped /\ UNCHANGED requests
<1> USE ConstantsAssumption DEF ConstantsAssumption
<1>0. HelperTypes /\ SharedTypes /\ env.used \in Nat
  BY DEF Types, HelperTypes
<1>1. \A op \in Ops, book \in Books, i \in Nat :
        (op = "read" /\ book # "SDN" => i \in 1..env.used) => Call(op, book, i) \in Calls
  BY DEF Calls, Call
<1> DEFINE Goal == SimMoves /\ BaseTyped /\ UNCHANGED requests
<1>2. ASSUME UNCHANGED <<env, client, requests, base>>, loop' \in {"idle", "begin", "collate"}
      PROVE  BaseTyped /\ UNCHANGED requests
  BY <1>0, <1>2 DEF BaseTyped, base, records, requests, HelperTypes, SharedTypes
<1>3. ASSUME PbCount PROVE Goal
  <2>1. PICK call \in Answers("count") : PbCount!(call)
    BY <1>3 DEF PbCount
  <2>2. Call("read", call.book, 1) \in Calls \/ ~(env.used > 0)
    BY <1>0, <1>1, <2>1, CallsAre DEF Ops
  <2>3. SimMoves
    BY <2>1, <2>2, AnswerMoves DEF Values
  <2>4. loop' \in {"idle", "begin", "collate"}
    BY <1>0, <2>1 DEF HelperTypes
  <2> QED
    BY <1>2, <2>1, <2>3, <2>4
<1>4. ASSUME MetaInfo \/ WriteAvailable PROVE Goal
  <2>1. PICK op \in {"meta", "avail"} : \E call \in Answers(op) :
          \/ \E next \in {Call("find", call.book, 1), Call("avail", call.book, 0)} :
               sim' = Post(Answered(sim, call), next) /\ UNCHANGED up
          \/ Finish(Answered(sim, call), "ok")
    BY <1>4 DEF MetaInfo, WriteAvailable
  <2>2. PICK call \in Answers(op) :
          \/ \E next \in {Call("find", call.book, 1), Call("avail", call.book, 0)} :
               sim' = Post(Answered(sim, call), next) /\ UNCHANGED up
          \/ Finish(Answered(sim, call), "ok")
    BY <2>1
  <2>3. Call("find", call.book, 1) \in Calls /\ Call("avail", call.book, 0) \in Calls
    BY <1>1, CallsAre DEF Ops
  <2>4. SimMoves
    BY <2>2, <2>3, AnswerMoves DEF Values
  <2> QED
    BY <1>0, <1>2, <1>4, <2>4 DEF MetaInfo, WriteAvailable, HelperTypes
<1>5. ASSUME FindEmptySlot PROVE Goal
  <2>1. PICK call \in Answers("find") : FindEmptySlot!(call)
    BY <1>5 DEF FindEmptySlot
  <2>2. \A i \in Nat : Call("find", call.book, i) \in Calls /\ Call("update", call.book, i) \in Calls
    BY <1>1, CallsAre DEF Ops
  <2>3. call.index \in Nat
    BY CallsAre
  <2>4. SimMoves
    BY <2>1, <2>2, <2>3, AnswerMoves DEF Values, WriteContact
  <2> QED
    BY <1>0, <1>2, <2>1, <2>4 DEF HelperTypes
<1>6. ASSUME Updated PROVE Goal
  <2>1. SimMoves
    BY <1>6, AnswerMoves DEF Updated, Values
  <2> QED
    BY <1>0, <1>2, <1>6, <2>1 DEF Updated, HelperTypes
<1>7. ASSUME ReadRecord PROVE Goal
  <2>1. PICK call \in Answers("read") : ReadRecord!(call)
    BY <1>7 DEF ReadRecord
  <2>2. call.book \in Books /\ call.index \in 1..env.used
    BY <2>1, CallsAre
  <2>3. call.index < env.used => Call("read", call.book, call.index + 1) \in Calls
    BY <1>0, <1>1, <2>2 DEF Ops
  <2>0. \A new \in Inserted(call.index) : new \subseteq {call.index}
    BY DEF Inserted
  <2>4. SimMoves
    BY <2>1, <2>3, AnswerMoves DEF Values
  <2>5. UNCHANGED <<env, client, requests, loop, services>>
    BY <2>1
  <2>7. refused' \subseteq 1..env.used
    BY <1>0, <2>1, <2>2 DEF HelperTypes
  <2>6. /\ unstored' \subseteq 1..env.used /\ stored' \subseteq 1..env.used
        /\ lock' \in Threads \cup {Helper, None}
    <3>1. ASSUME NEW new \in Inserted(call.index), Insert(new), UNCHANGED lock
          PROVE  /\ unstored' \subseteq 1..env.used /\ stored' \subseteq 1..env.used
                 /\ lock' \in Threads \cup {Helper, None}
      BY <1>0, <2>0, <2>2, <3>1 DEF Insert, HelperTypes, SharedTypes
    <3>2. ASSUME NEW save, NEW more, more \subseteq 1..env.used, EndTrans(save, more)
          PROVE  /\ unstored' \subseteq 1..env.used /\ stored' \subseteq 1..env.used
                 /\ lock' \in Threads \cup {Helper, None}
      BY <1>0, <3>2 DEF EndTrans, HelperTypes, SharedTypes
    <3>3. /\ {} \subseteq 1..env.used
          /\ \A new \in Inserted(call.index) : LastOne(new) \subseteq 1..env.used
      BY <2>0, <2>2 DEF LastOne
    <3> QED
      BY <2>1, <3>1, <3>2, <3>3
  <2> QED
    BY <1>0, <2>4, <2>5, <2>6, <2>7 DEF BaseTyped, requests, HelperTypes, SharedTypes
<1>8. ASSUME ReadServiceNumber PROVE Goal
  <2>1. PICK call \in Answers("read") : ReadServiceNumber!(call)
    BY <1>8 DEF ReadServiceNumber
  <2>2. call.index \in Nat
    BY <2>1, CallsAre
  <2>3. Call("read", "SDN", call.index + 1) \in Calls
    BY <1>1, <2>2 DEF Ops, Books
  <2>4. SimMoves
    BY <2>1, <2>3, AnswerMoves DEF Values
  <2>5. services' \subseteq Nat
    BY <1>0, <2>1, <2>2 DEF InsertSDN, HelperTypes
  <2> QED
    BY <1>0, <2>1, <2>4, <2>5 DEF BaseTyped, records, requests, HelperTypes, SharedTypes
<1>9. ASSUME Database PROVE Goal
  <2>1. CASE BeginImport \/ UpdateCollation
    <3>1. UNCHANGED <<env, client, requests, up, sim, stored, services>> /\ loop' = "idle"
      BY <2>1 DEF BeginImport, UpdateCollation, wires, requests, base, records
    <3>2. /\ lock' \in Threads \cup {Helper, None} /\ unstored' \subseteq 1..env.used
          /\ refused' \subseteq 1..env.used
      BY <1>0, <2>1 DEF BeginImport, UpdateCollation, base, records, SharedTypes, HelperTypes
    <3> QED
      BY <1>0, <3>1, <3>2 DEF BaseTyped, SimMoves, SimTells, HelperTypes, SharedTypes, Sims, requests
  <2>2. CASE GiveUpImport
    <3>1. Finish(sim, "error") /\ loop' = "idle" /\ UNCHANGED <<env, client, requests, base>>
      BY <2>2 DEF GiveUpImport
    <3>2. SimMoves
      BY <1>0, <3>1, FinishMoves DEF Values, HelperTypes
    <3> QED
      BY <1>2, <3>1, <3>2
  <2> QED
    BY <1>9, <2>1, <2>2 DEF Database
<1>10. ASSUME ReadSDN PROVE Goal
  <2>1. UNCHANGED <<env, client, requests, up, lock, records, loop>>
    BY <1>10 DEF ReadSDN, wires, requests
  <2>2. services' \subseteq Nat
    BY <1>0, <1>10 DEF ReadSDN, DeleteSDN, HelperTypes
  <2>3. Register(sim) \in Sims /\ Register(sim).data = sim.data
    BY <1>0, SimOperators DEF HelperTypes
  <2>4. Call("read", "SDN", 1) \in Calls
    BY <1>1 DEF Ops, Books
  <2>5. /\ Deregister(Register(sim)) \in Sims /\ Deregister(Register(sim)).data = sim.data
        /\ Post(Register(sim), Call("read", "SDN", 1)) \in Sims
        /\ Post(Register(sim), Call("read", "SDN", 1)).data = sim.data
    BY <2>3, <2>4, SimOperators
  <2>6. sim' \in Sims /\ sim'.data = sim.data
    BY <1>0, <1>10, <2>3, <2>5 DEF ReadSDN, HelperTypes
  <2> QED
    BY <1>0, <2>1, <2>2, <2>6 DEF BaseTyped, SimMoves, SimTells, records, requests,
       HelperTypes, SharedTypes
<1>11. ASSUME RegionChanged PROVE Goal
  <2>1. UNCHANGED <<env, client, requests, up, base, sim>> /\ loop' = "collate"
    BY <1>11 DEF RegionChanged, wires, requests
  <2> QED
    BY <1>0, <1>2, <2>1 DEF SimMoves, SimTells, HelperTypes, SharedTypes
<1> QED
  BY <1>3, <1>4, <1>5, <1>6, <1>7, <1>8, <1>9, <1>10, <1>11 DEF Telephony

\* How a request is answered: at once, or by the SIM operation it starts.
Answering(p) ==
  \/ /\ \E val \in Values, sizes \in Attachments : Reply(p, val, sizes)
     /\ sim'.data = sim.data
  \/ UNCHANGED up /\ sim.data = None /\ sim'.data = p

LEMMA StartMoves ==
  ASSUME Types, NEW p \in Procs, NEW first \in Calls, StartSim(p, first)
  PROVE  sim' \in Sims /\ up' \in [Procs -> Seq(Replies)] /\ Answering(p)
<1>1. sim \in Sims /\ up \in [Procs -> Seq(Replies)] /\ <<>> \in Attachments
  BY DEF Types, HelperTypes, SharedTypes, Attachments
<1>2. Register(sim) \in Sims /\ Register(sim).data = sim.data
  BY <1>1, SimOperators
<1>3. ASSUME NEW val \in Values, Reply(p, val, <<>>), sim' \in Sims, sim'.data = sim.data
      PROVE  sim' \in Sims /\ up' \in [Procs -> Seq(Replies)] /\ Answering(p)
  BY <1>1, <1>3, ReplyTyped DEF Answering
<1>4. CASE sim.data # None
  BY <1>1, <1>3, <1>4 DEF StartSim, Values
<1>5. CASE sim.data = None /\ UNCHANGED up /\ sim' = [Post(Register(sim), first) EXCEPT !.data = p]
  <2>1. Post(Register(sim), first) \in Sims
    BY <1>2, SimOperators
  <2>2. sim' \in Sims /\ sim'.data = p
    BY <1>5, <2>1, SimOperators
  <2> QED
    BY <1>1, <1>5, <2>2 DEF Answering
<1>6. CASE Reply(p, "error", <<>>) /\ sim' = Deregister(Register(sim))
  <2>1. sim' \in Sims /\ sim'.data = sim.data
    BY <1>2, <1>6, SimOperators
  <2> QED
    BY <1>3, <1>6, <2>1 DEF Values
<1> QED
  BY <1>4, <1>5, <1>6 DEF StartSim

\* A request is answered, or it is never.
Handled(p) ==
  \/ Answering(p) /\ UNCHANGED unread
  \/ unread' = unread \cup {p} /\ UNCHANGED up /\ sim'.data = sim.data

LEMMA HandleMoves ==
  ASSUME Types, NEW p \in Procs, Handle(p)
  PROVE  /\ Types' /\ UNCHANGED client
         /\ ~Fault("collate") => Handled(p)
<1> USE ConstantsAssumption DEF ConstantsAssumption
<1>0. HelperTypes /\ SharedTypes /\ sim \in Sims /\ up[p] \in Seq(Replies) /\ <<>> \in Attachments
  BY DEF Types, HelperTypes, SharedTypes, Attachments
<1>1. BaseTyped
  BY <1>0 DEF Handle, HandleStr, HandleName, HandleImport, HandleExport, Unreadable, Read, BaseTyped,
     base, records, HelperTypes, SharedTypes
<1> DEFINE Good == /\ sim' \in Sims /\ up' \in [Procs -> Seq(Replies)]
                   /\ ~Fault("collate") => Handled(p)
<1>2. ASSUME NEW val \in Values, NEW sizes \in Attachments, Reply(p, val, sizes),
             UNCHANGED <<env, sim, unread>>
      PROVE  Good
  <2>1. up' \in [Procs -> Seq(Replies)]
    BY <1>2, ReplyTyped
  <2>2. sim' \in Sims /\ sim'.data = sim.data
    BY <1>0, <1>2 DEF Sims, Calls
  <2> QED
    BY <1>2, <2>1, <2>2 DEF Answering, Handled
<1>9. ASSUME Unreadable(p), UNCHANGED <<env, sim>>
      PROVE  Good
  <2>1. sim' \in Sims
    BY <1>0, <1>9 DEF Sims, Calls
  <2> QED
    BY <1>0, <1>9, <2>1 DEF Unreadable, Handled, SharedTypes
<1>3. ASSUME HandleStr(p) PROVE Good
  <2>1. \A n \in Texts : <<n>> \in Attachments
    BY DEF Attachments
  <2> QED
    BY <1>0, <1>2, <1>3, <1>9, <2>1 DEF HandleStr, Values
<1>4. ASSUME HandleName(p) PROVE Good
  <2>1. \A n, a : a \in Normalised(n) => a \in Nat
    BY DEF Normalised
  <2>2. \A a, b, c \in Nat : <<a, b, c>> \in Attachments
    BY DEF Attachments
  <2>3. UNCHANGED <<env, sim>>
    BY <1>4 DEF HandleName
  <2>4. ASSUME NEW a \in Nat, NEW b \in Nat, NEW c \in Nat, Fault("collate"),
               up' = [up EXCEPT ![p] = @ \o Message("return", "error", <<>>)
                                         \o Message("return", "ok", <<a, b, c>>)]
        PROVE  Good
    <3> DEFINE m == Message("return", "error", <<>>)
               n == Message("return", "ok", <<a, b, c>>)
    <3>1. m \in Seq(Replies) /\ n \in Seq(Replies)
      BY <1>0, <2>2, MessageTyped DEF Values
    <3>2. up' = [up EXCEPT ![p] = up[p] \o m \o n]
      BY <2>4
    <3> HIDE DEF m, n
    <3>3. up[p] \o m \in Seq(Replies)
      BY <1>0, <3>1, ConcatProperties
    <3>4. up[p] \o m \o n \in Seq(Replies)
      BY <3>1, <3>3, ConcatProperties
    <3>5. up' \in [Procs -> Seq(Replies)]
      BY <1>0, <3>2, <3>4 DEF SharedTypes
    <3>6. sim' \in Sims
      BY <1>0, <2>3 DEF Sims, Calls
    <3> QED
      BY <2>4, <3>5, <3>6
  <2>5. \/ Unreadable(p)
        \/ UNCHANGED unread /\ \E val \in Values, sizes \in Attachments : Reply(p, val, sizes)
        \/ \E a, b, c \in Nat :
             /\ Fault("collate")
             /\ up' = [up EXCEPT ![p] = @ \o Message("return", "error", <<>>)
                                          \o Message("return", "ok", <<a, b, c>>)]
    <3>1. CASE Reply(p, "error", <<>>) /\ UNCHANGED unread
      BY <1>0, <3>1 DEF Values
    <3>2. ASSUME NEW a \in Nat, NEW b \in Nat, NEW c \in Nat, Reply(p, "ok", <<a, b, c>>)
          PROVE  \E val \in Values, sizes \in Attachments : Reply(p, val, sizes)
      BY <2>2, <3>2 DEF Values
    <3> QED
      BY <1>4, <2>1, <3>1, <3>2 DEF HandleName
  <2> QED
    BY <1>2, <1>9, <2>3, <2>4, <2>5
<1>5. \A op \in {"count", "meta"} : Call(op, env.card, 0) \in Calls
  BY <1>0 DEF Call, Calls, Ops, Books, HelperTypes
<1>6. ASSUME HandleImport(p) PROVE Good
  <2>1. CASE StartSim(p, Call("count", env.card, 0))
    BY <1>5, <1>6, <2>1, StartMoves DEF HandleImport, Handled
  <2>2. CASE sim.data = None /\ sim' = [Register(sim) EXCEPT !.data = p] /\ UNCHANGED up
    <3>1. Register(sim) \in Sims
      BY <1>0, SimOperators
    <3>2. sim' \in Sims /\ sim'.data = p
      BY <2>2, <3>1, SimOperators
    <3> QED
      BY <1>0, <1>6, <2>2, <3>2 DEF Answering, Handled, HandleImport, SharedTypes
  <2> QED
    BY <1>6, <2>1, <2>2 DEF HandleImport, StartRead
<1>7. ASSUME HandleExport(p) PROVE Good
  BY <1>5, <1>7, <1>9, StartMoves DEF HandleExport, StartWrite, Handled
<1>8. Good
  BY <1>3, <1>4, <1>6, <1>7 DEF Handle
<1> QED
  BY <1>1, <1>8, MovesTyped DEF BaseTyped

-----------------------------------------------------------------------------
(* Every step keeps the protocol. *)

\* A process that the step does not concern.
LEMMA OtherKeeps ==
  ASSUME NEW q \in Procs, Silent(q) \/ Engaged(q),
         holder'[q] = holder[q], holder[q] # None => pc'[holder[q]] = pc[holder[q]],
         down'[q] = down[q], up'[q] = up[q], sim'.data = q <=> sim.data = q,
         q \in unread' <=> q \in unread
  PROVE  (Silent(q) \/ Engaged(q))'
<1> USE ConstantsAssumption DEF ConstantsAssumption
<1>1. CASE Silent(q)
  BY <1>1 DEF Silent
<1>2. CASE Engaged(q)
  <2>1. Asked(q) => Asked(q)'
    BY DEF Asked
  <2>2. AtSim(q) => AtSim(q)'
    BY DEF AtSim
  <2>3. Told(q) => Told(q)'
    BY DEF Told
  <2>5. Dropped(q) => Dropped(q)'
    BY DEF Dropped
  <2>4. holder[q] # None
    BY <1>2 DEF Engaged
  <2> QED
    BY <1>2, <2>1, <2>2, <2>3, <2>4, <2>5 DEF Engaged, Waits
<1> QED
  BY <1>1, <1>2

LEMMA HandleProtocol ==
  ASSUME RInv, NEW p \in Procs, Handle(p), ~Fault("collate")
  PROVE  Protocol'
<1> USE ConstantsAssumption DEF ConstantsAssumption
<1>0. Types /\ Protocol /\ SharedTypes /\ sim \in Sims
  BY DEF RInv, Types, HelperTypes
<1>1. UNCHANGED <<pc, holder>> /\ Handled(p)
  BY <1>0, HandleMoves DEF client
<1>2. \E type \in Requests : Requested(p, type)
  BY DEF Handle, HandleStr, HandleName, HandleImport, HandleExport, Requests
<1>3. Engaged(p) /\ Asked(p)
  BY <1>0, <1>2 DEF Protocol, Engaged, Silent, AtSim, Told, Dropped, Requested
<1>4. PICK type \in Requests, sizes \in Attachments :
        Len(sizes) = Parts(type) /\ down[p] = Message(type, "none", sizes)
  BY <1>3 DEF Asked
<1>5. Head(down[p]) = Header(type, "none", sizes)
  BY <1>4, MessageShape
<1>6. Head(down[p]).type = type /\ Head(down[p]).sizes = sizes
  BY <1>5 DEF Header
<1>7. sizes \in Seq(Nat) /\ Total(sizes) \in Nat
  BY TotalIsNat DEF Attachments
<1>8. down' = [down EXCEPT ![p] = <<>>]
  <2>1. ASSUME Read(p, 1 + Total(sizes))
        PROVE  down' = [down EXCEPT ![p] = <<>>]
    <3>1. SubSeq(down[p], Total(sizes) + 2, Len(down[p])) = <<>>
      BY <1>4, MessageRead
    <3>2. (1 + Total(sizes)) + 1 = Total(sizes) + 2
      BY <1>7
    <3> QED
      BY <2>1, <3>1, <3>2 DEF Read
  <2>2. CASE HandleStr(p)
    <3>1. type = "str"
      BY <1>6, <2>2 DEF HandleStr, Requested
    <3>2. Total(sizes) = sizes[1]
      BY <1>4, <3>1, OnePart DEF Parts
    <3> QED
      BY <1>6, <2>1, <2>2, <3>2 DEF HandleStr
  <2>3. CASE HandleName(p)
    <3>1. type = "name"
      BY <1>6, <2>3 DEF HandleName, Requested
    <3>2. \A i \in {1, 2} : Unread(sizes, i) = 0
      BY <1>4, <3>1, NoneUnread DEF Parts
    <3>3. 1 + Total(sizes) - 0 = 1 + Total(sizes)
      BY <1>7
    <3>4. Read(p, 1 + Total(sizes))
      BY <1>6, <2>3, <3>2, <3>3 DEF HandleName
    <3> QED
      BY <2>1, <3>4
  <2>4. CASE HandleImport(p)
    <3>1. type = "import"
      BY <1>6, <2>4 DEF HandleImport, Requested
    <3>2. Total(sizes) = 0
      BY <1>4, <1>7, <3>1 DEF Total, Parts
    <3>3. Read(p, 1)
      BY <2>4 DEF HandleImport
    <3> QED
      BY <2>1, <3>2, <3>3
  <2>5. CASE HandleExport(p)
    <3>1. type = "export"
      BY <1>6, <2>5 DEF HandleExport, Requested
    <3>2. Total(sizes) = sizes[1]
      BY <1>4, <3>1, OnePart DEF Parts
    <3> QED
      BY <1>6, <2>1, <2>5, <3>2 DEF HandleExport
  <2> QED
    BY <2>2, <2>3, <2>4, <2>5 DEF Handle
<1>9. down'[p] = <<>> /\ \A q \in Procs \ {p} : down'[q] = down[q]
  BY <1>0, <1>8 DEF SharedTypes
<1>10. up[p] = <<>> /\ sim.data # p /\ p \notin unread
  BY <1>3 DEF Asked
<1>11. \A q \in Procs \ {p} : /\ up'[q] = up[q] /\ (sim'.data = q <=> sim.data = q)
                              /\ q \in unread' <=> q \in unread
  <2>1. CASE /\ sim'.data = sim.data /\ UNCHANGED unread
             /\ \E val \in Values, s \in Attachments : Reply(p, val, s)
    BY <1>0, <2>1 DEF Reply, SharedTypes
  <2>2. CASE UNCHANGED <<up, unread>> /\ sim.data = None /\ sim'.data = p
    BY <2>2
  <2>3. CASE unread' = unread \cup {p} /\ UNCHANGED up /\ sim'.data = sim.data
    BY <2>3
  <2> QED
    BY <1>1, <2>1, <2>2, <2>3 DEF Handled, Answering
<1>12. AtSim(p)' \/ Told(p)' \/ Dropped(p)'
  <2>1. ASSUME NEW val \in Values, NEW s \in Attachments, Reply(p, val, s),
               sim'.data = sim.data, UNCHANGED unread
        PROVE  Told(p)'
    <3>1. up'[p] = <<>> \o Message("return", val, s)
      BY <1>0, <1>10, <2>1 DEF Reply, SharedTypes
    <3>2. up'[p] = Message("return", val, s)
      BY <3>1, MessageIsFirst
    <3> QED
      BY <1>9, <1>10, <2>1, <3>2 DEF Told
  <2>2. CASE UNCHANGED <<up, unread>> /\ sim.data = None /\ sim'.data = p
    BY <1>9, <1>10, <2>2 DEF AtSim
  <2>3. CASE unread' = unread \cup {p} /\ UNCHANGED up /\ sim'.data = sim.data
    BY <1>9, <1>10, <2>3 DEF Dropped
  <2> QED
    BY <1>1, <2>1, <2>2, <2>3 DEF Handled, Answering
<1>13. Engaged(p)'
  BY <1>1, <1>3, <1>12 DEF Engaged, Waits
<1>14. ASSUME NEW q \in Procs \ {p}
       PROVE  (Silent(q) \/ Engaged(q))'
  <2>1. /\ up'[q] = up[q] /\ (sim'.data = q <=> sim.data = q)
        /\ q \in unread' <=> q \in unread
    BY <1>11
  <2> QED
    BY <1>0, <1>1, <1>9, <2>1, OtherKeeps DEF Protocol
<1>15. Waiters'
  BY <1>0, <1>1 DEF Protocol, Waiters, Waits
<1> QED
  BY <1>13, <1>14, <1>15 DEF Protocol

LEMMA EventProtocol ==
  ASSUME RInv, SimTells, UNCHANGED <<client, requests>>
  PROVE  Protocol'
<1> USE ConstantsAssumption DEF ConstantsAssumption
<1>0. Types /\ Protocol /\ SharedTypes /\ sim \in Sims
  BY DEF RInv, Types, HelperTypes
<1>1. UNCHANGED <<pc, holder, down, unread>>
  BY DEF client, requests
<1>2. Waiters'
  BY <1>0, <1>1 DEF Protocol, Waiters, Waits
<1>3. CASE UNCHANGED up /\ sim'.data = sim.data
  <2>1. \A q \in Procs : (Silent(q) \/ Engaged(q))'
    BY <1>0, <1>1, <1>3, OtherKeeps DEF Protocol
  <2> QED
    BY <1>2, <2>1 DEF Protocol
<1>4. ASSUME sim.data # None, sim'.data = None, NEW val \in Values, Reply(sim.data, val, <<>>)
      PROVE  Protocol'
  <2>0. PICK p \in Procs : p = sim.data
    BY <1>0, <1>4 DEF Sims
  <2>1. <<>> \in Attachments
    BY DEF Attachments
  <2>2. Engaged(p) /\ AtSim(p)
    BY <1>0, <2>0 DEF Protocol, Engaged, Silent, Asked, Told, Dropped
  <2>3. up'[p] = <<>> \o Message("return", val, <<>>)
    BY <1>0, <1>4, <2>0, <2>2 DEF Reply, SharedTypes, AtSim
  <2>4. up'[p] = Message("return", val, <<>>)
    BY <2>1, <2>3, MessageIsFirst
  <2>5. down'[p] = <<>> /\ sim'.data # p /\ p \notin unread'
    BY <1>1, <1>4, <2>2 DEF AtSim
  <2>6. Engaged(p)'
    <3>1. Told(p)'
      BY <2>1, <2>4, <2>5 DEF Told
    <3> QED
      BY <1>1, <2>2, <3>1 DEF Engaged, Waits
  <2>7. \A q \in Procs \ {p} : up'[q] = up[q] /\ (sim'.data = q <=> sim.data = q)
    BY <1>0, <1>4, <2>0 DEF Reply, SharedTypes
  <2>8. \A q \in Procs \ {p} : (Silent(q) \/ Engaged(q))'
    BY <1>0, <1>1, <2>7, OtherKeeps DEF Protocol
  <2> QED
    BY <1>2, <2>6, <2>8 DEF Protocol
<1> QED
  BY <1>3, <1>4 DEF SimTells

\* A thread that takes the mutex finds the streams empty.
LEMMA AskProtocol ==
  ASSUME RInv, NEW t \in Threads, NEW type \in Requests, NEW sizes \in Attachments,
         Len(sizes) = Parts(type), Ask(t, type, sizes)
  PROVE  Protocol'
<1> USE ConstantsAssumption DEF ConstantsAssumption
<1> DEFINE p == ProcOf[t]
<1>0. /\ Types /\ Protocol /\ ClientTypes /\ SharedTypes /\ p \in Procs
  BY DEF RInv, Types
<1>1. /\ holder[p] = None /\ holder' = [holder EXCEPT ![p] = t]
      /\ down' = [down EXCEPT ![p] = @ \o Message(type, "none", sizes)]
      /\ pc' = [pc EXCEPT ![t] = "waiting"] /\ UNCHANGED <<up, unread, sim>>
  BY DEF Ask
<1>2. Silent(p)
  BY <1>0, <1>1 DEF Protocol, Engaged
<1>3. holder'[p] = t /\ \A q \in Procs \ {p} : holder'[q] = holder[q] /\ down'[q] = down[q]
  BY <1>0, <1>1 DEF ClientTypes, SharedTypes
<1>4. pc'[t] = "waiting" /\ \A u \in Threads \ {t} : pc'[u] = pc[u]
  BY <1>0, <1>1 DEF ClientTypes
<1>5. down'[p] = Message(type, "none", sizes)
  <2>1. down'[p] = <<>> \o Message(type, "none", sizes)
    BY <1>0, <1>1, <1>2 DEF SharedTypes, Silent
  <2> QED
    BY <2>1, MessageIsFirst
<1>6. Asked(p)'
  BY <1>1, <1>2, <1>5 DEF Asked, Silent
<1>7. Engaged(p)'
  BY <1>3, <1>4, <1>6 DEF Engaged, Waits
<1>8. ASSUME NEW q \in Procs \ {p}
      PROVE  (Silent(q) \/ Engaged(q))'
  <2>1. holder[q] # t
    BY <1>0, <1>2, <1>8 DEF Protocol, Engaged, Silent
  <2>2. holder[q] # None => pc'[holder[q]] = pc[holder[q]]
    BY <1>0, <1>4, <2>1 DEF ClientTypes
  <2> QED
    BY <1>0, <1>1, <1>3, <2>2, OtherKeeps DEF Protocol
<1>9. Waiters'
  <2>1. ASSUME NEW u \in Threads
        PROVE  pc'[u] # "lost" /\ (pc'[u] = "waiting" => holder'[ProcOf[u]] = u)
    <3>1. CASE u = t
      BY <1>3, <1>4, <3>1
    <3>2. CASE u # t
      <4>1. pc[u] = "waiting" => ProcOf[u] # p
        BY <1>0, <1>1, <3>2 DEF Protocol, Waiters, Waits
      <4> QED
        BY <1>0, <1>3, <1>4, <3>2, <4>1 DEF Protocol, Waiters, Waits
    <3> QED
      BY <3>1, <3>2
  <2> QED
    BY <2>1 DEF Waiters, Waits
<1> QED
  BY <1>7, <1>8, <1>9 DEF Protocol

\* The waiting thread finds its whole reply and leaves nothing behind.
LEMMA ReceiveProtocol ==
  ASSUME RInv, NEW t \in Threads, Receive(t)
  PROVE  Protocol'
<1> USE ConstantsAssumption DEF ConstantsAssumption
<1> DEFINE p == ProcOf[t]
<1>0. /\ Types /\ Protocol /\ ClientTypes /\ SharedTypes /\ p \in Procs
  BY DEF RInv, Types
<1>1. pc[t] = "waiting" /\ up[p] # <<>>
  BY DEF Receive
<1>2. holder[p] = t
  BY <1>0, <1>1 DEF Protocol, Waiters, Waits
<1>3. Told(p)
  BY <1>0, <1>1, <1>2 DEF Protocol, Silent, Engaged, Asked, AtSim, Dropped
<1>4. PICK val \in Values, sizes \in Attachments : up[p] = Message("return", val, sizes)
  BY <1>3 DEF Told
<1>5. Head(up[p]) = Header("return", val, sizes)
  BY <1>4, MessageShape
<1>6. Head(up[p]).kind = "header" /\ Head(up[p]).sizes = sizes
  BY <1>5 DEF Header
<1>7. /\ up' = [up EXCEPT ![p] = SubSeq(up[p], Total(sizes) + 2, Len(up[p]))]
      /\ pc' = [pc EXCEPT ![t] = pc'[t]] /\ pc'[t] \in {"saving", "idle"}
      /\ holder' = [holder EXCEPT ![p] = None] /\ UNCHANGED <<down, unread, sim>>
  <2>1. Taken(req[t], Head(up[p]).sizes) = Total(sizes)
    BY <1>6, AllTaken
  <2> QED
    BY <1>0, <1>6, <2>1 DEF Receive, ClientTypes, requests
<1>8. up'[p] = <<>>
  BY <1>0, <1>4, <1>7, MessageRead DEF SharedTypes
<1>9. holder'[p] = None /\ \A q \in Procs \ {p} : holder'[q] = holder[q] /\ up'[q] = up[q]
  BY <1>0, <1>7 DEF ClientTypes, SharedTypes
<1>10. \A u \in Threads \ {t} : pc'[u] = pc[u]
  BY <1>0, <1>7 DEF ClientTypes
<1>11. Silent(p)'
  BY <1>3, <1>7, <1>8, <1>9 DEF Silent, Told
<1>12. ASSUME NEW q \in Procs \ {p}
       PROVE  (Silent(q) \/ Engaged(q))'
  <2>1. holder[q] # t
    BY <1>0, <1>12 DEF Protocol, Silent, Engaged
  <2>2. holder[q] # None => pc'[holder[q]] = pc[holder[q]]
    BY <1>0, <1>10, <2>1 DEF ClientTypes
  <2> QED
    BY <1>0, <1>7, <1>9, <2>2, OtherKeeps DEF Protocol
<1>13. Waiters'
  <2>1. ASSUME NEW u \in Threads
        PROVE  pc'[u] # "lost" /\ (pc'[u] = "waiting" => holder'[ProcOf[u]] = u)
    <3>1. CASE u = t
      BY <1>7, <3>1
    <3>2. CASE u # t
      <4>1. pc[u] = "waiting" => ProcOf[u] # p
        BY <1>0, <1>2, <3>2 DEF Protocol, Waiters, Waits
      <4> QED
        BY <1>0, <1>9, <1>10, <3>2, <4>1 DEF Protocol, Waiters, Waits
    <3> QED
      BY <3>1, <3>2
  <2> QED
    BY <2>1 DEF Waiters, Waits
<1> QED
  BY <1>11, <1>12, <1>13 DEF Protocol

LEMMA CallerProtocol ==
  ASSUME RInv, NEW t \in Threads, Caller(t)
  PROVE  Protocol'
<1> USE ConstantsAssumption DEF ConstantsAssumption
<1>0. Protocol /\ ClientTypes
  BY DEF RInv, Types
<1>1. CASE ImportSim(t) \/ ExportSim(t) \/ NormalizeStr(t) \/ NormalizeName(t)
  <2>1. <<>> \in Attachments /\ Len(<<>>) = Parts("import")
    BY DEF Attachments, Parts
  <2>2. \A n \in Nat : /\ <<n>> \in Attachments
                       /\ Len(<<n>>) = Parts("export") /\ Len(<<n>>) = Parts("str")
    BY DEF Attachments, Parts
  <2>3. \A a, b, c \in Nat : <<a, b, c>> \in Attachments /\ Len(<<a, b, c>>) = Parts("name")
    BY DEF Attachments, Parts
  <2>4. PICK type \in Requests, sizes \in Attachments :
          Len(sizes) = Parts(type) /\ Ask(t, type, sizes)
    BY <1>1, <2>1, <2>2, <2>3 DEF ImportSim, ExportSim, NormalizeStr, NormalizeName, Requests
  <2> QED
    BY <2>4, AskProtocol
<1>2. CASE Receive(t)
  BY <1>2, ReceiveProtocol
<1>3. CASE StartInsert(t) \/ NormalizeNoName(t) \/ EndInsert(t)
  <2>1. /\ UNCHANGED <<holder, wires, sim>> /\ pc' = [pc EXCEPT ![t] = pc'[t]]
        /\ pc[t] # "waiting" /\ pc'[t] \notin {"waiting", "lost"}
    BY <1>0, <1>3 DEF StartInsert, MayCall, NormalizeNoName, EndInsert, ClientTypes
  <2>2. UNCHANGED <<up, down, unread>> /\ \A u \in Threads \ {t} : pc'[u] = pc[u]
    BY <1>0, <2>1 DEF ClientTypes, wires, requests
  <2>3. Waiters'
    BY <1>0, <2>1, <2>2 DEF Protocol, Waiters, Waits
  <2>4. ASSUME NEW q \in Procs
        PROVE  (Silent(q) \/ Engaged(q))'
    <3>1. holder[q] # t \/ holder[q] = None
      BY <1>0, <2>1 DEF Protocol, Silent, Engaged, Waits
    <3>2. holder[q] # None => pc'[holder[q]] = pc[holder[q]]
      BY <1>0, <2>2, <3>1 DEF ClientTypes
    <3> QED
      BY <1>0, <2>1, <2>2, <3>2, OtherKeeps DEF Protocol
  <2> QED
    BY <2>3, <2>4 DEF Protocol
<1> QED
  BY <1>1, <1>2, <1>3 DEF Caller

-----------------------------------------------------------------------------
(* The theorems. *)

LEMMA InitTyped == Init => Types
<1> USE ConstantsAssumption DEF ConstantsAssumption
<1> SUFFICES ASSUME Init PROVE Types
  OBVIOUS
<1>1. [data |-> None, count |-> 0, pending |-> {}] \in Sims
  BY DEF Sims
<1>2. HelperTypes
  BY <1>1 DEF Init, HelperTypes
<1>3. ClientTypes
  BY DEF Init, ClientTypes
<1>4. [p \in Procs |-> <<>>] \in [Procs -> Seq(Replies)]
  BY EmptySeq
<1>5. SharedTypes
  BY <1>4 DEF Init, SharedTypes
<1> QED
  BY <1>2, <1>3, <1>5 DEF Types

LEMMA InitProtocol == Init => Protocol
<1> USE ConstantsAssumption DEF ConstantsAssumption
<1> SUFFICES ASSUME Init PROVE Protocol
  OBVIOUS
<1>1. sim.data = None
  BY DEF Init
<1>2. \A p \in Procs : Silent(p)
  BY <1>1 DEF Init, Silent
<1>3. Waiters
  BY DEF Init, Waiters, Waits
<1> QED
  BY <1>2, <1>3 DEF Protocol

LEMMA StepTyped ==
  ASSUME Types, [Next]_vars
  PROVE  Types'
<1>1. CASE UNCHANGED vars
  BY <1>1 DEF vars, client, wires, requests, base, records, Types, HelperTypes, ClientTypes, SharedTypes, Sims, Calls
<1>2. CASE Telephony \/ Database \/ ReadSDN \/ RegionChanged
  BY <1>2, EventMoves, MovesTyped DEF SimMoves
<1> QED
  BY <1>1, <1>2, CallerTyped, HandleMoves DEF Next

LEMMA StepProtocol ==
  ASSUME CollationWorks, RInv, [Next]_vars
  PROVE  Protocol'
<1>1. CASE UNCHANGED vars
  <2>1. UNCHANGED <<client, requests>> /\ SimTells
    BY <1>1 DEF vars, wires, requests, SimTells
  <2> QED
    BY <2>1, EventProtocol
<1>2. CASE Telephony \/ Database \/ ReadSDN \/ RegionChanged
  <2>1. UNCHANGED <<client, requests>> /\ SimTells
    BY <1>2, EventMoves DEF RInv, SimMoves, BaseTyped
  <2> QED
    BY <2>1, EventProtocol
<1>3. ASSUME NEW p \in Procs, Handle(p)
      PROVE  Protocol'
  <2>1. ~Fault("collate")
    BY DEF CollationWorks, RInv, Types, HelperTypes, Fault
  <2> QED
    BY <1>3, <2>1, HandleProtocol
<1> QED
  BY <1>1, <1>2, <1>3, CallerProtocol DEF Next

\* Whatever fails and however requests, TAPI's answers and setting changes
\* interleave, only typed values reach the callers, the statics of helper/sim.c
\* and the database, and SIM records keep to the slots of the card.
THEOREM HelperIsTyped == Spec => []TypeOK
<1>1. Init => Types
  BY InitTyped
<1>2. Types /\ [Next]_vars => Types'
  BY StepTyped
<1>3. Types => TypeOK
  <2>1. sim \in Sims => sim.data \in Procs \cup {None} /\ sim.count \in Int
    BY DEF Sims
  <2> QED
    BY <2>1 DEF Types, TypeOK, HelperTypes, ClientTypes, SharedTypes
<1> QED
  BY <1>1, <1>2, <1>3, PTL DEF Spec

\* What the invariant says of the streams and of who waits.
LEMMA MessagesAreWhole ==
  ASSUME NEW type, NEW val, NEW sizes \in Attachments
  PROVE  LET m == Message(type, val, sizes) IN
         Whole(m) /\ Headers(m) = {1}
<1> DEFINE m == Message(type, val, sizes)
<1>1. /\ Len(m) = 1 + Total(sizes) /\ m[1] = Header(type, val, sizes)
      /\ m \in Seq({Header(type, val, sizes), Byte}) /\ \A i \in 2..Len(m) : m[i] = Byte
  BY MessageShape, ZenonT(60)
<1>2. Total(sizes) \in Nat
  BY TotalIsNat
<1> HIDE DEF m
<1>0. DOMAIN m = 1..Len(m)
  BY <1>1, LenProperties
<1>3. m[1].kind = "header" /\ m[1].sizes = sizes
  BY <1>1 DEF Header
<1>4. Whole(m)
  BY <1>1, <1>3 DEF Whole
<1>5. Headers(m) = {1}
  <2>1. 1 \in Headers(m)
    BY <1>0, <1>1, <1>2, <1>3 DEF Headers
  <2>2. \A i \in Headers(m) : i = 1
    BY <1>0, <1>1, <1>2 DEF Headers, Byte
  <2> QED
    BY <2>1, <2>2
<1> QED
  BY <1>4, <1>5 DEF m

LEMMA NothingIsWhole == Whole(<<>>) /\ Headers(<<>>) = {}
  BY DEF Whole, Headers

LEMMA InStep ==
  ASSUME RInv
  PROVE  RepliesInStep
<1> USE ConstantsAssumption DEF ConstantsAssumption
<1> SUFFICES ASSUME NEW p \in Procs
             PROVE  /\ Whole(down[p]) /\ Whole(up[p])
                    /\ Cardinality(Headers(down[p])) + Cardinality(Headers(up[p]))
                         + (IF sim.data = p THEN 1 ELSE 0) + (IF p \in unread THEN 1 ELSE 0)
                       = Cardinality({t \in Threads : ProcOf[t] = p /\ pc[t] = "waiting"})
                    /\ \A t \in Threads : ProcOf[t] = p /\ pc[t] = "waiting" => holder[p] = t
  BY DEF RepliesInStep
<1> DEFINE W == {t \in Threads : ProcOf[t] = p /\ pc[t] = "waiting"}
<1>1. \A t \in W : holder[p] = t
  BY DEF RInv, Protocol, Waiters, Waits
<1>2. Cardinality({}) = 0 /\ \A x : Cardinality({x}) = 1
  BY FS_EmptySet, FS_Singleton
<1>3. CASE Silent(p)
  <2>1. W = {}
    BY <1>1, <1>3 DEF Silent
  <2>2. /\ Whole(down[p]) /\ Whole(up[p]) /\ sim.data # p /\ p \notin unread
        /\ Headers(down[p]) = {} /\ Headers(up[p]) = {}
    BY <1>3, NothingIsWhole DEF Silent
  <2>3. Cardinality(W) = 0 /\ Cardinality(Headers(down[p])) = 0 /\ Cardinality(Headers(up[p])) = 0
    BY <1>2, <2>1, <2>2
  <2> QED
    BY <1>1, <2>2, <2>3
<1>4. CASE Engaged(p)
  <2>1. W = {holder[p]}
    BY <1>1, <1>4 DEF Engaged, Waits
  <2>2. Cardinality(W) = 1
    BY <1>2, <2>1
  <2>3. CASE Asked(p)
    <3>1. PICK type \in Requests, sizes \in Attachments : down[p] = Message(type, "none", sizes)
      BY <2>3 DEF Asked
    <3>2. /\ Whole(down[p]) /\ Headers(down[p]) = {1} /\ sim.data # p /\ p \notin unread
          /\ Whole(up[p]) /\ Headers(up[p]) = {}
      BY <2>3, <3>1, MessagesAreWhole, NothingIsWhole DEF Asked
    <3>3. Cardinality(Headers(down[p])) = 1 /\ Cardinality(Headers(up[p])) = 0
      BY <1>2, <3>2
    <3> QED
      BY <1>1, <2>2, <3>2, <3>3
  <2>4. CASE AtSim(p)
    <3>1. /\ Whole(down[p]) /\ Headers(down[p]) = {} /\ sim.data = p /\ p \notin unread
          /\ Whole(up[p]) /\ Headers(up[p]) = {}
      BY <2>4, NothingIsWhole DEF AtSim
    <3>2. Cardinality(Headers(down[p])) = 0 /\ Cardinality(Headers(up[p])) = 0
      BY <1>2, <3>1
    <3> QED
      BY <1>1, <2>2, <3>1, <3>2
  <2>6. CASE Dropped(p)
    <3>1. /\ Whole(down[p]) /\ Headers(down[p]) = {} /\ sim.data # p /\ p \in unread
          /\ Whole(up[p]) /\ Headers(up[p]) = {}
      BY <2>6, NothingIsWhole DEF Dropped
    <3>2. Cardinality(Headers(down[p])) = 0 /\ Cardinality(Headers(up[p])) = 0
      BY <1>2, <3>1
    <3> QED
      BY <1>1, <2>2, <3>1, <3>2
  <2>5. CASE Told(p)
    <3>1. PICK val \in Values, sizes \in Attachments : up[p] = Message("return", val, sizes)
      BY <2>5 DEF Told
    <3>2. /\ Whole(up[p]) /\ Headers(up[p]) = {1} /\ sim.data # p /\ p \notin unread
          /\ Whole(down[p]) /\ Headers(down[p]) = {}
      BY <2>5, <3>1, MessagesAreWhole, NothingIsWhole DEF Told
    <3>3. Cardinality(Headers(down[p])) = 0 /\ Cardinality(Headers(up[p])) = 1
      BY <1>2, <3>2
    <3> QED
      BY <1>1, <2>2, <3>2, <3>3
  <2> QED
    BY <1>4, <2>3, <2>4, <2>5, <2>6 DEF Engaged
<1> QED
  BY <1>3, <1>4 DEF RInv, Protocol

\* Every request the helper can read is answered once and every message is read
\* to its end: over any run the streams of a process and the SIM hold one request
\* for its thread that waits, unless its request is the one that could not be
\* read, and none when no thread waits (cts-socket.c and helper-socket.c).
THEOREM RepliesStayInStep == CollationWorks => (Spec => []RepliesInStep)
<1> SUFFICES ASSUME CollationWorks PROVE Spec => []RepliesInStep
  OBVIOUS
<1>1. Init => RInv
  BY InitTyped, InitProtocol DEF RInv
<1>2. RInv /\ [Next]_vars => RInv'
  BY StepTyped, StepProtocol DEF RInv
<1>3. RInv => RepliesInStep
  BY InStep
<1> QED
  BY <1>1, <1>2, <1>3, PTL DEF Spec
=============================================================================
