----------------------------- MODULE CtsHelper -----------------------------
(***************************************************************************)
(* The helper daemon (src/helper) and the processes that ask it to         *)
(* normalise names, import the SIM phone book and export a person to it    *)
(* (src/src/cts-socket.c).  The helper is one thread that runs a main      *)
(* loop: requests, answers of the telephony library (TAPI) and setting     *)
(* changes are its events.  The two directions of every connection are     *)
(* byte streams; the bytes of a text are all alike.                        *)
(***************************************************************************)
EXTENDS Integers, Sequences, FiniteSets

CONSTANTS
  Threads,      \* the threads of the client processes
  Procs,        \* the client processes
  ProcOf,       \* the process of a thread
  Helper,       \* the helper, as an owner of the database's write lock
  None,
  DestSize,     \* room for a text in the caller's buffer (CTS_SQL_MAX_LEN)
  Texts,        \* the lengths of texts
  MaxRequests,  \* calls a thread makes
  Scenarios     \* [card, used, asks, faults]: the SIM, what is asked, what may fail

ASSUME ConstantsAssumption ==
  /\ None \notin Threads \cup Procs \cup {Helper} /\ Helper \notin Threads
  /\ \A t \in Threads : ProcOf[t] \in Procs
  /\ \A s \in Scenarios : s.used \in Nat /\ s.card # "SDN"
  /\ DestSize \in Nat /\ Texts \subseteq Nat /\ MaxRequests \in Nat

VARIABLES
  env,      \* the scenario
  pc,       \* [thread -> what it is doing]
  req,      \* [thread -> the kind of the request it waits for]
  answer,   \* [thread -> the last value it was given]
  left,     \* [thread -> calls it may still make]
  holder,   \* [process -> thread that holds CTS_MUTEX_SOCKET_FD]
  down,     \* [process -> bytes on their way to the helper]
  up,       \* [process -> bytes on their way back]
  unread,   \* the processes whose request the helper could not read
  lock,     \* owner of the database's write lock
  loop,     \* "idle", or the call in which the helper's thread is
  sim,      \* the statics of helper/sim.c and the calls TAPI has not answered
  unstored, \* SIM records inserted in the open transaction
  refused,  \* SIM records whose insertion failed in the last import
  stored,   \* SIM records in the database
  services, \* service dialling numbers in the database
  events    \* setting changes that may still happen

client == <<pc, req, answer, left, holder>>
requests == <<down, unread>>
wires == <<requests, up>>
records == <<unstored, refused, stored>>
base == <<lock, records, services>>
vars == <<env, client, wires, base, loop, sim, events>>

Fault(f) == f \in env.faults

Byte == [kind |-> "byte"]
Header(type, val, sizes) ==
  [kind |-> "header", type |-> type, val |-> val, sizes |-> sizes]

\* attach_sizes of a header; a message has at most three attachments.
Total(sizes) ==
  LET size(i) == IF i \in DOMAIN sizes THEN sizes[i] ELSE 0
  IN size(1) + size(2) + size(3)

Message(type, val, sizes) ==
  <<Header(type, val, sizes)>> \o [i \in 1..Total(sizes) |-> Byte]

TypeOK ==
  /\ env \in Scenarios
  /\ pc \in [Threads -> {"idle", "inserting", "waiting", "saving", "lost"}]
  /\ req \in [Threads -> {"none", "import", "export", "str", "name"}]
  /\ answer \in [Threads -> {"none", "ok", "busy", "error"}]
  /\ left \in [Threads -> 0..MaxRequests]
  /\ holder \in [Procs -> Threads \cup {None}]
  /\ lock \in Threads \cup {Helper, None}
  /\ loop \in {"idle", "begin", "collate"}
  /\ sim.data \in Procs \cup {None} /\ sim.count \in Int
  /\ \A set \in {unstored, refused, stored} : set \subseteq 1..env.used
  /\ unread \subseteq Procs /\ services \subseteq Nat

Init ==
  /\ env \in Scenarios
  /\ pc = [t \in Threads |-> "idle"] /\ req = [t \in Threads |-> "none"]
  /\ answer = [t \in Threads |-> "none"] /\ left = [t \in Threads |-> MaxRequests]
  /\ holder = [p \in Procs |-> None]
  /\ down = [p \in Procs |-> <<>>] /\ up = [p \in Procs |-> <<>>]
  /\ unread = {} /\ lock = None
  /\ unstored = {} /\ refused = {} /\ stored = {} /\ services = {}
  /\ loop = "idle"
  /\ sim = [data |-> None, count |-> 0, pending |-> {}]
  /\ events = {"region", "sim_init"}

-----------------------------------------------------------------------------
(* The callers: cts-socket.c, under CTS_MUTEX_SOCKET_FD of their process.   *)

\* cts_request_*: the mutex, then the header and the attachments.
Ask(t, type, sizes) ==
  LET p == ProcOf[t] IN
  /\ holder[p] = None
  /\ holder' = [holder EXCEPT ![p] = t]
  /\ down' = [down EXCEPT ![p] = @ \o Message(type, "none", sizes)]
  /\ pc' = [pc EXCEPT ![t] = "waiting"]
  /\ req' = [req EXCEPT ![t] = type]
  /\ UNCHANGED <<env, answer, base, loop, sim, events, up, unread>>

MayCall(t, what) == pc[t] = "idle" /\ left[t] > 0 /\ what \in env.asks

Spend(t) == left' = [left EXCEPT ![t] = @ - 1]

\* contacts_svc_import_sim
ImportSim(t) == MayCall(t, "import") /\ Ask(t, "import", <<>>) /\ Spend(t)

\* contacts_svc_export_sim: the number of the person is the attachment.
ExportSim(t) == MayCall(t, "export") /\ Ask(t, "export", <<1>>) /\ Spend(t)

\* cts_normalize_str, for a search outside any transaction; an empty text is
\* answered without the helper.
NormalizeStr(t) ==
  /\ MayCall(t, "str")
  /\ \E n \in Texts \ {0} : Ask(t, "str", <<n>>)
  /\ Spend(t)

\* contacts_svc_insert_contact takes the write lock before it normalises.
StartInsert(t) ==
  /\ MayCall(t, "insert") /\ lock = None
  /\ lock' = t
  /\ pc' = [pc EXCEPT ![t] = "inserting"]
  /\ Spend(t)
  /\ UNCHANGED <<env, req, answer, holder, wires, loop, sim, records, services, events>>

\* cts_request_normalize_name: the first name, the last name and the sort key,
\* which is empty only when both names are.
NormalizeName(t) ==
  /\ pc[t] = "inserting"
  /\ \E first, last \in Texts, key \in Texts \ {0} :
       /\ first + last > 0
       /\ Ask(t, "name", <<first, last, key>>)
  /\ UNCHANGED left

\* With neither name the function returns before it writes anything.
NormalizeNoName(t) ==
  /\ pc[t] = "inserting"
  /\ pc' = [pc EXCEPT ![t] = "saving"]
  /\ UNCHANGED <<env, req, answer, left, holder, wires, base, loop, sim, events>>

\* A text longer than the buffer is cut and its rest is discarded.
Kept(size) == IF DestSize <= size THEN DestSize ELSE size
Discarded(size) == IF DestSize <= size THEN size - DestSize ELSE 0

\* What the reader of a reply takes from the stream after the header:
\* cts_safe_read of a text and cts_remove_invalid_msg of what is not wanted.
Taken(type, sizes) ==
  IF type \in {"import", "export"} THEN Total(sizes)
  ELSE Total([i \in DOMAIN sizes |-> Kept(sizes[i]) + Discarded(sizes[i])])

\* cts_socket_handle_return and what follows it; the reads block until the
\* bytes are there.  Bytes that are not a header leave the caller lost.
Receive(t) ==
  LET p == ProcOf[t]
      hdr == Head(up[p])
      more == Taken(req[t], hdr.sizes) IN
  /\ pc[t] = "waiting" /\ up[p] # <<>>
  /\ IF hdr.kind # "header"
     THEN /\ pc' = [pc EXCEPT ![t] = "lost"]
          /\ UNCHANGED <<req, answer, holder, up>>
     ELSE /\ Len(up[p]) > more
          /\ up' = [up EXCEPT ![p] = SubSeq(@, more + 2, Len(@))]
          /\ answer' = [answer EXCEPT ![t] = hdr.val]
          /\ pc' = [pc EXCEPT ![t] = IF req[t] = "name" THEN "saving" ELSE "idle"]
          /\ holder' = [holder EXCEPT ![p] = None]
          /\ UNCHANGED req
  /\ UNCHANGED <<env, left, requests, base, loop, sim, events>>

\* The rest of the insertion: its rows and the end of its transaction.
EndInsert(t) ==
  /\ pc[t] = "saving"
  /\ pc' = [pc EXCEPT ![t] = "idle"]
  /\ lock' = None
  /\ UNCHANGED <<env, req, answer, left, holder, wires, records, services, loop, sim, events>>

-----------------------------------------------------------------------------
(* helper-socket.c: one request of process p at a time.                     *)

\* helper_socket_return and the attachments written after it.
Reply(p, val, sizes) == up' = [up EXCEPT ![p] = @ \o Message("return", val, sizes)]

Read(p, n) == down' = [down EXCEPT ![p] = SubSeq(@, n + 1, Len(@))]

Requested(p, type) ==
  loop = "idle" /\ down[p] # <<>> /\ Head(down[p]).type = type

\* A text the channel cannot give (it is not UTF-8, which a GIOChannel expects
\* unless it is told otherwise): its bytes are gone, and no reply is sent, not
\* even an error.
Unreadable(p) == Fault("read") /\ unread' = unread \cup {p} /\ UNCHANGED up

\* helper_handle_normalize_str: the text is read before it is normalised.
HandleStr(p) ==
  LET size == Head(down[p]).sizes[1] IN
  /\ Requested(p, "str")
  /\ Read(p, 1 + size)
  /\ \/ \E n \in Texts : Reply(p, "ok", <<n>>) /\ UNCHANGED unread
     \/ Fault("normalize") /\ Reply(p, "error", <<>>) /\ UNCHANGED unread
     \/ Unreadable(p)
  /\ UNCHANGED <<env, client, base, loop, sim, events>>

\* Mutant: the sort key is not discarded when the first name fails.
MutUnread(sizes, i) == IF i = 1 THEN sizes[3] ELSE 0

\* What helper_handle_normalize_name leaves unread when part number i cannot
\* be read or normalised: nothing, because it discards the parts after it.
Unread(sizes, i) ==
  LET after == Total(SubSeq(sizes, i + 1, 3))
      discarded == CASE i = 1 -> sizes[2] + sizes[3] [] i = 2 -> sizes[3] [] OTHER -> 0
  IN after - discarded

\* A part that is empty is not normalised and its reply is empty.
Normalised(size) == IF size = 0 THEN {0} ELSE Texts

\* A collation key that fails answers twice: there is no return after it.  One
\* that cannot be read is replaced by what the buffer holds, and answered once.
HandleName(p) ==
  LET sizes == Head(down[p]).sizes IN
  /\ Requested(p, "name")
  /\ \/ /\ Read(p, 1 + Total(sizes))
        /\ UNCHANGED unread
        /\ \E a \in Normalised(sizes[1]), b \in Normalised(sizes[2]), c \in Normalised(sizes[3]) :
             \/ Reply(p, "ok", <<a, b, c>>)
             \/ /\ Fault("collate") /\ sizes[3] > 0
                /\ up' = [up EXCEPT ![p] = @ \o Message("return", "error", <<>>)
                                             \o Message("return", "ok", <<a, b, c>>)]
     \/ /\ \E i \in {1, 2} : /\ sizes[i] > 0
                             /\ Read(p, 1 + Total(sizes) - Unread(sizes, i))
        /\ \/ Fault("normalize") /\ Reply(p, "error", <<>>) /\ UNCHANGED unread
           \/ Unreadable(p)
  /\ UNCHANGED <<env, client, base, loop, sim, events>>

-----------------------------------------------------------------------------
(* helper/sim.c.  A TAPI call that is not answered is [op, book, index].    *)

\* Mutant: records are counted from 0.
MutCall(op, book, index) == [op |-> op, book |-> book, index |-> index - 1]

Call(op, book, index) == [op |-> op, book |-> book, index |-> index]

Post(s, call) == [s EXCEPT !.pending = @ \cup {call}]
Answered(s, call) == [s EXCEPT !.pending = @ \ {call}]

\* helper_register_tapi_init
Register(s) == [s EXCEPT !.count = @ + 1]

\* Mutant: the library is never closed.
MutDeregister(s) == [s EXCEPT !.count = @ - 1]

\* helper_deregister_tapi_deinit: the last one closes the library's handle,
\* whose open calls are then never answered.
Deregister(s) ==
  [s EXCEPT !.count = @ - 1, !.pending = IF s.count = 1 THEN {} ELSE @]

\* The way every SIM operation ends: the process that waits is answered,
\* helper_sim_data is reset and the library is let go.
Finish(s, val) ==
  /\ IF s.data = None THEN UNCHANGED up ELSE Reply(s.data, val, <<>>)
  /\ sim' = Deregister([s EXCEPT !.data = None])

\* Mutant: a running operation is not noticed.
MutStartSim(p, first) ==
  \/ /\ sim' = [Post(Register(sim), first) EXCEPT !.data = p]
     /\ UNCHANGED up
  \/ /\ Fault("refuse")
     /\ Reply(p, "error", <<>>)
     /\ sim' = Deregister(Register(sim))

\* A SIM operation is refused while another one runs; what TAPI refuses at once
\* is reported at once; otherwise its first call is made.
StartSim(p, first) ==
  IF sim.data # None
  THEN Reply(p, "busy", <<>>) /\ UNCHANGED sim
  ELSE \/ /\ sim' = [Post(Register(sim), first) EXCEPT !.data = p]
          /\ UNCHANGED up
       \/ /\ Fault("refuse")
          /\ Reply(p, "error", <<>>)
          /\ sim' = Deregister(Register(sim))

\* helper_sim_read_pb_record: for a SIM that is not ready no call is made, but
\* the process waits all the same.
StartRead(p) ==
  \/ StartSim(p, Call("count", env.card, 0))
  \/ /\ Fault("not_ready") /\ sim.data = None
     /\ sim' = [Register(sim) EXCEPT !.data = p]
     /\ UNCHANGED up

\* helper_sim_write_pb_record: a SIM that is not ready is an error.
StartWrite(p) == StartSim(p, Call("meta", env.card, 0))

HandleImport(p) ==
  /\ Requested(p, "import")
  /\ Read(p, 1)
  /\ StartRead(p)
  /\ UNCHANGED <<env, client, unread, base, loop, events>>

HandleExport(p) ==
  /\ Requested(p, "export")
  /\ Read(p, 1 + Head(down[p]).sizes[1])
  /\ \/ StartWrite(p) /\ UNCHANGED unread
     \/ Unreadable(p) /\ UNCHANGED sim
  /\ UNCHANGED <<env, client, base, loop, events>>

\* The calls of one kind that TAPI may answer now, in the main loop.
Answers(op) == {call \in sim.pending : loop = "idle" /\ call.op = op}

\* helper_sim_aync_response_pb_count: the first record is asked for, then the
\* transaction is begun.
PbCount ==
  \E call \in Answers("count") :
    LET s == Answered(sim, call) IN
    /\ \/ /\ env.used > 0
          /\ sim' = Post(s, Call("read", call.book, 1))
          /\ loop' = "begin"
          /\ UNCHANGED up
       \/ /\ env.used = 0 \/ Fault("tapi")
          /\ Finish(s, "error")
          /\ UNCHANGED loop
    /\ UNCHANGED <<env, client, requests, base, events>>

\* Mutant: the transaction is not begun.
MutBeginImport ==
  /\ loop = "begin" /\ lock = None
  /\ loop' = "idle"
  /\ UNCHANGED <<env, client, wires, base, sim, events>>

\* contacts_svc_begin_trans in the callback, which retries while the database
\* is locked, but not for ever.
BeginImport ==
  /\ loop = "begin" /\ lock = None
  /\ lock' = Helper /\ unstored' = {} /\ refused' = {}
  /\ loop' = "idle"
  /\ UNCHANGED <<env, client, wires, sim, stored, services, events>>

GiveUpImport ==
  /\ loop = "begin" /\ lock # None
  /\ Finish(sim, "error")
  /\ loop' = "idle"
  /\ UNCHANGED <<env, client, requests, base, events>>

\* helper_insert_2g_contact, helper_insert_3g_contact: the contact with the
\* record's UID is merged or a new one is inserted.  A failure is only warned
\* about, and the import goes on without the record.
Inserted(i) == {{i}} \cup (IF Fault("insert") THEN {{}} ELSE {})

\* Outside the transaction it commits by itself; what another process locks
\* fails.
Insert(new) ==
  CASE lock = Helper -> unstored' = unstored \cup new /\ UNCHANGED stored
    [] lock = None -> stored' = stored \cup new /\ UNCHANGED unstored
    [] OTHER -> UNCHANGED <<stored, unstored>>

\* Mutant: a failed import does not end its transaction.
MutEndTrans(save, more) ==
  /\ unstored' = IF lock = Helper /\ save THEN {} ELSE unstored
  /\ lock' = IF lock = Helper /\ save THEN None ELSE lock
  /\ stored' = stored \cup (IF save /\ lock = Helper THEN unstored ELSE {}) \cup more

\* contacts_svc_end_trans, with the transaction that may not be there.
EndTrans(save, more) ==
  /\ unstored' = IF lock = Helper THEN {} ELSE unstored
  /\ lock' = IF lock = Helper THEN None ELSE lock
  /\ stored' = stored \cup (IF save /\ lock = Helper THEN unstored ELSE {}) \cup more

\* The record the last callback inserts before it ends the transaction.
LastOne(new) == IF lock \in {Helper, None} THEN new ELSE {}

\* helper_sim_read_record_cb for the phone book of the SIM.  Its error path
\* answers CTS_SUCCESS too.
ReadRecord ==
  \E call \in Answers("read") :
    LET s == Answered(sim, call)
        i == call.index IN
    /\ call.book # "SDN"
    /\ \/ \E new \in Inserted(i) :
            /\ refused' = refused \cup ({i} \ new)
            /\ \/ /\ i < env.used
                  /\ Insert(new)
                  /\ sim' = Post(s, Call("read", call.book, i + 1))
                  /\ UNCHANGED <<lock, up>>
               \/ /\ i = env.used
                  /\ EndTrans(TRUE, LastOne(new))
                  /\ Finish(s, "ok")
       \/ /\ Fault("tapi")
          /\ EndTrans(FALSE, {})
          /\ Finish(s, "ok")
          /\ UNCHANGED refused
    /\ UNCHANGED <<env, client, requests, loop, services, events>>

\* helper_insert_SDN_contact and helper_delete_SDN_contact write by themselves;
\* a database that is locked fails them.
InsertSDN(i) == services' = IF lock = None THEN services \cup {i} ELSE services
DeleteSDN == services' = IF lock = None THEN {} ELSE services

\* The same callback for the service dialling numbers: an index that is not in
\* use is skipped.  It ends as the import does, and answers the process that
\* waits for an import.
ReadServiceNumber ==
  \E call \in Answers("read") :
    LET s == Answered(sim, call) IN
    /\ call.book = "SDN"
    /\ \/ InsertSDN(call.index) \/ UNCHANGED services
    /\ \/ /\ call.index <= env.used
          /\ sim' = Post(s, Call("read", "SDN", call.index + 1))
          /\ UNCHANGED up
       \/ /\ call.index > env.used \/ Fault("tapi")
          /\ Finish(s, "ok")
    /\ UNCHANGED <<env, client, requests, lock, records, loop, events>>

\* helper_get_sim_pb_meta_info: a USIM tells in one answer whether it is full,
\* another card is asked for its count.
MetaInfo ==
  \E call \in Answers("meta") :
    LET s == Answered(sim, call) IN
    /\ \/ /\ sim' = Post(s, IF env.card = "3GSIM" THEN Call("find", call.book, 1)
                             ELSE Call("avail", call.book, 0))
          /\ UNCHANGED up
       \/ Finish(s, "ok")
    /\ UNCHANGED <<env, client, requests, base, loop, events>>

\* helper_sim_check_write_available
WriteAvailable ==
  \E call \in Answers("avail") :
    LET s == Answered(sim, call) IN
    /\ \/ sim' = Post(s, Call("find", call.book, 1)) /\ UNCHANGED up
       \/ Finish(s, "ok")
    /\ UNCHANGED <<env, client, requests, base, loop, events>>

\* helper_sim_write_contact: the person is read and its record is written.
WriteContact(s, call, i) ==
  \/ sim' = Post(s, Call("update", call.book, i)) /\ UNCHANGED up
  \/ Fault("no_person") /\ Finish(s, "ok")

\* helper_sim_find_empty_slot_cb: the next record, the first slot that is not
\* in use, or no slot at all.
FindEmptySlot ==
  \E call \in Answers("find") :
    LET s == Answered(sim, call) IN
    /\ \/ /\ call.index < env.used
          /\ sim' = Post(s, Call("find", call.book, call.index + 1))
          /\ UNCHANGED up
       \/ WriteContact(s, call, IF call.index <= env.used THEN call.index + 1 ELSE call.index)
       \/ Fault("tapi") /\ Finish(s, "ok")
    /\ UNCHANGED <<env, client, requests, base, loop, events>>

\* helper_sim_aync_response_pb_update
Updated ==
  \E call \in Answers("update") :
    /\ \/ Finish(Answered(sim, call), "ok")
       \/ Fault("tapi") /\ Finish(Answered(sim, call), "error")
    /\ UNCHANGED <<env, client, requests, base, loop, events>>

\* helper_tapi_sim_complete_cb and helper_sim_read_SDN: once, when the phone
\* book is initialised, and not at all while a SIM operation runs.  The old
\* numbers go first; without a card that is all, and a card in another state
\* leaves the library open.
ReadSDN ==
  /\ loop = "idle" /\ "sim_init" \in events /\ Fault("sdn")
  /\ events' = events \ {"sim_init"}
  /\ IF sim.data # None
     THEN UNCHANGED <<sim, services>>
     ELSE \/ /\ DeleteSDN
             /\ sim' = Deregister(Register(sim))
          \/ /\ lock = None
             /\ DeleteSDN
             /\ sim' = Post(Register(sim), Call("read", "SDN", 1))
          \/ /\ Fault("card_busy")
             /\ sim' = Register(sim)
             /\ UNCHANGED services
  /\ UNCHANGED <<env, client, wires, lock, records, loop>>

-----------------------------------------------------------------------------
(* helper/utils.c and helper/sqlite.c: a setting that orders names changes. *)

\* helper_update_collation_cb: the transaction of the helper's own connection
\* waits for the database as long as it takes.
RegionChanged ==
  /\ loop = "idle" /\ "region" \in events /\ Fault("region")
  /\ events' = events \ {"region"}
  /\ loop' = "collate"
  /\ UNCHANGED <<env, client, wires, base, sim>>

\* helper_begin_trans got the lock: the sort keys are rewritten in one
\* transaction, which nobody sees in between.
UpdateCollation ==
  /\ loop = "collate" /\ lock = None
  /\ loop' = "idle"
  /\ UNCHANGED <<env, client, wires, base, sim, events>>

-----------------------------------------------------------------------------
Caller(t) ==
  \/ ImportSim(t) \/ ExportSim(t) \/ NormalizeStr(t) \/ StartInsert(t)
  \/ NormalizeName(t) \/ NormalizeNoName(t) \/ Receive(t) \/ EndInsert(t)

Handle(p) == HandleStr(p) \/ HandleName(p) \/ HandleImport(p) \/ HandleExport(p)

Telephony ==
  \/ PbCount \/ ReadRecord \/ ReadServiceNumber \/ MetaInfo \/ WriteAvailable
  \/ FindEmptySlot \/ Updated

Database == BeginImport \/ GiveUpImport \/ UpdateCollation

Next ==
  \/ \E t \in Threads : Caller(t)
  \/ \E p \in Procs : Handle(p)
  \/ Telephony \/ Database \/ ReadSDN \/ RegionChanged

Spec == Init /\ [][Next]_vars

(* A call that was begun goes on, the main loop serves every event source,  *)
(* TAPI answers and a lock that is free is taken.                           *)
Fairness ==
  /\ \A t \in Threads : WF_vars(NormalizeName(t) \/ NormalizeNoName(t))
                        /\ WF_vars(Receive(t)) /\ WF_vars(EndInsert(t))
  /\ \A p \in Procs : WF_vars(Handle(p))
  /\ WF_vars(Telephony) /\ WF_vars(Database)

FairSpec == Spec /\ Fairness
=============================================================================
