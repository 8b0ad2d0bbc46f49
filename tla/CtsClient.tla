----------------------------- MODULE CtsClient -----------------------------
(***************************************************************************)
(* A client process of the contacts service: its counted connection        *)
(* (cts-service.c, cts-restriction.c, cts-sqlite.c), its name order        *)
(* (cts-utils.c) and its subscriptions to changes (cts-inotify.c), beside  *)
(* the processes that announce changes by closing a file they opened for   *)
(* writing.  The main thread subscribes and runs the main loop; every      *)
(* thread connects and disconnects.                                        *)
(***************************************************************************)
EXTENDS Integers, Sequences, FiniteSets, Functions

CONSTANTS
  Threads, Main,   \* threads, and the one with the main loop
  Paths,           \* the files whose changes are announced
  Callbacks,       \* functions of the program
  Datas,           \* the user data they are registered with
  Orders, DefaultOrder, \* name orders, and CTS_ORDER_NAME_FIRSTLAST
  Calls,           \* [thread -> calls it makes]
  MaxChanges,      \* changes other processes make
  Faults,          \* what may fail: "socket", "db", "view", "inotify", "vconf"
  NoWatch

Masks == {"access", "close_write"}

ASSUME ConstantsAssumption ==
  /\ Main \in Threads /\ Calls \in [Threads -> Nat]
  /\ DefaultOrder \in Orders
  /\ NoWatch \notin [wd : Nat, mask : Masks]

VARIABLES
  refcnt,    \* cts_conn_refcnt
  opened,    \* what is open: "socket", "db", "view", "inotify", "vconf"
  permitted, \* cts_restriction_permit
  held,      \* [thread -> connections it has and must give back]
  left,      \* [thread -> calls it may still make]
  op,        \* the subscription call the main thread is inside
  list,      \* cts_noti_list: sequence of [wd, cb, data]
  watch,     \* [path -> [wd, mask]] of the inotify descriptor, or NoWatch
  lastwd,    \* watch descriptors given out
  queue,     \* watch descriptors of the events that were not read
  walk,      \* the event being dispatched and the last entry visited for it
  called,    \* callbacks called for the event
  missed,    \* paths a change of which was not queued for a subscriber
  setting,   \* the name order in vconf
  order,     \* name_display_order
  told,      \* vconf's notification has been delivered
  changes    \* changes made by other processes

connection == <<refcnt, opened, permitted, held>>
subscriptions == <<list, watch, lastwd>>
dispatch == <<queue, walk, called>>
names == <<setting, order, told>>
vars == <<connection, left, op, subscriptions, dispatch, missed, names, changes>>

Entry == [wd : 1..Calls[Main], cb : Callbacks, data : Datas]
Call == [what : {"idle"}] \cup
        [what : {"subscribe", "unsubscribe"}, path : Paths, of : SUBSET (Callbacks \X Datas)]

TypeOK ==
  /\ refcnt \in Nat /\ opened \subseteq {"socket", "db", "view", "inotify", "vconf"}
  /\ permitted \in BOOLEAN
  /\ held \in [Threads -> Nat] /\ left \in [Threads -> Nat]
  /\ op \in Call
  /\ Len(list) <= Calls[Main] /\ \A i \in DOMAIN list : list[i] \in Entry
  /\ \A p \in Paths : watch[p] = NoWatch \/ watch[p].mask \in Masks
  /\ walk.at \in 0..Len(list)
  /\ order \in Orders /\ setting \in Orders

Init ==
  /\ refcnt = 0 /\ opened = {} /\ permitted = FALSE
  /\ held = [t \in Threads |-> 0] /\ left = Calls
  /\ op = [what |-> "idle"]
  /\ list = <<>> /\ watch = [p \in Paths |-> NoWatch] /\ lastwd = 0
  /\ queue = <<>> /\ walk = [wd |-> 0, at |-> 0] /\ called = {}
  /\ missed = {}
  /\ setting \in Orders /\ order = setting /\ told = TRUE
  /\ changes = 0

May(t) == left[t] > 0 /\ (t = Main => op.what = "idle" /\ walk.wd = 0)
Spend(t) == left' = [left EXCEPT ![t] = @ - 1]

-----------------------------------------------------------------------------
(* cts-service.c, under CTS_MUTEX_CONNECTION.                               *)

\* Mutant: the socket stays open.
MutUndone(failed) == IF failed = "socket" THEN opened ELSE opened \cup {"socket"}

\* What is open after each step of contacts_svc_connect that fails: the socket
\* is closed again, the database is not when only the view failed.
Undone(failed) == IF failed = "view" THEN opened \cup {"db"} ELSE opened

\* cts_restriction_init: a process that may not read the permission file sees
\* the restricted rows through a view.
Restriction(permit) == IF permit THEN {} ELSE {"view"}

Failing(f, outcome) == IF f \in Faults THEN {outcome} ELSE {}

\* cts_register_noti: failures are only logged.  One of inotify leaves the name
\* order as it is, one of vconf_notify_key_changed leaves it to itself.
Registrations ==
  {{"inotify", "vconf"}} \cup Failing("inotify", {}) \cup Failing("vconf", {"inotify"})

\* vconf_get_int of cts_conf_init_name_info
OrdersRead == {setting} \cup Failing("vconf", DefaultOrder)

ConnectFirst(permit) ==
  \E noti \in Registrations :
    /\ opened' = opened \cup {"socket", "db"} \cup Restriction(permit) \cup noti
    /\ permitted' = permit
    /\ refcnt' = 1
    /\ order' \in IF noti = {} THEN {order} ELSE OrdersRead
    /\ told' = (noti # {} \/ told)

\* contacts_svc_connect when it succeeds.
Connect(t) ==
  /\ May(t)
  /\ Spend(t)
  /\ held' = [held EXCEPT ![t] = @ + 1]
  /\ IF refcnt > 0
     THEN refcnt' = refcnt + 1 /\ UNCHANGED <<opened, permitted, order, told>>
     ELSE \E permit \in BOOLEAN : ConnectFirst(permit)
  /\ UNCHANGED <<op, subscriptions, dispatch, missed, setting, changes>>

\* contacts_svc_connect when a step of it fails.
ConnectFails(t) ==
  /\ May(t) /\ refcnt <= 0
  /\ Spend(t)
  /\ \E failed \in Faults \cap {"socket", "db", "view"} : opened' = Undone(failed)
  /\ UNCHANGED <<refcnt, permitted, held, op, subscriptions, dispatch, missed, names, changes>>

\* What the last contacts_svc_disconnect closes: cts_socket_final,
\* cts_deregister_noti, cts_db_close, and with the database its view.
Closed == {"socket", "inotify", "vconf", "db", "view"}

\* contacts_svc_disconnect, of a connection the thread has.  A main thread that
\* still subscribes is the last to disconnect: nothing keeps another thread
\* from freeing the list it walks.
Disconnect(t) ==
  /\ May(t) /\ held[t] > 0
  /\ t = Main => list = <<>> \/ refcnt = 1 \/ held[Main] > 1
  /\ Spend(t)
  /\ held' = [held EXCEPT ![t] = @ - 1]
  /\ refcnt' = refcnt - 1
  /\ IF refcnt = 1
     THEN /\ opened' = opened \ Closed
          /\ permitted' = FALSE
          /\ list' = <<>> /\ watch' = [p \in Paths |-> NoWatch] /\ queue' = <<>>
          /\ UNCHANGED lastwd
     ELSE UNCHANGED <<opened, permitted, subscriptions, queue>>
  /\ UNCHANGED <<op, walk, called, missed, names, changes>>

\* Mutant: the connection is not checked.
MutDisconnectRefused(t) ==
  /\ May(t) /\ refcnt = 0
  /\ Spend(t)
  /\ refcnt' = refcnt - 1
  /\ UNCHANGED <<opened, permitted, held, op, subscriptions, dispatch, missed, names, changes>>

\* Without a connection the call is refused.
DisconnectRefused(t) ==
  /\ May(t) /\ refcnt = 0
  /\ Spend(t)
  /\ UNCHANGED <<connection, op, subscriptions, dispatch, missed, names, changes>>

-----------------------------------------------------------------------------
(* cts-inotify.c: subscriptions, in the main thread.                        *)

Listening == "inotify" \in opened /\ held[Main] > 0

\* The main loop, or the callback it is running, may call.
MainCalls ==
  /\ left[Main] > 0 /\ op.what = "idle" /\ Listening
  /\ walk.wd > 0 => walk.at > 0 /\ list[walk.at].wd = walk.wd

\* inotify_add_watch: the mask of a path that is watched is replaced.
AddWatch(p, mask) ==
  IF watch[p] = NoWatch
  THEN /\ lastwd' = lastwd + 1
       /\ watch' = [watch EXCEPT ![p] = [wd |-> lastwd + 1, mask |-> mask]]
  ELSE /\ watch' = [watch EXCEPT ![p].mask = mask]
       /\ UNCHANGED lastwd

\* cts_inotify_get_wd: to learn the descriptor of the path, it is watched for
\* reads, and for nothing else until the call restores its mask.
BeginCall(what, p, of) ==
  /\ MainCalls
  /\ Spend(Main)
  /\ op' = [what |-> what, path |-> p, of |-> of]
  /\ AddWatch(p, "access")
  /\ UNCHANGED <<connection, list, dispatch, missed, names, changes>>

Subscribe ==
  \E p \in Paths, cb \in Callbacks, d \in Datas : BeginCall("subscribe", p, {<<cb, d>>})

\* del_noti and del_noti_with_data choose the entries that go.
Chosen(e, wd, of) == e.wd = wd /\ <<e.cb, e.data>> \in of

\* A callback with one user data, with all of them, or (NULL) every callback.
\* A callback does not remove its own entry, which the walk reads afterwards.
Unsubscribe ==
  \E p \in Paths :
    \E of \in {{<<cb, d>>} : cb \in Callbacks, d \in Datas}
               \cup {{cb} \X Datas : cb \in Callbacks} \cup {Callbacks \X Datas} :
      /\ walk.at > 0 /\ watch[p] # NoWatch => ~Chosen(list[walk.at], watch[p].wd, of)
      /\ BeginCall("unsubscribe", p, of)

\* Mutant: the mask is not restored when the callback is there already.
MutRewatch(p, entry) ==
  IF entry \in Range(list) THEN UNCHANGED <<watch, lastwd>> ELSE AddWatch(p, "close_write")

\* cts_inotify_watch after the list was searched, whether or not the callback
\* is there already.
Rewatch(p, entry) == AddWatch(p, "close_write")

\* The second half of cts_inotify_subscribe.
EndSubscribe ==
  LET new == CHOOSE pair \in op.of : TRUE
      entry == [wd |-> watch[op.path].wd, cb |-> new[1], data |-> new[2]] IN
  /\ op.what = "subscribe"
  /\ Rewatch(op.path, entry)
  /\ list' = IF entry \in Range(list) THEN list ELSE Append(list, entry)
  /\ op' = [what |-> "idle"]
  /\ UNCHANGED <<connection, left, dispatch, missed, names, changes>>

\* Mutant: the watch is given up with the first callback of the path.
MutLastOfPath(gone, rest) == gone # {}

\* Of the entries gone and rest: nobody else subscribes to the path.
LastOfPath(gone, rest) ==
  gone # {} /\ \A i \in rest : list[i].wd # watch[op.path].wd

\* The positions of a list in their order.
InOrder(positions) ==
  {f \in [1..Cardinality(positions) -> positions] :
     \A i, j \in DOMAIN f : i < j => f[i] < f[j]}

\* The second half of cts_inotify_unsubscribe(_with_data): g_slist_remove keeps
\* the order of the entries that stay.
EndUnsubscribe ==
  LET gone == {i \in DOMAIN list : Chosen(list[i], watch[op.path].wd, op.of)}
      rest == DOMAIN list \ gone
      before == Cardinality({i \in gone : i < walk.at}) IN
  /\ op.what = "unsubscribe"
  /\ \E f \in InOrder(rest) : list' = [k \in DOMAIN f |-> list[f[k]]]
  /\ walk' = [walk EXCEPT !.at = @ - before]
  /\ IF LastOfPath(gone, rest)
     THEN watch' = [watch EXCEPT ![op.path] = NoWatch] /\ UNCHANGED lastwd
     ELSE AddWatch(op.path, "close_write")
  /\ op' = [what |-> "idle"]
  /\ UNCHANGED <<connection, left, queue, called, missed, names, changes>>

Subscribers(p) ==
  {i \in DOMAIN list : watch[p] # NoWatch /\ list[i].wd = watch[p].wd}

\* Another process commits and closes the file of the change (external): the
\* kernel queues an event, unless the last one queued is the same.
Change ==
  /\ changes < MaxChanges
  /\ changes' = changes + 1
  /\ \E p \in Paths :
       IF watch[p] # NoWatch /\ watch[p].mask = "close_write"
       THEN /\ queue' = IF queue # <<>> /\ queue[Len(queue)] = watch[p].wd THEN queue
                        ELSE Append(queue, watch[p].wd)
            /\ UNCHANGED missed
       ELSE /\ missed' = IF Subscribers(p) = {} THEN missed ELSE missed \cup {p}
            /\ UNCHANGED queue
  /\ UNCHANGED <<connection, left, op, subscriptions, walk, called, names>>

\* cts_inotify_gio_cb reads an event and starts to walk the list.
ReadEvent ==
  /\ queue # <<>> /\ walk.wd = 0 /\ op.what = "idle"
  /\ queue' = Tail(queue)
  /\ walk' = [wd |-> Head(queue), at |-> 0]
  /\ called' = {}
  /\ UNCHANGED <<connection, left, op, subscriptions, missed, names, changes>>

\* Mutant: the walk ends with the first callback.
MutEndOfList == walk.at = Len(list) \/ called # {}

EndOfList == walk.at = Len(list)

\* handle_callback at one entry of the list; a callback may call back.
NextEntry ==
  /\ walk.wd > 0 /\ op.what = "idle"
  /\ IF EndOfList
     THEN walk' = [wd |-> 0, at |-> 0] /\ UNCHANGED called
     ELSE LET entry == list[walk.at + 1] IN
          /\ walk' = [walk EXCEPT !.at = @ + 1]
          /\ called' = IF entry.wd = walk.wd THEN called \cup {entry} ELSE called
  /\ UNCHANGED <<connection, left, op, subscriptions, queue, missed, names, changes>>

-----------------------------------------------------------------------------
(* cts-utils.c: the name order, kept beside vconf (external).               *)

\* contacts_svc_set_order in the main thread.
SetOrder ==
  /\ May(Main) /\ Spend(Main)
  /\ \E o \in Orders : setting' = o /\ order' = o
  /\ told' = FALSE
  /\ UNCHANGED <<connection, op, subscriptions, dispatch, missed, changes>>

\* Another process sets the order.
OtherSetsOrder ==
  /\ changes < MaxChanges /\ changes' = changes + 1
  /\ \E o \in Orders : setting' = o
  /\ told' = FALSE
  /\ UNCHANGED <<connection, left, op, subscriptions, dispatch, missed, order>>

\* Mutant: the value of the notification is not stored.
MutOrderChanged ==
  /\ ~told /\ "vconf" \in opened /\ op.what = "idle" /\ walk.wd = 0
  /\ told' = TRUE
  /\ UNCHANGED <<connection, left, op, subscriptions, dispatch, missed, setting, order, changes>>

\* cts_vconf_callback in the main loop, while the process is connected.
OrderChanged ==
  /\ ~told /\ "vconf" \in opened /\ op.what = "idle" /\ walk.wd = 0
  /\ order' = setting /\ told' = TRUE
  /\ UNCHANGED <<connection, left, op, subscriptions, dispatch, missed, setting, changes>>

-----------------------------------------------------------------------------
MainLoop == ReadEvent \/ NextEntry \/ EndSubscribe \/ EndUnsubscribe \/ OrderChanged

Next ==
  \/ \E t \in Threads : Connect(t) \/ ConnectFails(t) \/ Disconnect(t) \/ DisconnectRefused(t)
  \/ Subscribe \/ Unsubscribe \/ SetOrder
  \/ MainLoop
  \/ Change \/ OtherSetsOrder

Spec == Init /\ [][Next]_vars

\* The main loop goes on while it has something to do.
FairSpec == Spec /\ WF_vars(MainLoop)
=============================================================================
