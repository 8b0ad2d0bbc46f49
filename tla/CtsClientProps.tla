--------------------------- MODULE CtsClientProps ---------------------------
(***************************************************************************)
(* What a program that uses the contacts service relies on.                *)
(***************************************************************************)
EXTENDS CtsClient

\* The connections of every thread, one by one.
Connections == UNION {{t} \X (1..held[t]) : t \in Threads}

\* The connection is counted for all threads together: while one of them has
\* it, the socket, the database and, for a process that may not see every row,
\* the view are open (inotify and vconf may have failed, which is only logged),
\* and the last one closes everything; without a connection nothing is open but
\* the database that a failed contacts_svc_connect may have left.
ConnectionWhole ==
  /\ refcnt = Cardinality(Connections)
  /\ refcnt > 0 => /\ {"socket", "db"} \subseteq opened
                   /\ permitted \/ "view" \in opened
  /\ refcnt = 0 => opened \subseteq {"db"} /\ list = <<>> /\ queue = <<>> /\ ~permitted

\* Outside the calls of cts-inotify.c every subscription has its own watch for
\* changes, and is there once.
SubscribedIsWatched ==
  /\ IsInjective(list)
  /\ op.what = "idle" =>
       \A i \in DOMAIN list : \E p \in Paths : watch[p] = [wd |-> list[i].wd, mask |-> "close_write"]

\* A change is lost for a subscriber only while the program is inside a call
\* that subscribes to the same path or unsubscribes from it.
MissedOnlyInCalls ==
  [][\A p \in missed' \ missed : op.what # "idle" /\ op.path = p]_vars

\* When handle_callback returns, it has called every subscriber of the path,
\* whatever its callbacks subscribed or unsubscribed meanwhile.
AllSubscribersCalled ==
  [][walk.wd > 0 /\ walk'.wd = 0 =>
       \A i \in DOMAIN list : list[i].wd = walk.wd => list[i] \in called]_vars

\* An event is read in the end, and a change of the name order reaches a
\* process that stays connected, if it could register for it.
MainLoopServes ==
  /\ queue # <<>> ~> queue = <<>>
  /\ ~told ~> (order = setting \/ "vconf" \notin opened)
=============================================================================
