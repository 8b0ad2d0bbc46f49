--------------------------- MODULE CtsHelperProps ---------------------------
(***************************************************************************)
(* What the processes that use the helper, and the helper itself, rely on. *)
(***************************************************************************)
EXTENDS CtsHelper

Headers(stream) == {i \in DOMAIN stream : stream[i].kind = "header"}

\* A stream is whole messages, headers first.
Whole(stream) ==
  stream # <<>> => /\ stream[1].kind = "header"
                   /\ Len(stream) = 1 + Total(stream[1].sizes)

\* A process has one request under way exactly while one of its threads waits:
\* it is in the stream to the helper, with the SIM, answered in the stream
\* back, or it is one the helper could not read, which is never answered
\* (otherwise helper-socket.c and cts-socket.c neither lose nor repeat a reply,
\* and they never leave part of a message behind).
RepliesInStep ==
  \A p \in Procs :
    /\ Whole(down[p]) /\ Whole(up[p])
    /\ Cardinality(Headers(down[p])) + Cardinality(Headers(up[p]))
         + (IF sim.data = p THEN 1 ELSE 0) + (IF p \in unread THEN 1 ELSE 0)
       = Cardinality({t \in Threads : ProcOf[t] = p /\ pc[t] = "waiting"})
    /\ \A t \in Threads : ProcOf[t] = p /\ pc[t] = "waiting" => holder[p] = t

\* helper_register_tapi_cnt counts the calls TAPI has not answered, so that the
\* library is closed neither under a running operation nor never.
CallbacksCounted == sim.count = Cardinality(sim.pending)

\* The transaction of an import is open exactly while its next record is
\* awaited: no end of an import leaves the database locked, and no record
\* arrives outside the transaction.
ImportTransaction ==
  (lock = Helper) <=>
    (loop # "begin" /\ \E call \in sim.pending : call.op = "read" /\ call.book # "SDN")

\* Other processes see the contacts of an import all at once, and they are the
\* whole phone book but for the records whose insertion failed, which
\* helper_sim_read_record_cb only warns about.
ImportIsAtomic == [][stored' # stored => stored' \cup refused' = 1..env.used]_vars

\* Every request the helper can read is answered, whatever the helper waits for
\* and whichever other request it could not read.
RequestsAnswered ==
  \A t \in Threads : pc[t] = "waiting" ~> (pc[t] = "idle" \/ ProcOf[t] \in unread)
=============================================================================
