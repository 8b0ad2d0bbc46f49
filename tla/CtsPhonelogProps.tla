-------------------------- MODULE CtsPhonelogProps ---------------------------
(***************************************************************************)
(* What a dialer may rely on about the phone log.                          *)
(***************************************************************************)
EXTENDS CtsPhonelog

CONSTANT Subscribers    \* the ways each of a few numbers is written

\* The numbers that are logged or stored.
Numbers == {e.number : e \in Entries} \cup {r.data2 : r \in UNION Writings}

\* The ways a subscriber's number is written have one key, which no number of
\* another has and no favorite leaves in its place.
ASSUME SubscribersAssumption ==
  \A s \in Subscribers : \A m \in s :
    /\ NormalNum(m, <<>>) \notin FavoriteKeys \cup {Null}
    /\ \A n \in Numbers, beyond \in Leftovers \cup {<<>>} :
         NormalNum(n, beyond) = NormalNum(m, <<>>) <=> n \in s

\* The tables and the keys of the numbers in them.
TypeOK ==
  /\ log_seq \in 0..MaxLogs /\ DOMAIN phonelogs \subseteq 1..log_seq
  /\ \A i \in DOMAIN phonelogs :
       /\ phonelogs[i].log_type \in 1..EMAIL_SENT
       /\ phonelogs[i].normal_num =
            IF phonelogs[i].log_type < EMAIL_RECEIVED THEN NormalNum(phonelogs[i].number, <<>>)
            ELSE Null
  /\ contact_seq \in 0..MaxContacts /\ DOMAIN contacts \subseteq 1..contact_seq
  /\ DOMAIN persons = {contacts[c].person_id : c \in DOMAIN contacts}
  /\ DOMAIN persons \subseteq DOMAIN contacts
  /\ published \subseteq {"plog", "missed"}

\* A dialer that shows the missed calls not seen yet hears of every change of
\* them: the set never changes in a call that publishes no missed-call
\* notification, and the log in none that publishes no log notification.
MissedCallAnnounced ==
  [][/\ DOMAIN CTS_LIST_ALL_UNSEEN_MISSED_CALL # DOMAIN CTS_LIST_ALL_UNSEEN_MISSED_CALL'
          => "missed" \in published'
     /\ phonelogs # phonelogs' => "plog" \in published']_vars

SumOf(s) ==
  LET sum[n \in 0..Len(s)] == IF n = 0 THEN 0 ELSE sum[n - 1] + s[n].data1
  IN sum[Len(s)]
Times(t, d, rows) == Cardinality({i \in DOMAIN rows : rows[i].log_time = t /\ rows[i].data1 = d})

\* The accumulated time of outgoing calls is that of every call ever made, and
\* a call stays countable by its date after its entry was deleted: it is in the
\* log or among the deleted calls, unless one that is more than 40 days newer
\* was made.
CallsAccounted ==
  /\ accumulation.total = [cnt |-> Len(calls), duration |-> SumOf(calls)]
  /\ accumulation.calls = accumulation.total
  /\ \A n \in 1..Len(calls) :
       LET t == calls[n].log_time
           d == calls[n].data1
           logged == Cardinality(Logs(LAMBDA l : Outgoing(l) /\ l.log_time = t /\ l.data1 = d))
       IN \/ logged + Times(t, d, accumulation.kept) = Times(t, d, calls)
          \/ \E m \in 1..Len(calls) : calls[m].log_time - Window > t

\* The contact has the number, under its key: a row whose key a favorite has
\* overwritten is in no list until the contact is written again.
HasWriting(c, s) ==
  \E r \in contacts[c].rows :
    r.datatype = "number" /\ r.data2 \in s /\ r.data3 \notin FavoriteKeys

\* However a subscriber's number is written in the log and in the contacts, an
\* entry of it is shown with a contact that has it, with the related contact
\* while that one has it, the same one in the log and in the list of the
\* number, in the list of that contact's person, and the number is found.  Rows
\* whose keys favorites overwrote do not count, and are shown for nobody.
KnownCallerShown ==
  \A s \in Subscribers, i \in DOMAIN CTS_LIST_ALL_PLOG :
    LET l == phonelogs[i]
        owners == {c \in DOMAIN contacts : HasWriting(c, s)}
        shown == CTS_LIST_ALL_PLOG[i]
    IN l.number \in s =>
         /\ owners = {} => shown = Null
         /\ owners # {} =>
              /\ shown \in owners
              /\ l.related_id \in owners => shown = l.related_id
              /\ i \in CTS_LIST_PLOG_OF_PERSON_ID(contacts[shown].person_id)
         /\ \A beyond \in Leftovers :
              /\ CTS_LIST_PLOGS_OF_NUMBER(l.number, beyond)[i] = shown
              /\ CTS_FIND_BY_NUMBER(l.number, beyond) = owners
==============================================================================
