------------------------- MODULE CtsPhonelogProofs --------------------------
(***************************************************************************)
(* Missed calls are announced, a caller that is known is shown as one      *)
(* contact in every list, and every outgoing call is accounted for, for    *)
(* any entries, contacts and bounds.                                       *)
(***************************************************************************)
EXTENDS CtsPhonelogProps, FiniteSetTheorems, SequenceTheorems, WellFoundedInduction, TLAPS

\* Ids are given once (AUTOINCREMENT): what is inserted replaces no entry.
LogsNumbered ==
  /\ log_seq \in Nat
  /\ DOMAIN phonelogs \subseteq 1..log_seq
  /\ phonelogs = [i \in DOMAIN phonelogs |-> phonelogs[i]]

UnseenCalls(log) == {i \in DOMAIN log : Unseen(log[i])}

\* What MissedCallAnnounced says of one step.
Announced ==
  /\ UnseenCalls(phonelogs) # UnseenCalls(phonelogs') => "missed" \in published'
  /\ phonelogs # phonelogs' => "plog" \in published'

LEMMA ListIsUnseenCalls ==
  DOMAIN CTS_LIST_ALL_UNSEEN_MISSED_CALL = UnseenCalls(phonelogs)
BY DEF CTS_LIST_ALL_UNSEEN_MISSED_CALL, Logs, UnseenCalls

LEMMA InsertAnnounces ==
  ASSUME LogsNumbered, NEW e, NEW counted, Insert(e, counted)
  PROVE  LogsNumbered' /\ Announced
<1> DEFINE id == log_seq + 1
<1>0. "plog" \in published' /\ (Unseen(e) => "missed" \in published')
  BY DEF Insert
<1>1. /\ id \notin DOMAIN phonelogs /\ id \in Nat
      /\ phonelogs' = With(phonelogs, id, LogOf(e)) /\ log_seq' = id
  BY DEF LogsNumbered, Insert
<1>2. /\ DOMAIN phonelogs' = DOMAIN phonelogs \cup {id}
      /\ phonelogs'[id] = LogOf(e)
      /\ \A i \in DOMAIN phonelogs : phonelogs'[i] = phonelogs[i]
  BY <1>1 DEF With
<1>3. LogsNumbered'
  BY <1>1, <1>2 DEF LogsNumbered, With
<1>4. Unseen(LogOf(e)) <=> Unseen(e)
  BY DEF Unseen, LogOf
<1>5. CASE Unseen(e)
  BY <1>0, <1>3, <1>5 DEF Announced
<1>6. CASE ~Unseen(e)
  <2>1. UnseenCalls(phonelogs) = UnseenCalls(phonelogs')
    BY <1>1, <1>2, <1>4, <1>6 DEF UnseenCalls
  <2> QED
    BY <1>0, <1>3, <2>1 DEF Announced
<1> QED
  BY <1>3, <1>5, <1>6

LEMMA DeleteKeeps ==
  ASSUME LogsNumbered, NEW S, NEW notices, Delete(S, notices)
  PROVE  /\ LogsNumbered'
         /\ DOMAIN phonelogs' = DOMAIN phonelogs \ S
         /\ \A i \in DOMAIN phonelogs' : phonelogs'[i] = phonelogs[i]
         /\ published' = notices
BY DEF Delete, LogsNumbered

LEMMA DeleteAnnounces ==
  ASSUME LogsNumbered, NEW S, Delete(S, DelNotices)
  PROVE  LogsNumbered' /\ Announced
<1>1. LogsNumbered' /\ published' = DelNotices
  BY DeleteKeeps
<1> QED
  BY <1>1 DEF DelNotices, Announced

\* A message is no call.
LEMMA DeleteByMsgidAnnounces ==
  ASSUME LogsNumbered, NEW id, DeleteByMsgid(id)
  PROVE  LogsNumbered' /\ Announced
<1> DEFINE S == {i \in DOMAIN phonelogs :
                   phonelogs[i].data1 = id /\ phonelogs[i].log_type \in MMS_INCOMING..MMS_BLOCKED}
<1>1. Delete(S, {"plog"})
  BY DEF DeleteByMsgid, Logs
<1>2. \A i \in S : ~Unseen(phonelogs[i])
  BY DEF Unseen, MMS_INCOMING, MMS_BLOCKED, VOICE_UNSEEN, VIDEO_UNSEEN
<1>3. UnseenCalls(phonelogs) = UnseenCalls(phonelogs')
  <2> HIDE DEF S
  <2> QED
    BY <1>1, <1>2, DeleteKeeps DEF UnseenCalls
<1>4. LogsNumbered' /\ published' = {"plog"}
  <2> HIDE DEF S
  <2> QED
    BY <1>1, DeleteKeeps
<1> QED
  BY <1>3, <1>4 DEF Announced

LEMMA SetSeenAnnounces ==
  ASSUME LogsNumbered, NEW index, NEW type, SetSeen(index, type)
  PROVE  LogsNumbered' /\ Announced
<1>1. LogsNumbered'
  BY DEF SetSeen, LogsNumbered
<1>2. CASE Seen(index, type) = {}
  <2>1. phonelogs' = phonelogs
    BY <1>2 DEF SetSeen, LogsNumbered
  <2> QED
    BY <1>1, <2>1 DEF Announced
<1>3. CASE Seen(index, type) # {}
  BY <1>1, <1>3 DEF SetSeen, SeenNotices, Announced
<1> QED
  BY <1>2, <1>3

LEMMA LogUnchanged ==
  ASSUME LogsNumbered, UNCHANGED <<phonelogs, log_seq>>
  PROVE  LogsNumbered' /\ Announced
BY DEF LogsNumbered, Announced

LEMMA StepAnnounces ==
  ASSUME LogsNumbered, Next
  PROVE  LogsNumbered' /\ Announced
<1>1. CASE \E e \in Entries, counted \in BOOLEAN : Insert(e, counted)
  BY <1>1, InsertAnnounces
<1>2. CASE \E i \in DOMAIN phonelogs : DeleteById(i)
  BY <1>2, DeleteAnnounces DEF DeleteById
<1>3. CASE \E e \in Entries : e.number # Null /\ DeleteByNumber(e.number)
  BY <1>3, DeleteAnnounces DEF DeleteByNumber
<1>4. CASE DeleteNoNumber
  BY <1>4, DeleteAnnounces DEF DeleteNoNumber
<1>5. CASE \E e \in Entries : DeleteByMsgid(e.data1)
  BY <1>5, DeleteByMsgidAnnounces
<1>6. CASE \E i \in DOMAIN phonelogs \cup {0}, type \in {NONE, VOICE_UNSEEN, VIDEO_UNSEEN} :
             Offered(i, type) /\ SetSeen(i, type)
  BY <1>6, SetSeenAnnounces
<1>7. CASE RolledBack
  BY <1>7, LogUnchanged DEF RolledBack, logVars
<1>8. CASE ContactCalls
  BY <1>8, LogUnchanged
  DEF ContactCalls, InsertContact, UpdateContact, DeleteContact, LinkPerson,
      ResetOutgoingCount, SetFavorite, UnsetFavorite, Overwrite, logVars
<1> QED
  BY <1>1, <1>2, <1>3, <1>4, <1>5, <1>6, <1>7, <1>8 DEF Next, LogCalls

\* Whatever is logged, deleted or seen, and whatever the contacts are: the set
\* of missed calls not seen yet changes only in calls that publish it
\* (cts-phonelog.c, cts_set_missed_call_noti).
THEOREM MissedCallsAnnounced == Spec => MissedCallAnnounced
<1>1. Init => LogsNumbered
  BY DEF Init, LogsNumbered
<1>2. LogsNumbered /\ [Next]_vars => LogsNumbered' /\ [Announced]_vars
  BY StepAnnounces, LogUnchanged DEF vars
<1>3. [Announced]_vars =>
        [/\ DOMAIN CTS_LIST_ALL_UNSEEN_MISSED_CALL # DOMAIN CTS_LIST_ALL_UNSEEN_MISSED_CALL'
              => "missed" \in published'
         /\ phonelogs # phonelogs' => "plog" \in published']_vars
  <2>1. (DOMAIN CTS_LIST_ALL_UNSEEN_MISSED_CALL)' = UnseenCalls(phonelogs')
    BY DEF CTS_LIST_ALL_UNSEEN_MISSED_CALL, Logs, UnseenCalls
  <2> QED
    BY <2>1, ListIsUnseenCalls DEF Announced
<1> QED
  BY <1>1, <1>2, <1>3, PTL DEF Spec, MissedCallAnnounced

-----------------------------------------------------------------------------
(* Every entry keeps the key its number had when it was written, and every  *)
(* row, unless a favorite wrote over it.                                    *)

Logged(l) ==
  /\ l = [number |-> l.number, related_id |-> l.related_id, log_type |-> l.log_type,
          log_time |-> l.log_time, data1 |-> l.data1, normal_num |-> l.normal_num]
  /\ l.number \in Numbers
  /\ l.log_type \in 1..EMAIL_SENT
  /\ l.normal_num = IF l.log_type < EMAIL_RECEIVED THEN NormalNum(l.number, <<>>) ELSE Null

LogsKeyed ==
  /\ LogsNumbered /\ log_seq <= MaxLogs
  /\ \A i \in DOMAIN phonelogs : Logged(phonelogs[i])
  /\ published \subseteq {"plog", "missed"}

AllRows ==
  (UNION {RowsWritten(w, beyond) : w \in Writings, beyond \in Leftovers})
    \cup [datatype : {"number"}, data2 : Numbers, data3 : FavoriteKeys]

RowsKeyed ==
  /\ contact_seq \in Nat /\ contact_seq <= MaxContacts
  /\ DOMAIN contacts \subseteq 1..contact_seq
  /\ contacts \in [DOMAIN contacts -> [person_id : Nat, rows : SUBSET AllRows]]

\* A person goes by the id of its primary contact.
PersonsPrimary ==
  /\ \A c \in DOMAIN contacts : contacts[c].person_id \in DOMAIN persons
  /\ \A p \in DOMAIN persons : p \in DOMAIN contacts /\ contacts[p].person_id = p

PInv == LogsKeyed /\ RowsKeyed /\ PersonsPrimary

LEMMA InsertKeys ==
  ASSUME LogsKeyed, NEW e \in Entries, NEW counted, Insert(e, counted)
  PROVE  LogsKeyed'
<1> DEFINE id == log_seq + 1
<1>1. LogsNumbered' /\ log_seq' = id /\ id <= MaxLogs
  <2>1. LogsNumbered'
    BY InsertAnnounces DEF LogsKeyed
  <2>2. log_seq < MaxLogs /\ log_seq' = id /\ log_seq \in Nat
    BY DEF Insert, LogsKeyed, LogsNumbered
  <2> QED
    BY <2>1, <2>2, ConstantsAssumption
<1>2. phonelogs' = With(phonelogs, id, LogOf(e))
  BY DEF Insert
<1>3. Logged(LogOf(e))
  <2>1. e.number \in Numbers
    BY DEF Numbers
  <2>2. e.log_type \in 1..EMAIL_SENT
    BY ConstantsAssumption
  <2> QED
    BY <2>1, <2>2 DEF Logged, LogOf
<1>4. \A i \in DOMAIN phonelogs' : Logged(phonelogs'[i])
  BY <1>2, <1>3 DEF With, LogsKeyed
<1>5. published' \subseteq {"plog", "missed"}
  BY DEF Insert
<1> QED
  BY <1>1, <1>4, <1>5 DEF LogsKeyed

LEMMA DeleteKeys ==
  ASSUME LogsKeyed, NEW S, NEW notices \in SUBSET {"plog", "missed"}, Delete(S, notices)
  PROVE  LogsKeyed'
<1>1. /\ LogsNumbered' /\ log_seq' = log_seq
      /\ \A i \in DOMAIN phonelogs' : i \in DOMAIN phonelogs /\ phonelogs'[i] = phonelogs[i]
      /\ published' = notices
  BY DeleteKeeps DEF LogsKeyed, Delete
<1> QED
  BY <1>1 DEF LogsKeyed

\* Only missed calls are marked as seen.
LEMMA SeenIsMissed ==
  ASSUME NEW index, NEW type \in {NONE, VOICE_UNSEEN, VIDEO_UNSEEN}, Offered(index, type),
         NEW i \in Seen(index, type), i \in DOMAIN phonelogs
  PROVE  /\ phonelogs[i].log_type \in 5..8
         /\ SeenType(phonelogs[i], index, type) \in 5..8
<1>1. CASE index = 0 /\ type = NONE
  BY <1>1 DEF Seen, SeenType, Logs, Unseen, VOICE_UNSEEN, VIDEO_UNSEEN
<1>2. CASE index = 0 /\ type # NONE
  BY <1>2 DEF Seen, SeenType, Logs, NONE, VOICE_UNSEEN, VIDEO_UNSEEN
<1>3. CASE index # 0
  <2>1. i = index
    BY <1>3 DEF Seen
  <2>2. type # NONE /\ phonelogs[i].log_type \in {type, type + 1}
    BY <1>3, <2>1 DEF Offered, Logs
  <2> QED
    BY <1>3, <2>2 DEF SeenType, NONE, VOICE_UNSEEN, VIDEO_UNSEEN
<1> QED
  BY <1>1, <1>2, <1>3

\* An unseen call becomes a seen one: no call becomes a message or an e-mail.
LEMMA SetSeenKeys ==
  ASSUME LogsKeyed, NEW index, NEW type \in {NONE, VOICE_UNSEEN, VIDEO_UNSEEN},
         Offered(index, type), SetSeen(index, type)
  PROVE  LogsKeyed'
<1> DEFINE S == Seen(index, type)
<1>1. LogsNumbered' /\ log_seq' = log_seq /\ published' \subseteq {"plog", "missed"}
  BY SetSeenAnnounces DEF LogsKeyed, SetSeen, SeenNotices
<1>2. /\ DOMAIN phonelogs' = DOMAIN phonelogs
      /\ \A i \in DOMAIN phonelogs : phonelogs'[i] =
           IF i \in S THEN [phonelogs[i] EXCEPT !.log_type = SeenType(phonelogs[i], index, type)]
           ELSE phonelogs[i]
  BY DEF SetSeen
<1>3. ASSUME NEW i \in DOMAIN phonelogs, i \in S
      PROVE  phonelogs[i].log_type \in 5..8 /\ SeenType(phonelogs[i], index, type) \in 5..8
  BY <1>3, SeenIsMissed
<1>4. ASSUME NEW i \in DOMAIN phonelogs
      PROVE  Logged(phonelogs'[i])
  <2> DEFINE l == phonelogs[i]
  <2>1. Logged(l)
    BY DEF LogsKeyed
  <2>2. CASE i \in S
    <3>1. PICK t \in 5..8 : phonelogs'[i] = [l EXCEPT !.log_type = t]
      BY <1>2, <1>3, <2>2
    <3>2. phonelogs'[i] = [number |-> l.number, related_id |-> l.related_id, log_type |-> t,
                           log_time |-> l.log_time, data1 |-> l.data1, normal_num |-> l.normal_num]
      BY <2>1, <3>1 DEF Logged
    <3>3. l.normal_num = NormalNum(l.number, <<>>) /\ l.number \in Numbers
      BY <1>3, <2>1, <2>2 DEF Logged, EMAIL_RECEIVED
    <3> QED
      BY <3>2, <3>3 DEF Logged, EMAIL_RECEIVED, EMAIL_SENT
  <2>3. CASE i \notin S
    BY <1>2, <2>1, <2>3
  <2> QED
    BY <2>2, <2>3
<1> QED
  BY <1>1, <1>2, <1>4 DEF LogsKeyed

LEMMA LogKept ==
  ASSUME LogsKeyed, UNCHANGED <<phonelogs, log_seq>>, published' \subseteq {"plog", "missed"}
  PROVE  LogsKeyed'
BY DEF LogsKeyed, LogsNumbered

-----------------------------------------------------------------------------
(* The contacts and their persons.                                          *)

LEMMA WithContact ==
  ASSUME RowsKeyed, NEW w \in Writings, NEW beyond \in Leftovers, InsertContact(w, beyond)
  PROVE  RowsKeyed' /\ (PersonsPrimary => PersonsPrimary')
<1> DEFINE c == contact_seq + 1
           new == [person_id |-> c, rows |-> RowsWritten(w, beyond)]
<1>1. /\ contact_seq' = c /\ contact_seq < MaxContacts
      /\ contacts' = With(contacts, c, new) /\ persons' = With(persons, c, 0)
  BY DEF InsertContact
<1>2. c \in Nat /\ c <= MaxContacts /\ c \notin DOMAIN contacts
  BY <1>1, ConstantsAssumption DEF RowsKeyed
<1>3. new \in [person_id : Nat, rows : SUBSET AllRows]
  <2>1. RowsWritten(w, beyond) \subseteq AllRows
    BY DEF AllRows
  <2> QED
    BY <1>2, <2>1
<1>4. /\ DOMAIN contacts' = DOMAIN contacts \cup {c}
      /\ contacts'[c] = new /\ contacts'[c].person_id = c
      /\ \A x \in DOMAIN contacts : contacts'[x] = contacts[x]
      /\ contacts' = [x \in DOMAIN contacts \cup {c} |-> contacts'[x]]
  BY <1>1, <1>2 DEF With
<1>5. DOMAIN persons' = DOMAIN persons \cup {c}
  BY <1>1 DEF With
<1>6. RowsKeyed'
  <2> HIDE DEF new
  <2>1. DOMAIN contacts' \subseteq 1..contact_seq'
    BY <1>1, <1>2, <1>4 DEF RowsKeyed
  <2>2. contacts' \in [DOMAIN contacts' -> [person_id : Nat, rows : SUBSET AllRows]]
    BY <1>3, <1>4 DEF RowsKeyed
  <2> QED
    BY <1>1, <1>2, <2>1, <2>2 DEF RowsKeyed
<1>7. ASSUME PersonsPrimary
      PROVE  PersonsPrimary'
  BY <1>2, <1>4, <1>5, <1>7 DEF PersonsPrimary
<1> QED
  BY <1>6, <1>7

\* Contacts that keep their rows and go to other persons.
LEMMA RowsKept ==
  ASSUME RowsKeyed, UNCHANGED contact_seq, DOMAIN contacts' \subseteq DOMAIN contacts,
         NEW f, \A x \in DOMAIN contacts' : f[x] \in Nat,
         contacts' = [x \in DOMAIN contacts' |-> [contacts[x] EXCEPT !.person_id = f[x]]]
  PROVE  RowsKeyed' /\ \A x \in DOMAIN contacts' : contacts'[x].person_id = f[x]
<1>1. ASSUME NEW x \in DOMAIN contacts'
      PROVE  /\ contacts'[x] \in [person_id : Nat, rows : SUBSET AllRows]
             /\ contacts'[x].person_id = f[x]
  <2>1. contacts[x] \in [person_id : Nat, rows : SUBSET AllRows]
    BY DEF RowsKeyed
  <2>2. contacts'[x] = [contacts[x] EXCEPT !.person_id = f[x]]
    OBVIOUS
  <2> QED
    BY <2>1, <2>2
<1>2. contacts' \in [DOMAIN contacts' -> [person_id : Nat, rows : SUBSET AllRows]]
  BY <1>1
<1> QED
  BY <1>1, <1>2 DEF RowsKeyed

LEMMA UpdatedContact ==
  ASSUME RowsKeyed, NEW c \in DOMAIN contacts, NEW w \in Writings, NEW beyond \in Leftovers,
         UpdateContact(c, w, beyond)
  PROVE  RowsKeyed' /\ (PersonsPrimary => PersonsPrimary')
<1> DEFINE R == [person_id : Nat, rows : SUBSET AllRows]
<1>1. contacts' = [contacts EXCEPT ![c].rows = RowsWritten(w, beyond)] /\ UNCHANGED <<contact_seq, persons>>
  BY DEF UpdateContact
<1>2. RowsWritten(w, beyond) \subseteq AllRows
  BY DEF AllRows
<1>3. DOMAIN contacts' = DOMAIN contacts /\ contacts' = [x \in DOMAIN contacts' |-> contacts'[x]]
  BY <1>1
<1>4. ASSUME NEW x \in DOMAIN contacts
      PROVE  contacts'[x] \in R /\ contacts'[x].person_id = contacts[x].person_id
  <2>1. contacts[x] \in R
    BY DEF RowsKeyed
  <2>2. contacts'[x] = IF x = c THEN [contacts[x] EXCEPT !.rows = RowsWritten(w, beyond)]
                       ELSE contacts[x]
    BY <1>1
  <2> QED
    BY <1>2, <2>1, <2>2
<1>5. contacts' \in [DOMAIN contacts' -> R]
  BY <1>3, <1>4
<1>6. RowsKeyed'
  BY <1>1, <1>3, <1>5 DEF RowsKeyed
<1>7. ASSUME PersonsPrimary
      PROVE  PersonsPrimary'
  BY <1>1, <1>3, <1>4, <1>7 DEF PersonsPrimary
<1> QED
  BY <1>6, <1>7

LEMMA WithoutContact ==
  ASSUME RowsKeyed, PersonsPrimary, NEW c \in DOMAIN contacts, NEW heir \in DOMAIN contacts,
         DeleteContact(c, heir)
  PROVE  RowsKeyed' /\ PersonsPrimary'
<1> DEFINE f == [x \in DOMAIN contacts |-> IF contacts[x].person_id = c THEN heir
                                           ELSE contacts[x].person_id]
<1>1. /\ DOMAIN contacts' = DOMAIN contacts \ {c}
      /\ contacts' = [x \in DOMAIN contacts' |-> [contacts[x] EXCEPT !.person_id = f[x]]]
      /\ UNCHANGED contact_seq
  BY DEF DeleteContact
<1>2. \A x \in DOMAIN contacts' : f[x] \in Nat
  BY <1>1 DEF RowsKeyed
<1>3. RowsKeyed' /\ \A x \in DOMAIN contacts' : contacts'[x].person_id = f[x]
  <2> HIDE DEF f
  <2> QED
    BY <1>1, <1>2, RowsKept
<1>4. CASE Members(c) \ {c} # {}
  <2>1. /\ heir \in Members(c) \ {c}
        /\ DOMAIN persons' = (DOMAIN persons \ {c}) \cup {heir}
    BY <1>4 DEF DeleteContact, With, Others
  <2>2. contacts[heir].person_id = c /\ heir # c
    BY <2>1 DEF Members
  <2> QED
    BY <1>1, <1>3, <2>1, <2>2 DEF PersonsPrimary
<1>5. CASE Members(c) \ {c} = {}
  <2>1. DOMAIN persons' = DOMAIN persons \ {c}
    BY <1>5 DEF DeleteContact, Others
  <2>2. \A x \in DOMAIN contacts' : contacts[x].person_id # c
    BY <1>1, <1>5 DEF Members
  <2> QED
    BY <1>1, <1>3, <2>1, <2>2 DEF PersonsPrimary
<1> QED
  BY <1>3, <1>4, <1>5

\* A row is what was written, or a number with a favorite's mark for a key.
LEMMA RowIsKeyedOrMarked ==
  ASSUME NEW r \in AllRows, r.datatype = "number"
  PROVE  /\ r = [datatype |-> "number", data2 |-> r.data2, data3 |-> r.data3]
         /\ r.data2 \in Numbers
         /\ r.data3 \in FavoriteKeys
              \/ \E beyond \in Leftovers : r.data3 = NormalNum(r.data2, beyond)
<1>1. CASE r \in [datatype : {"number"}, data2 : Numbers, data3 : FavoriteKeys]
  BY <1>1
<1>2. CASE r \notin [datatype : {"number"}, data2 : Numbers, data3 : FavoriteKeys]
  <2>1. PICK w \in Writings, beyond \in Leftovers : r \in RowsWritten(w, beyond)
    BY <1>2 DEF AllRows
  <2>2. PICK q \in w : r = [datatype |-> q.datatype, data2 |-> q.data2,
                            data3 |-> IF q.datatype = "number" THEN NormalNum(q.data2, beyond) ELSE Null]
    BY <2>1 DEF RowsWritten
  <2>3. q.datatype = "number"
    BY <2>2
  <2>4. r = [datatype |-> "number", data2 |-> q.data2, data3 |-> NormalNum(q.data2, beyond)]
    BY <2>2, <2>3
  <2>5. q.data2 \in Numbers
    BY DEF Numbers
  <2> QED
    BY <2>4, <2>5
<1> QED
  BY <1>1, <1>2

LEMMA MarkedRows ==
  ASSUME RowsKeyed, NEW marked \in SUBSET NumberRows, NEW key \in FavoriteKeys,
         Overwrite(marked, key)
  PROVE  RowsKeyed' /\ (PersonsPrimary => PersonsPrimary')
<1> DEFINE R == [person_id : Nat, rows : SUBSET AllRows]
           Marks(c, rows) == {IF <<c, r>> \in marked THEN [r EXCEPT !.data3 = key] ELSE r : r \in rows}
<1>1. /\ contacts' = [c \in DOMAIN contacts |-> [contacts[c] EXCEPT !.rows = Marks(c, @)]]
      /\ UNCHANGED <<contact_seq, persons>>
  BY DEF Overwrite
<1>2. ASSUME NEW c \in DOMAIN contacts, NEW r \in contacts[c].rows, <<c, r>> \in marked
      PROVE  [r EXCEPT !.data3 = key] \in AllRows
  <2>1. r \in AllRows
    BY DEF RowsKeyed
  <2>2. r.datatype = "number"
    BY <1>2 DEF NumberRows
  <2>3. r = [datatype |-> "number", data2 |-> r.data2, data3 |-> r.data3] /\ r.data2 \in Numbers
    BY <2>1, <2>2, RowIsKeyedOrMarked
  <2>4. [r EXCEPT !.data3 = key] = [datatype |-> "number", data2 |-> r.data2, data3 |-> key]
    BY <2>3
  <2>5. [datatype |-> "number", data2 |-> r.data2, data3 |-> key]
          \in [datatype : {"number"}, data2 : Numbers, data3 : FavoriteKeys]
    BY <2>3
  <2> QED
    BY <2>4, <2>5 DEF AllRows
<1>3. ASSUME NEW c \in DOMAIN contacts
      PROVE  Marks(c, contacts[c].rows) \in SUBSET AllRows
  <2>1. contacts[c].rows \subseteq AllRows
    BY DEF RowsKeyed
  <2> QED
    BY <1>2, <2>1
<1>4. DOMAIN contacts' = DOMAIN contacts /\ contacts' = [x \in DOMAIN contacts' |-> contacts'[x]]
  BY <1>1
<1>5. ASSUME NEW x \in DOMAIN contacts
      PROVE  contacts'[x] \in R /\ contacts'[x].person_id = contacts[x].person_id
  <2>1. contacts[x] \in R
    BY DEF RowsKeyed
  <2>2. contacts'[x] = [contacts[x] EXCEPT !.rows = Marks(x, contacts[x].rows)]
    BY <1>1
  <2> HIDE DEF Marks
  <2> QED
    BY <1>3, <2>1, <2>2
<1>6. contacts' \in [DOMAIN contacts' -> R]
  BY <1>4, <1>5
<1>7. RowsKeyed'
  BY <1>1, <1>4, <1>6 DEF RowsKeyed
<1>8. ASSUME PersonsPrimary
      PROVE  PersonsPrimary'
  BY <1>1, <1>4, <1>5, <1>8 DEF PersonsPrimary
<1> QED
  BY <1>7, <1>8

LEMMA LinkedPersons ==
  ASSUME RowsKeyed, PersonsPrimary, NEW base \in DOMAIN persons, NEW sub \in DOMAIN persons,
         LinkPerson(base, sub)
  PROVE  RowsKeyed' /\ PersonsPrimary'
<1> DEFINE f == [x \in DOMAIN contacts |-> IF contacts[x].person_id = sub THEN base
                                           ELSE contacts[x].person_id]
<1>1. /\ DOMAIN contacts' = DOMAIN contacts
      /\ contacts' = [x \in DOMAIN contacts' |-> [contacts[x] EXCEPT !.person_id = f[x]]]
      /\ UNCHANGED contact_seq
      /\ DOMAIN persons' = DOMAIN persons \ {sub} /\ base # sub
  BY DEF LinkPerson, Linked
<1>2. \A x \in DOMAIN contacts' : f[x] \in Nat
  BY <1>1 DEF RowsKeyed, PersonsPrimary
<1>3. RowsKeyed' /\ \A x \in DOMAIN contacts' : contacts'[x].person_id = f[x]
  <2> HIDE DEF f
  <2> QED
    BY <1>1, <1>2, RowsKept
<1> QED
  BY <1>1, <1>3 DEF PersonsPrimary

LEMMA PersonsKept ==
  ASSUME RowsKeyed, PersonsPrimary, UNCHANGED <<contacts, contact_seq>>,
         DOMAIN persons' = DOMAIN persons
  PROVE  RowsKeyed' /\ PersonsPrimary'
BY DEF RowsKeyed, PersonsPrimary

LEMMA LogCallsKeep ==
  ASSUME PInv, LogCalls
  PROVE  PInv'
<1> USE DEF PInv
<1>1. ASSUME NEW e \in Entries, NEW counted \in BOOLEAN, Insert(e, counted)
      PROVE  PInv'
  <2>1. UNCHANGED <<contacts, contact_seq>> /\ DOMAIN persons' = DOMAIN persons
    BY <1>1 DEF Insert, cts_increase_outgoing_count
  <2> QED
    BY <1>1, <2>1, InsertKeys, PersonsKept
<1>2. ASSUME NEW S, NEW notices \in SUBSET {"plog", "missed"}, Delete(S, notices)
      PROVE  PInv'
  <2>1. UNCHANGED <<contacts, contact_seq, persons>>
    BY <1>2 DEF Delete
  <2> QED
    BY <1>2, <2>1, DeleteKeys, PersonsKept
<1>3. ASSUME NEW index, NEW type \in {NONE, VOICE_UNSEEN, VIDEO_UNSEEN},
             Offered(index, type), SetSeen(index, type)
      PROVE  PInv'
  <2>1. UNCHANGED <<contacts, contact_seq, persons>>
    BY <1>3 DEF SetSeen
  <2> QED
    BY <1>3, <2>1, SetSeenKeys, PersonsKept
<1>4. CASE RolledBack
  <2>1. UNCHANGED <<phonelogs, log_seq, contacts, contact_seq, persons>> /\ published' = {}
    BY <1>4 DEF RolledBack, logVars, contactVars
  <2> QED
    BY <2>1, LogKept, PersonsKept
<1>5. DelNotices \in SUBSET {"plog", "missed"} /\ {"plog"} \in SUBSET {"plog", "missed"}
  BY DEF DelNotices
<1>6. CASE \E i \in DOMAIN phonelogs : DeleteById(i)
  BY <1>2, <1>5, <1>6 DEF DeleteById
<1>7. CASE \E e \in Entries : e.number # Null /\ DeleteByNumber(e.number)
  BY <1>2, <1>5, <1>7 DEF DeleteByNumber
<1>8. CASE DeleteNoNumber
  BY <1>2, <1>5, <1>8 DEF DeleteNoNumber
<1>9. CASE \E e \in Entries : DeleteByMsgid(e.data1)
  BY <1>2, <1>5, <1>9 DEF DeleteByMsgid
<1> QED
  BY <1>1, <1>3, <1>4, <1>6, <1>7, <1>8, <1>9 DEF LogCalls

LEMMA ContactCallsKeep ==
  ASSUME PInv, ContactCalls
  PROVE  PInv'
<1> USE DEF PInv
<1>1. UNCHANGED <<phonelogs, log_seq>> /\ published' = {}
  BY DEF ContactCalls, InsertContact, UpdateContact, DeleteContact, LinkPerson,
     ResetOutgoingCount, SetFavorite, UnsetFavorite, Overwrite, logVars
<1>2. LogsKeyed'
  BY <1>1, LogKept
<1>3. CASE \E w \in Writings, beyond \in Leftovers : InsertContact(w, beyond)
  BY <1>2, <1>3, WithContact
<1>4. CASE \E c \in DOMAIN contacts, w \in Writings, beyond \in Leftovers :
             UpdateContact(c, w, beyond)
  BY <1>2, <1>4, UpdatedContact
<1>5. CASE \E c, heir \in DOMAIN contacts : DeleteContact(c, heir)
  BY <1>2, <1>5, WithoutContact
<1>6. CASE \E base, sub \in DOMAIN persons : LinkPerson(base, sub)
  BY <1>2, <1>6, LinkedPersons
<1>7. CASE \E p \in DOMAIN persons : ResetOutgoingCount(p)
  <2>1. UNCHANGED <<contacts, contact_seq>> /\ DOMAIN persons' = DOMAIN persons
    BY <1>7 DEF ResetOutgoingCount
  <2> QED
    BY <1>2, <2>1, PersonsKept
<1>8. CASE SetFavorite
  <2>1. PICK marked \in SUBSET NumberRows : Overwrite(marked, <<1>>)
    BY <1>8 DEF SetFavorite
  <2> QED
    BY <1>2, <2>1, MarkedRows DEF FavoriteKeys
<1>9. CASE UnsetFavorite
  <2>1. PICK row \in NumberRows : Overwrite({row}, <<0>>)
    BY <1>9 DEF UnsetFavorite
  <2> QED
    BY <1>2, <2>1, MarkedRows DEF FavoriteKeys
<1> QED
  BY <1>3, <1>4, <1>5, <1>6, <1>7, <1>8, <1>9 DEF ContactCalls

\* No call of the log or of the contacts changes a number and not its key; only
\* a favorite changes a key and not its number.
THEOREM KeysAreKept == Spec => []PInv
<1>1. Init => PInv
  BY ConstantsAssumption
  DEF Init, PInv, LogsKeyed, LogsNumbered, RowsKeyed, PersonsPrimary
<1>2. PInv /\ [Next]_vars => PInv'
  <2>1. CASE UNCHANGED vars
    BY <2>1 DEF vars, PInv, LogsKeyed, LogsNumbered, RowsKeyed, PersonsPrimary
  <2> QED
    BY <2>1, LogCallsKeep, ContactCallsKeep DEF Next
<1> QED
  BY <1>1, <1>2, PTL DEF Spec

\* Ids, kinds and keys of what cts-phonelog.c and the contacts' writes leave in
\* the tables; every person goes by the id of a contact it has.
THEOREM LogIsTyped == Spec => []TypeOK
<1>1. PInv => TypeOK
  <2> SUFFICES ASSUME PInv PROVE TypeOK
    OBVIOUS
  <2>1. /\ log_seq \in 0..MaxLogs /\ DOMAIN phonelogs \subseteq 1..log_seq
        /\ contact_seq \in 0..MaxContacts /\ DOMAIN contacts \subseteq 1..contact_seq
        /\ published \subseteq {"plog", "missed"}
    BY ConstantsAssumption DEF PInv, LogsKeyed, LogsNumbered, RowsKeyed
  <2>2. \A i \in DOMAIN phonelogs : Logged(phonelogs[i])
    BY DEF PInv, LogsKeyed
  <2>3. DOMAIN persons = {contacts[c].person_id : c \in DOMAIN contacts}
    BY DEF PInv, PersonsPrimary
  <2>4. DOMAIN persons \subseteq DOMAIN contacts
    BY DEF PInv, PersonsPrimary
  <2> QED
    BY <2>1, <2>2, <2>3, <2>4 DEF TypeOK, Logged
<1> QED
  BY <1>1, KeysAreKept, PTL

-----------------------------------------------------------------------------
(* The lists.                                                               *)

\* A number that names its country code whole has the same key whatever lies
\* behind it.
LEMMA KeyIsDetermined ==
  ASSUME NEW number, number # Null => Complete(cts_clean_number(number)), NEW beyond
  PROVE  NormalNum(number, beyond) = NormalNum(number, <<>>)
BY DEF NormalNum, cts_normalize_number, cts_clean_country_code, Complete

LEMMA SmallestContact ==
  ASSUME NEW S, S \subseteq Nat, S # {}
  PROVE  Min(S) \in S /\ \A y \in S : Min(S) <= y
<1> DEFINE R == {ss \in Nat \X Nat : ss[1] < ss[2]}
<1>1. R = OpToRel(<, Nat)
  BY Zenon DEF OpToRel
<1>2. IsWellFoundedOn(R, Nat)
  BY <1>1, NatLessThanWellFounded
<1>3. PICK x \in S : \A y \in S : ~(<<y, x>> \in R)
  <2> HIDE DEF R
  <2> QED
    BY <1>2, WFMin
<1>4. \A y \in S : x <= y
  <2> SUFFICES ASSUME NEW y \in S PROVE x <= y
    OBVIOUS
  <2>1. <<y, x>> \in Nat \X Nat
    OBVIOUS
  <2>2. ~(y < x)
    BY <1>3, <2>1
  <2> QED
    BY <2>2
<1> QED
  BY <1>4 DEF Min

Owners(s) == {c \in DOMAIN contacts : HasWriting(c, s)}

\* The join finds the contacts that have the subscriber's number, however they
\* and the log write it.
LEMMA JoinFindsOwners ==
  ASSUME PInv, NEW s \in Subscribers, NEW m \in s, NEW c
  PROVE  Has(c, "number", NormalNum(m, <<>>)) <=> c \in Owners(s)
<1> DEFINE key == NormalNum(m, <<>>)
<1>1. key # Null
  BY SubscribersAssumption
<1>2. ASSUME NEW x \in DOMAIN contacts, NEW r \in contacts[x].rows, r.datatype = "number"
      PROVE  r.data3 = key <=> (r.data2 \in s /\ r.data3 \notin FavoriteKeys)
  <2>1. r \in AllRows
    BY DEF PInv, RowsKeyed
  <2>2. /\ r.data2 \in Numbers
        /\ r.data3 \in FavoriteKeys \/ \E b \in Leftovers : r.data3 = NormalNum(r.data2, b)
    BY <1>2, <2>1, RowIsKeyedOrMarked
  <2>3. \A n \in Numbers, b \in Leftovers \cup {<<>>} : NormalNum(n, b) = key <=> n \in s
    BY SubscribersAssumption
  <2>4. key \notin FavoriteKeys
    BY SubscribersAssumption
  <2>5. CASE r.data3 \in FavoriteKeys
    BY <2>4, <2>5
  <2>6. CASE r.data3 \notin FavoriteKeys
    <3>1. PICK b \in Leftovers : r.data3 = NormalNum(r.data2, b)
      BY <2>2, <2>6
    <3>2. NormalNum(r.data2, b) = key <=> r.data2 \in s
      BY <2>2, <2>3
    <3> QED
      BY <2>6, <3>1, <3>2
  <2> QED
    BY <2>5, <2>6
<1> QED
  BY <1>1, <1>2 DEF Has, Owners, HasWriting

\* What KnownCallerShown says of an entry.
LEMMA EntryShown ==
  ASSUME PInv, NEW s \in Subscribers, NEW i \in DOMAIN CTS_LIST_ALL_PLOG, phonelogs[i].number \in s
  PROVE  LET l == phonelogs[i]
             shown == CTS_LIST_ALL_PLOG[i]
         IN /\ Owners(s) = {} => shown = Null
            /\ Owners(s) # {} =>
                 /\ shown \in Owners(s)
                 /\ l.related_id \in Owners(s) => shown = l.related_id
                 /\ i \in CTS_LIST_PLOG_OF_PERSON_ID(contacts[shown].person_id)
            /\ \A beyond \in Leftovers :
                 /\ CTS_LIST_PLOGS_OF_NUMBER(l.number, beyond)[i] = shown
                 /\ CTS_FIND_BY_NUMBER(l.number, beyond) = Owners(s)
<1> DEFINE l == phonelogs[i]
           key == NormalNum(l.number, <<>>)
           shown == CTS_LIST_ALL_PLOG[i]
           chosen == {c \in Owners(s) : l.related_id \in {0, c} \/ l.related_id \notin Owners(s)}
<1>1. i \in DOMAIN phonelogs /\ l.log_type < EMAIL_RECEIVED /\ shown = Shown(l, "number", l.normal_num)
  BY DEF CTS_LIST_ALL_PLOG, Logs
<1>2. l.normal_num = key /\ l.number \in Numbers
  BY <1>1 DEF PInv, LogsKeyed, Logged
<1>3. \A c : Has(c, "number", key) <=> c \in Owners(s)
  BY JoinFindsOwners
<1>4. Owners(s) \subseteq DOMAIN contacts /\ Owners(s) \subseteq Nat /\ 0 \notin Owners(s)
  BY DEF Owners, PInv, RowsKeyed
<1>5. Joined(l, "number", key) = chosen
  BY <1>3, <1>4 DEF Joined
<1>6. shown = IF chosen = {} THEN Null ELSE Min(chosen)
  BY <1>1, <1>2, <1>5 DEF Shown
<1>7. Owners(s) # {} => chosen # {}
  BY <1>4
<1>8. chosen # {} => shown \in chosen
  BY <1>4, <1>6, SmallestContact
<1>9. l.related_id \in Owners(s) /\ chosen # {} => shown = l.related_id
  BY <1>4, <1>8
<1>10. ASSUME Owners(s) # {}
       PROVE  i \in CTS_LIST_PLOG_OF_PERSON_ID(contacts[shown].person_id)
  <2>1. shown \in DOMAIN contacts /\ Has(shown, "number", l.normal_num)
    BY <1>2, <1>3, <1>4, <1>7, <1>8, <1>10
  <2> QED
    BY <1>1, <2>1 DEF CTS_LIST_PLOG_OF_PERSON_ID, Logs, Members
<1>11. ASSUME NEW beyond \in Leftovers
       PROVE  /\ CTS_LIST_PLOGS_OF_NUMBER(l.number, beyond)[i] = shown
              /\ CTS_FIND_BY_NUMBER(l.number, beyond) = Owners(s)
  <2>1. NormalNum(l.number, beyond) = key
    BY <1>2, SubscribersAssumption
  <2>2. CTS_FIND_BY_NUMBER(l.number, beyond) = Owners(s)
    BY <1>3, <1>4, <2>1 DEF CTS_FIND_BY_NUMBER
  <2>3. {c \in DOMAIN contacts : /\ Has(c, "number", l.normal_num)
                                 /\ l.related_id \in {0, c} \/ ~Has(l.related_id, "number", key)} = chosen
    BY <1>2, <1>3, <1>4
  <2>4. i \in Logs(LAMBDA x : x.number = l.number)
    BY <1>1 DEF Logs
  <2>5. CTS_LIST_PLOGS_OF_NUMBER(l.number, beyond)[i] = IF chosen = {} THEN Null ELSE Min(chosen)
    BY <2>1, <2>3, <2>4 DEF CTS_LIST_PLOGS_OF_NUMBER
  <2> QED
    BY <1>6, <2>2, <2>5
<1>12. Owners(s) = {} => shown = Null
  BY <1>6
<1> QED
  BY <1>7, <1>8, <1>9, <1>10, <1>11, <1>12

\* However the numbers of the entries and of the contacts are written, and
\* whatever was inserted, updated, deleted, linked and made a favorite: the lists
\* of cts-list.c show an entry of a subscriber with the same contact that has the
\* number under a key no favorite overwrote, and with none when there is none.
THEOREM CallersAreShown == Spec => []KnownCallerShown
<1>1. PInv => KnownCallerShown
  <2> SUFFICES ASSUME PInv, NEW s \in Subscribers, NEW i \in DOMAIN CTS_LIST_ALL_PLOG,
                      phonelogs[i].number \in s
               PROVE  LET l == phonelogs[i]
                          owners == {c \in DOMAIN contacts : HasWriting(c, s)}
                          shown == CTS_LIST_ALL_PLOG[i]
                      IN /\ owners = {} => shown = Null
                         /\ owners # {} =>
                              /\ shown \in owners
                              /\ l.related_id \in owners => shown = l.related_id
                              /\ i \in CTS_LIST_PLOG_OF_PERSON_ID(contacts[shown].person_id)
                         /\ \A beyond \in Leftovers :
                              /\ CTS_LIST_PLOGS_OF_NUMBER(l.number, beyond)[i] = shown
                              /\ CTS_FIND_BY_NUMBER(l.number, beyond) = owners
    BY DEF KnownCallerShown
  <2> QED
    BY EntryShown DEF Owners
<1> QED
  BY <1>1, KeysAreKept, PTL
-----------------------------------------------------------------------------
(* Every outgoing call is accounted for.                                    *)

\* Induction on the naturals, from their well-foundedness.
LEMMA Induction ==
  ASSUME NEW S, 0 \in S, \A n \in Nat : n \in S => n + 1 \in S
  PROVE  \A n \in Nat : n \in S
<1> DEFINE T == Nat \ S
<1> SUFFICES ASSUME T # {} PROVE FALSE
  OBVIOUS
<1>1. Min(T) \in T /\ \A n \in T : Min(T) <= n
  BY SmallestContact
<1>2. PICK m \in Nat : m \notin S /\ \A n \in Nat : n \notin S => m <= n
  BY <1>1
<1>3. m - 1 \in Nat /\ m - 1 \in S
  BY <1>2
<1> QED
  BY <1>2, <1>3

\* The sums of the history's first calls.
Sums(f, s, n) ==
  /\ f = [i \in 0..n |-> f[i]] /\ f[0] = 0
  /\ \A i \in 1..n : f[i] = f[i - 1] + s[i].data1

LEMMA SumsExist ==
  ASSUME NEW s
  PROVE  \A n \in Nat : \E f : Sums(f, s, n)
<1> DEFINE T == {n \in Nat : \E f : Sums(f, s, n)}
<1>1. 0 \in T
  <2> DEFINE f == [i \in 0..0 |-> 0]
  <2>1. Sums(f, s, 0)
    BY DEF Sums
  <2> QED
    BY <2>1
<1>2. ASSUME NEW n \in Nat, n \in T
      PROVE  n + 1 \in T
  <2>1. PICK f : Sums(f, s, n)
    BY <1>2
  <2> DEFINE g == [i \in 0..n + 1 |-> IF i = n + 1 THEN f[n] + s[i].data1 ELSE f[i]]
  <2>2. /\ g = [i \in 0..n + 1 |-> g[i]] /\ g[0] = f[0]
        /\ \A i \in 0..n : g[i] = f[i]
        /\ g[n + 1] = f[n] + s[n + 1].data1
    OBVIOUS
  <2>3. ASSUME NEW i \in 1..n + 1 PROVE g[i] = g[i - 1] + s[i].data1
    <3>1. CASE i = n + 1
      BY <2>2, <3>1
    <3>2. CASE i \in 1..n
      <4>1. i \in 0..n /\ i - 1 \in 0..n
        BY <3>2
      <4> HIDE DEF g
      <4> QED
        BY <2>1, <2>2, <3>2, <4>1 DEF Sums
    <3> QED
      BY <3>1, <3>2
  <2> HIDE DEF g
  <2>4. Sums(g, s, n + 1)
    BY <2>1, <2>2, <2>3 DEF Sums
  <2> QED
    BY <2>4
<1> HIDE DEF T
<1>3. \A n \in Nat : n \in T
  BY <1>1, <1>2, Induction
<1> QED
  BY <1>3 DEF T

LEMMA SumUnfolds ==
  ASSUME NEW s, Len(s) \in Nat
  PROVE  \E f : Sums(f, s, Len(s)) /\ SumOf(s) = f[Len(s)]
<1> DEFINE P(f) == f = [n \in 0..Len(s) |-> IF n = 0 THEN 0 ELSE f[n - 1] + s[n].data1]
           sum == CHOOSE f : P(f)
<1>1. PICK f : Sums(f, s, Len(s))
  BY SumsExist
<1>2. P(f)
  <2>1. /\ f = [n \in 0..Len(s) |-> f[n]]
        /\ \A n \in 0..Len(s) : f[n] = IF n = 0 THEN 0 ELSE f[n - 1] + s[n].data1
    BY <1>1 DEF Sums
  <2> QED
    BY <2>1
<1>3. P(sum)
  BY <1>2
<1>4. SumOf(s) = sum[Len(s)]
  BY DEF SumOf
<1> HIDE DEF sum
<1>5. Sums(sum, s, Len(s))
  BY <1>3 DEF Sums
<1> QED
  BY <1>4, <1>5

\* A call of the history, or a row of a deleted one.
Made == [log_time : Int, data1 : Int]

LEMMA SumsOfPrefix ==
  ASSUME NEW s \in Seq(Made), NEW n \in 0..Len(s), NEW u,
         \A i \in 1..n : u[i] = s[i],
         NEW f, Sums(f, s, Len(s)), NEW m \in Nat, n <= m, NEW g, Sums(g, u, m)
  PROVE  f[n] = g[n] /\ f[n] \in Int
<1> DEFINE T == {i \in Nat : i <= n => f[i] = g[i] /\ f[i] \in Int}
<1>1. 0 \in T
  BY DEF Sums
<1>2. ASSUME NEW i \in Nat, i \in T
      PROVE  i + 1 \in T
  <2> SUFFICES ASSUME i + 1 <= n PROVE f[i + 1] = g[i + 1] /\ f[i + 1] \in Int
    OBVIOUS
  <2>1. i + 1 \in 1..Len(s) /\ i + 1 \in 1..m /\ i + 1 \in 1..n /\ (i + 1) - 1 = i
    OBVIOUS
  <2>4. /\ \A j \in 1..Len(s) : f[j] = f[j - 1] + s[j].data1
        /\ \A j \in 1..m : g[j] = g[j - 1] + u[j].data1
    BY DEF Sums
  <2>2. f[i + 1] = f[i] + s[i + 1].data1 /\ g[i + 1] = g[i] + u[i + 1].data1 /\ u[i + 1] = s[i + 1]
    <3> DEFINE j == i + 1
    <3>1. j \in 1..Len(s) /\ j \in 1..m /\ j \in 1..n /\ j - 1 = i
      BY <2>1
    <3> HIDE DEF j
    <3>2. f[j] = f[i] + s[j].data1 /\ g[j] = g[i] + u[j].data1 /\ u[j] = s[j]
      BY <2>4, <3>1
    <3> QED
      BY <3>2 DEF j
  <2>3. s[i + 1].data1 \in Int
    <3>1. s[i + 1] \in Made
      BY <2>1, ElementOfSeq
    <3> QED
      BY <3>1 DEF Made
  <2> QED
    BY <1>2, <2>2, <2>3
<1> HIDE DEF T
<1>3. \A i \in Nat : i \in T
  BY <1>1, <1>2, Induction
<1>4. n \in Nat /\ n \in T
  BY <1>3
<1> QED
  BY <1>4 DEF T

LEMMA SumAppend ==
  ASSUME NEW s \in Seq(Made), NEW r \in Made
  PROVE  SumOf(Append(s, r)) = SumOf(s) + r.data1 /\ SumOf(s) \in Int
<1> DEFINE u == Append(s, r)
<1>1. /\ Len(s) \in Nat /\ Len(u) = Len(s) + 1 /\ u[Len(s) + 1] = r
      /\ \A i \in 1..Len(s) : u[i] = s[i]
  OBVIOUS
<1> HIDE DEF u
<1>2. PICK f : Sums(f, s, Len(s)) /\ SumOf(s) = f[Len(s)]
  BY <1>1, SumUnfolds
<1>3. PICK g : Sums(g, u, Len(u)) /\ SumOf(u) = g[Len(u)]
  BY <1>1, SumUnfolds
<1>4. f[Len(s)] = g[Len(s)] /\ f[Len(s)] \in Int
  <2>1. Len(s) \in 0..Len(s) /\ Len(u) \in Nat /\ Len(s) <= Len(u)
    BY <1>1
  <2> QED
    BY <1>1, <1>2, <1>3, <2>1, SumsOfPrefix
<1>5. g[Len(u)] = g[Len(s)] + r.data1
  <2>1. Len(u) \in 1..Len(u) /\ Len(u) - 1 = Len(s)
    BY <1>1
  <2>2. g[Len(u)] = g[Len(u) - 1] + u[Len(u)].data1
    BY <1>3, <2>1 DEF Sums
  <2> QED
    BY <1>1, <2>1, <2>2
<1> QED
  BY <1>2, <1>3, <1>4, <1>5 DEF u

LEMMA SumEmpty == SumOf(<<>>) = 0
<1>1. Len(<<>>) = 0
  OBVIOUS
<1>2. PICK f : Sums(f, <<>>, 0) /\ SumOf(<<>>) = f[0]
  BY <1>1, SumUnfolds
<1> QED
  BY <1>2 DEF Sums

\* What DELETE has left in the accumulation after the rows up to n.
Visits(f, S, n) ==
  /\ f = [i \in 0..n |-> f[i]] /\ f[0] = accumulation
  /\ \A i \in 1..n : f[i] = IF i \in S THEN Trigger(f[i - 1], phonelogs[i]) ELSE f[i - 1]

LEMMA VisitsExist ==
  ASSUME NEW S
  PROVE  \A n \in Nat : \E f : Visits(f, S, n)
<1> DEFINE T == {n \in Nat : \E f : Visits(f, S, n)}
<1>1. 0 \in T
  <2> DEFINE f == [i \in 0..0 |-> accumulation]
  <2>1. Visits(f, S, 0)
    BY DEF Visits
  <2> QED
    BY <2>1
<1>2. ASSUME NEW n \in Nat, n \in T
      PROVE  n + 1 \in T
  <2>1. PICK f : Visits(f, S, n)
    BY <1>2
  <2> DEFINE After(a, i) == IF i \in S THEN Trigger(a, phonelogs[i]) ELSE a
             g == [i \in 0..n + 1 |-> IF i = n + 1 THEN After(f[n], i) ELSE f[i]]
  <2>5. \A i \in 1..n : f[i] = After(f[i - 1], i)
    BY <2>1 DEF Visits
  <2> HIDE DEF After
  <2>2. /\ g = [i \in 0..n + 1 |-> g[i]] /\ g[0] = f[0]
        /\ \A i \in 0..n : g[i] = f[i]
        /\ g[n + 1] = After(f[n], n + 1)
    OBVIOUS
  <2>3. ASSUME NEW i \in 1..n + 1 PROVE g[i] = After(g[i - 1], i)
    <3>1. CASE i = n + 1
      BY <2>2, <3>1
    <3>2. CASE i \in 1..n
      <4>1. i \in 0..n /\ i - 1 \in 0..n
        BY <3>2
      <4> HIDE DEF g
      <4> QED
        BY <2>5, <2>2, <3>2, <4>1
    <3> QED
      BY <3>1, <3>2
  <2> HIDE DEF g
  <2>4. Visits(g, S, n + 1)
    <3>1. g[0] = accumulation
      BY <2>1, <2>2 DEF Visits
    <3> QED
      BY <2>2, <2>3, <3>1 DEF Visits, After
  <2> QED
    BY <2>4
<1> HIDE DEF T
<1>3. \A n \in Nat : n \in T
  BY <1>1, <1>2, Induction
<1> QED
  BY <1>3 DEF T

LEMMA VisitedUnfolds ==
  ASSUME NEW S, log_seq \in Nat
  PROVE  \E f : Visits(f, S, log_seq) /\ Visited(S) = f[log_seq]
<1> DEFINE After(f, n) == IF n = 0 THEN accumulation
                          ELSE IF n \in S THEN Trigger(f[n - 1], phonelogs[n]) ELSE f[n - 1]
           P(f) == f = [n \in 0..log_seq |-> After(f, n)]
           upto == CHOOSE f : P(f)
<1>1. PICK f : Visits(f, S, log_seq)
  BY VisitsExist
<1>2. P(f)
  <2>1. /\ f = [n \in 0..log_seq |-> f[n]]
        /\ \A n \in 0..log_seq : f[n] = After(f, n)
    <3>1. ASSUME NEW n \in 0..log_seq PROVE f[n] = After(f, n)
      <4>1. CASE n = 0
        BY <1>1, <4>1 DEF Visits
      <4>2. CASE n \in 1..log_seq
        BY <1>1, <4>2 DEF Visits
      <4> QED
        BY <4>1, <4>2
    <3>2. f = [n \in 0..log_seq |-> f[n]]
      BY <1>1 DEF Visits
    <3> QED
      BY ONLY <3>1, <3>2
  <2> HIDE DEF After
  <2> QED
    BY <2>1
<1>3. P(upto)
  BY <1>2
<1>4. Visited(S) = upto[log_seq]
  BY DEF Visited
<1> HIDE DEF upto
<1>5. Visits(upto, S, log_seq)
  BY <1>3 DEF Visits
<1> QED
  BY <1>4, <1>5

-----------------------------------------------------------------------------
(* The calls of one time and length, in the log and among the deleted ones. *)

OutAt(log, t, d) ==
  {i \in DOMAIN log : Outgoing(log[i]) /\ log[i].log_time = t /\ log[i].data1 = d}

\* A call was made since that is more than 40 days newer.
Late(made, t) == \E m \in 1..Len(made) : made[m].log_time - Window > t

Balanced(log, kept, made, t, d) ==
  \/ Cardinality(OutAt(log, t, d)) + Times(t, d, kept) = Times(t, d, made)
  \/ Late(made, t)

\* Every outgoing entry was counted when it was made.
Dialled(l, made) == Outgoing(l) => \E m \in 1..Len(made) : made[m].log_time = l.log_time

LogTimed(log, made, last) ==
  /\ DOMAIN log \subseteq 1..last
  /\ \A i \in DOMAIN log :
       log[i].log_time \in Int /\ log[i].data1 \in Int /\ Dialled(log[i], made)

KeptRows(a) ==
  /\ a = [calls |-> a.calls, total |-> a.total, kept |-> a.kept, seq |-> a.seq]
  /\ a.seq \in Nat /\ DOMAIN a.kept \subseteq 1..a.seq
  /\ \A i \in DOMAIN a.kept : a.kept[i] \in Made

Accounts(log, a, made, last) ==
  /\ LogTimed(log, made, last)
  /\ KeptRows(a)
  /\ \A t \in Int, d \in Int : Balanced(log, a.kept, made, t, d)

KeptAt(kept, t, d) == {i \in DOMAIN kept : kept[i].log_time = t /\ kept[i].data1 = d}

LEMMA TimesOfKept ==
  ASSUME NEW kept, NEW n \in Nat, DOMAIN kept \subseteq 1..n, NEW t, NEW d
  PROVE  /\ Times(t, d, kept) = Cardinality(KeptAt(kept, t, d))
         /\ IsFiniteSet(KeptAt(kept, t, d))
         /\ Times(t, d, kept) \in Nat
<1>1. KeptAt(kept, t, d) \in SUBSET (1..n)
  BY DEF KeptAt
<1>2. IsFiniteSet(1..n)
  BY FS_Interval
<1>3. IsFiniteSet(KeptAt(kept, t, d))
  BY <1>1, <1>2, FS_Subset
<1>4. Times(t, d, kept) = Cardinality(KeptAt(kept, t, d))
  BY DEF Times, KeptAt
<1> QED
  BY <1>3, <1>4, FS_CardinalityType

LEMMA FiniteOut ==
  ASSUME NEW log, NEW n \in Nat, DOMAIN log \subseteq 1..n, NEW t, NEW d
  PROVE  IsFiniteSet(OutAt(log, t, d)) /\ Cardinality(OutAt(log, t, d)) \in Nat
<1>1. OutAt(log, t, d) \in SUBSET (1..n)
  BY DEF OutAt
<1>2. IsFiniteSet(1..n)
  BY FS_Interval
<1>3. IsFiniteSet(OutAt(log, t, d))
  BY <1>1, <1>2, FS_Subset
<1> QED
  BY <1>3, FS_CardinalityType

\* A log with the same outgoing calls.
LEMMA SameOutgoing ==
  ASSUME NEW log, NEW new, NEW a, NEW made, NEW last, Accounts(log, a, made, last),
         DOMAIN new \subseteq DOMAIN log,
         \A i \in DOMAIN new : /\ new[i].log_time = log[i].log_time
                               /\ new[i].data1 = log[i].data1
                               /\ Outgoing(new[i]) <=> Outgoing(log[i]),
         \A i \in DOMAIN log \ DOMAIN new : ~Outgoing(log[i])
  PROVE  Accounts(new, a, made, last)
<1>1. \A t, d : OutAt(new, t, d) = OutAt(log, t, d)
  BY DEF OutAt
<1>2. LogTimed(new, made, last)
  BY DEF Accounts, LogTimed, Dialled
<1>3. \A t \in Int, d \in Int : Balanced(new, a.kept, made, t, d)
  BY <1>1 DEF Accounts, Balanced
<1> QED
  BY <1>2, <1>3 DEF Accounts


\* What the trigger keeps of an outgoing call: its time and length, and of the
\* rows before all but those that this call makes late.
LEMMA TriggerKeeps ==
  ASSUME NEW a, KeptRows(a), NEW l, Outgoing(l), l.log_time \in Int, l.data1 \in Int
  PROVE  LET b == Trigger(a, l)
             id == a.seq + 1
         IN /\ KeptRows(b) /\ b.seq = id
            /\ b.total = a.total /\ b.calls = a.calls
            /\ id \in DOMAIN b.kept /\ id \notin DOMAIN a.kept
            /\ b.kept[id].log_time = l.log_time /\ b.kept[id].data1 = l.data1
            /\ \A j \in DOMAIN b.kept \ {id} : j \in DOMAIN a.kept /\ b.kept[j] = a.kept[j]
            /\ \A j \in DOMAIN a.kept :
                 a.kept[j].log_time >= l.log_time - Window => j \in DOMAIN b.kept
<1> DEFINE b == Trigger(a, l)
           id == a.seq + 1
           row == [log_time |-> l.log_time, data1 |-> l.data1]
           recent == Recent(a.kept, l.log_time - Window)
           kept == With(recent, id, row)
<1>1. b = [calls |-> a.calls, total |-> a.total, kept |-> kept, seq |-> id]
  <2>1. b = [a EXCEPT !.seq = @ + 1, !.kept = With(Recent(@, l.log_time - Window), a.seq + 1,
                                                  [log_time |-> l.log_time, data1 |-> l.data1])]
    BY DEF Trigger
  <2>2. a = [calls |-> a.calls, total |-> a.total, kept |-> a.kept, seq |-> a.seq]
    BY DEF KeptRows
  <2> QED
    BY <2>1, <2>2
<1>2. /\ b = [calls |-> b.calls, total |-> b.total, kept |-> b.kept, seq |-> b.seq]
      /\ b.seq = id /\ b.kept = kept /\ b.total = a.total /\ b.calls = a.calls
  <2> HIDE DEF b, kept, id
  <2> QED
    BY <1>1
<1>3. /\ DOMAIN kept = DOMAIN recent \cup {id} /\ kept[id] = row
      /\ \A j \in DOMAIN recent : j # id => kept[j] = recent[j]
  BY DEF With
<1>4. /\ DOMAIN recent = {j \in DOMAIN a.kept : a.kept[j].log_time >= l.log_time - Window}
      /\ \A j \in DOMAIN recent : recent[j] = a.kept[j]
  BY DEF Recent
<1>5. /\ row.log_time = l.log_time /\ row.data1 = l.data1 /\ row \in Made
  BY DEF Made
<1>6. a.seq \in Nat /\ DOMAIN a.kept \subseteq 1..a.seq /\ \A j \in DOMAIN a.kept : a.kept[j] \in Made
  BY DEF KeptRows
<1>7. id \in Nat /\ id \notin DOMAIN a.kept
  BY <1>6
<1> HIDE DEF row, recent, kept, b
<1>8. DOMAIN kept \subseteq 1..id /\ \A j \in DOMAIN kept : kept[j] \in Made
  <2>1. DOMAIN a.kept \subseteq 1..id /\ id \in 1..id
    BY <1>6
  <2> HIDE DEF id
  <2> QED
    BY <1>3, <1>4, <1>5, <1>6, <1>7, <2>1
<1>9. KeptRows(b)
  <2> HIDE DEF id
  <2> QED
    BY <1>2, <1>7, <1>8 DEF KeptRows
<1> HIDE DEF id
<1>10. /\ id \in DOMAIN kept
       /\ kept[id].log_time = l.log_time /\ kept[id].data1 = l.data1
       /\ \A j \in DOMAIN kept \ {id} : j \in DOMAIN a.kept /\ kept[j] = a.kept[j]
       /\ \A j \in DOMAIN a.kept : a.kept[j].log_time >= l.log_time - Window => j \in DOMAIN kept
  BY <1>3, <1>4, <1>5
<1> QED
  BY <1>2, <1>7, <1>9, <1>10 DEF b, id

LEMMA TriggerAccounts ==
  ASSUME NEW log, NEW a, NEW made, NEW last \in Nat, Accounts(log, a, made, last),
         NEW i \in DOMAIN log, NEW left, DOMAIN left = DOMAIN log \ {i},
         \A j \in DOMAIN left : left[j] = log[j]
  PROVE  /\ Accounts(left, Trigger(a, log[i]), made, last)
         /\ Trigger(a, log[i]).total = a.total /\ Trigger(a, log[i]).calls = a.calls
<1> DEFINE l == log[i]
           b == Trigger(a, l)
<1>1. CASE ~Outgoing(l)
  <2>1. b = a
    BY <1>1 DEF Trigger
  <2>2. Accounts(left, a, made, last)
    BY <1>1, SameOutgoing
  <2> QED
    BY <2>1, <2>2
<1>2. CASE Outgoing(l)
  <2> DEFINE id == a.seq + 1
  <2>1. /\ l.log_time \in Int /\ l.data1 \in Int /\ KeptRows(a)
        /\ DOMAIN log \subseteq 1..last
        /\ \E m \in 1..Len(made) : made[m].log_time = l.log_time
        /\ \A t \in Int, d \in Int : Balanced(log, a.kept, made, t, d)
    BY <1>2 DEF Accounts, LogTimed, Dialled
  <2>2. /\ KeptRows(b) /\ b.seq = id
        /\ b.total = a.total /\ b.calls = a.calls
        /\ id \in DOMAIN b.kept /\ id \notin DOMAIN a.kept
        /\ b.kept[id].log_time = l.log_time /\ b.kept[id].data1 = l.data1
        /\ \A j \in DOMAIN b.kept \ {id} : j \in DOMAIN a.kept /\ b.kept[j] = a.kept[j]
        /\ \A j \in DOMAIN a.kept :
             a.kept[j].log_time >= l.log_time - Window => j \in DOMAIN b.kept
    BY <1>2, <2>1, TriggerKeeps
  <2>3. LogTimed(left, made, last)
    BY DEF Accounts, LogTimed
  <2>8. /\ a.seq \in Nat /\ DOMAIN a.kept \subseteq 1..a.seq
        /\ b.seq \in Nat /\ DOMAIN b.kept \subseteq 1..b.seq
        /\ \A j \in DOMAIN a.kept : a.kept[j].log_time \in Int
    BY <2>1, <2>2 DEF KeptRows, Made
  <2> HIDE DEF l, b, id
  <2>4. ASSUME NEW t \in Int, NEW d \in Int, ~Late(made, t)
        PROVE  Cardinality(OutAt(left, t, d)) + Times(t, d, b.kept) = Times(t, d, made)
    <3> DEFINE Out == OutAt(log, t, d)
               Kept == KeptAt(a.kept, t, d)
    <3>1. ASSUME NEW j \in DOMAIN a.kept, a.kept[j].log_time = t
          PROVE  j \in DOMAIN b.kept /\ j # id /\ b.kept[j] = a.kept[j]
      <4>1. ~(l.log_time - Window > t)
        BY <2>1, <2>4 DEF Late
      <4>2. a.kept[j].log_time >= l.log_time - Window
        BY <2>1, <3>1, <4>1, ConstantsAssumption
      <4> QED
        BY <2>2, <4>2
    <3>2. /\ IsFiniteSet(Out) /\ Cardinality(Out) \in Nat
          /\ IsFiniteSet(Kept) /\ Times(t, d, a.kept) = Cardinality(Kept)
          /\ Cardinality(Kept) \in Nat
          /\ Times(t, d, b.kept) = Cardinality(KeptAt(b.kept, t, d))
      BY <2>1, <2>8, FiniteOut, TimesOfKept
    <3>3. Cardinality(Out) + Cardinality(Kept) = Times(t, d, made)
      BY <2>1, <2>4, <3>2 DEF Balanced
    <3>4. i \in DOMAIN log /\ log[i] = l /\ Outgoing(l)
      BY <1>2 DEF l
    <3>5. CASE l.log_time = t /\ l.data1 = d
      <4>1. OutAt(left, t, d) = Out \ {i} /\ i \in Out
        BY <3>4, <3>5 DEF OutAt
      <4>2. KeptAt(b.kept, t, d) = Kept \cup {id} /\ id \notin Kept
        BY <2>2, <3>1, <3>5 DEF KeptAt
      <4> HIDE DEF Out, Kept
      <4>3. Cardinality(Out \ {i}) = Cardinality(Out) - 1
        BY <3>2, <4>1, FS_RemoveElement
      <4>4. Cardinality(Kept \cup {id}) = Cardinality(Kept) + 1
        BY <3>2, <4>2, FS_AddElement
      <4> QED
        BY <3>2, <3>3, <4>1, <4>2, <4>3, <4>4
    <3>6. CASE ~(l.log_time = t /\ l.data1 = d)
      <4>1. OutAt(left, t, d) = Out
        BY <3>4, <3>6 DEF OutAt
      <4>2. KeptAt(b.kept, t, d) = Kept
        BY <2>2, <3>1, <3>6 DEF KeptAt
      <4> QED
        BY <3>2, <3>3, <4>1, <4>2
    <3> QED
      BY <3>5, <3>6
  <2>5. \A t \in Int, d \in Int : Balanced(left, b.kept, made, t, d)
    BY <2>4 DEF Balanced
  <2> QED
    BY <2>2, <2>3, <2>5 DEF Accounts, b, l
<1> QED
  BY <1>1, <1>2


\* The log without the rows of S up to n.
Left(S, n) == [j \in DOMAIN phonelogs \ (S \cap 1..n) |-> phonelogs[j]]

LEMMA VisitedAccounts ==
  ASSUME NEW S, S \subseteq DOMAIN phonelogs, LogsNumbered,
         NEW made, Accounts(phonelogs, accumulation, made, log_seq)
  PROVE  /\ Accounts([j \in DOMAIN phonelogs \ S |-> phonelogs[j]], Visited(S), made, log_seq)
         /\ Visited(S).total = accumulation.total /\ Visited(S).calls = accumulation.calls
<1> DEFINE Good(a, n) ==
             /\ Accounts(Left(S, n), a, made, log_seq)
             /\ a.total = accumulation.total /\ a.calls = accumulation.calls
<1>1. PICK f : Visits(f, S, log_seq) /\ Visited(S) = f[log_seq]
  BY VisitedUnfolds DEF LogsNumbered
<1> DEFINE T == {n \in Nat : n <= log_seq => Good(f[n], n)}
<1>2. 0 \in T
  <2>1. Left(S, 0) = phonelogs
    <3>1. S \cap 1..0 = {}
      BY DEF LogsNumbered
    <3>2. DOMAIN phonelogs \ (S \cap 1..0) = DOMAIN phonelogs
      BY <3>1
    <3> QED
      BY <3>2 DEF Left, LogsNumbered
  <2>2. f[0] = accumulation
    BY <1>1 DEF Visits
  <2> QED
    BY <2>1, <2>2
<1>3. ASSUME NEW n \in Nat, n \in T
      PROVE  n + 1 \in T
  <2> SUFFICES ASSUME n + 1 <= log_seq PROVE Good(f[n + 1], n + 1)
    OBVIOUS
  <2> DEFINE i == n + 1
  <2>1. /\ i \in 1..log_seq /\ i - 1 = n /\ Good(f[n], n)
    BY <1>3 DEF LogsNumbered
  <2>2. \A j \in DOMAIN phonelogs : j \in 1..i <=> j \in 1..n \/ j = i
    BY DEF LogsNumbered
  <2>3. i \notin 1..n
    OBVIOUS
  <2> HIDE DEF i, Good, T
  <2>4. f[i] = IF i \in S THEN Trigger(f[n], phonelogs[i]) ELSE f[n]
    BY <1>1, <2>1 DEF Visits
  <2>5. CASE i \in S
    <3>1. /\ i \in DOMAIN Left(S, n) /\ Left(S, n)[i] = phonelogs[i]
          /\ DOMAIN Left(S, i) = DOMAIN Left(S, n) \ {i}
          /\ \A j \in DOMAIN Left(S, i) : Left(S, i)[j] = Left(S, n)[j]
      BY <2>2, <2>3, <2>5 DEF Left
    <3>2. log_seq \in Nat /\ Accounts(Left(S, n), f[n], made, log_seq)
      BY <2>1 DEF Good, LogsNumbered
    <3> DEFINE log == Left(S, n)
               left == Left(S, i)
               a == f[n]
    <3> HIDE DEF log, left, a
    <3>5. /\ log_seq \in Nat /\ Accounts(log, a, made, log_seq)
          /\ i \in DOMAIN log /\ DOMAIN left = DOMAIN log \ {i}
          /\ \A j \in DOMAIN left : left[j] = log[j]
      BY <3>1, <3>2 DEF log, left, a
    <3>6. /\ Accounts(left, Trigger(a, log[i]), made, log_seq)
          /\ Trigger(a, log[i]).total = a.total /\ Trigger(a, log[i]).calls = a.calls
      BY ONLY <3>5, TriggerAccounts
    <3>3. /\ Accounts(Left(S, i), Trigger(f[n], phonelogs[i]), made, log_seq)
          /\ Trigger(f[n], phonelogs[i]).total = f[n].total
          /\ Trigger(f[n], phonelogs[i]).calls = f[n].calls
      BY <3>1, <3>6 DEF log, left, a
    <3>4. Good(f[i], i)
      BY <2>1, <2>4, <2>5, <3>3 DEF Good
    <3> QED
      BY <3>4 DEF i
  <2>6. CASE i \notin S
    <3>1. Left(S, i) = Left(S, n)
      <4>1. S \cap 1..i = S \cap 1..n
        BY <2>2, <2>6
      <4> QED
        BY <4>1 DEF Left
    <3>2. Good(f[i], i)
      BY <2>1, <2>4, <2>6, <3>1 DEF Good
    <3> QED
      BY <3>2 DEF i
  <2> QED
    BY <2>5, <2>6
<1> HIDE DEF T
<1>4. \A n \in Nat : n \in T
  BY <1>2, <1>3, Induction
<1>5. log_seq \in T /\ log_seq \in Nat
  BY <1>4 DEF LogsNumbered
<1>6. Good(f[log_seq], log_seq)
  <2> HIDE DEF Good
  <2> QED
    BY <1>5 DEF T
<1>7. Left(S, log_seq) = [j \in DOMAIN phonelogs \ S |-> phonelogs[j]]
  <2>1. S \cap 1..log_seq = S
    BY DEF LogsNumbered
  <2> QED
    BY <2>1 DEF Left
<1> QED
  BY <1>1, <1>6, <1>7

-----------------------------------------------------------------------------
(* The counts of all calls, and the calls of each time and length.          *)

Totalled ==
  /\ calls \in Seq(Made)
  /\ accumulation.total = [cnt |-> Len(calls), duration |-> SumOf(calls)]
  /\ accumulation.calls = accumulation.total

AInv == Totalled /\ Accounts(phonelogs, accumulation, calls, log_seq)

LEMMA DeleteAccounts ==
  ASSUME LogsNumbered, AInv, NEW S, S \subseteq DOMAIN phonelogs, NEW notices, Delete(S, notices)
  PROVE  AInv'
<1>1. /\ phonelogs' = [i \in DOMAIN phonelogs \ S |-> phonelogs[i]]
      /\ accumulation' = Visited(S) /\ UNCHANGED <<log_seq, calls>>
  BY DEF Delete
<1>2. /\ Accounts([j \in DOMAIN phonelogs \ S |-> phonelogs[j]], Visited(S), calls, log_seq)
      /\ Visited(S).total = accumulation.total /\ Visited(S).calls = accumulation.calls
  BY VisitedAccounts DEF AInv
<1>3. Accounts(phonelogs', accumulation', calls', log_seq')
  BY <1>1, <1>2
<1> QED
  BY <1>1, <1>2, <1>3 DEF AInv, Totalled

LEMMA SetSeenAccounts ==
  ASSUME LogsKeyed, AInv, NEW index, NEW type \in {NONE, VOICE_UNSEEN, VIDEO_UNSEEN},
         Offered(index, type), SetSeen(index, type)
  PROVE  AInv'
<1> DEFINE S == Seen(index, type)
<1>1. /\ DOMAIN phonelogs' = DOMAIN phonelogs
      /\ \A i \in DOMAIN phonelogs : phonelogs'[i] =
           IF i \in S THEN [phonelogs[i] EXCEPT !.log_type = SeenType(phonelogs[i], index, type)]
           ELSE phonelogs[i]
      /\ UNCHANGED <<accumulation, calls, log_seq>>
  BY DEF SetSeen
<1>2. ASSUME NEW i \in DOMAIN phonelogs
      PROVE  /\ phonelogs'[i].log_time = phonelogs[i].log_time
             /\ phonelogs'[i].data1 = phonelogs[i].data1
             /\ Outgoing(phonelogs'[i]) <=> Outgoing(phonelogs[i])
  <2>1. CASE i \in S
    <3> DEFINE l == phonelogs[i]
    <3>1. PICK t \in 5..8 : phonelogs'[i] = [l EXCEPT !.log_type = t]
      BY <1>1, <2>1, SeenIsMissed
    <3>2. l = [number |-> l.number, related_id |-> l.related_id, log_type |-> l.log_type,
               log_time |-> l.log_time, data1 |-> l.data1, normal_num |-> l.normal_num]
      BY DEF LogsKeyed, Logged
    <3>3. /\ phonelogs'[i].log_time = l.log_time /\ phonelogs'[i].data1 = l.data1
          /\ phonelogs'[i].log_type = t
      BY <3>1, <3>2
    <3>4. l.log_type \in 5..8
      BY <2>1, SeenIsMissed
    <3> QED
      BY <3>3, <3>4 DEF Outgoing, VOICE_OUTGOING, VIDEO_OUTGOING
  <2>2. CASE i \notin S
    BY <1>1, <2>2
  <2> QED
    BY <2>1, <2>2
<1>3. Accounts(phonelogs', accumulation, calls, log_seq)
  BY <1>1, <1>2, SameOutgoing DEF AInv
<1> QED
  BY <1>1, <1>3 DEF AInv, Totalled


\* A call that is made now is the last of the history.
LEMMA CallAppended ==
  ASSUME NEW made \in Seq(Made), NEW r \in Made
  PROVE  LET then == Append(made, r)
         IN /\ \A t : Late(made, t) => Late(then, t)
            /\ \A m \in 1..Len(made) : m \in 1..Len(then) /\ then[m] = made[m]
            /\ Len(then) = Len(made) + 1 /\ then[Len(then)] = r
            /\ \A t, d : Times(t, d, then) = IF r.log_time = t /\ r.data1 = d
                                             THEN Times(t, d, made) + 1 ELSE Times(t, d, made)
<1> DEFINE then == Append(made, r)
           n == Len(made)
           last == n + 1
<1>1. /\ n \in Nat /\ last \in Nat /\ Len(then) = last
      /\ DOMAIN made = 1..n /\ DOMAIN then = 1..last
      /\ then[last] = r /\ \A m \in 1..n : then[m] = made[m]
  OBVIOUS
<1>2. 1..last = 1..n \cup {last} /\ last \notin 1..n /\ last \in 1..last
  BY <1>1
<1> HIDE DEF then, n, last
<1>3. \A t : Late(made, t) => Late(then, t)
  BY <1>1, <1>2 DEF Late, n
<1>4. ASSUME NEW t, NEW d
      PROVE  Times(t, d, then) = IF r.log_time = t /\ r.data1 = d
                                 THEN Times(t, d, made) + 1 ELSE Times(t, d, made)
  <2> DEFINE At == KeptAt(made, t, d)
  <2>1. /\ Times(t, d, made) = Cardinality(At) /\ IsFiniteSet(At)
        /\ Times(t, d, then) = Cardinality(KeptAt(then, t, d))
    BY <1>1, TimesOfKept
  <2>2. CASE r.log_time = t /\ r.data1 = d
    <3>1. KeptAt(then, t, d) = At \cup {last} /\ last \notin At
      BY <1>1, <1>2, <2>2 DEF KeptAt
    <3> HIDE DEF At
    <3>2. Cardinality(At \cup {last}) = Cardinality(At) + 1
      BY <2>1, <3>1, FS_AddElement
    <3> QED
      BY <2>1, <2>2, <3>1, <3>2
  <2>3. CASE ~(r.log_time = t /\ r.data1 = d)
    <3>1. KeptAt(then, t, d) = At
      BY <1>1, <1>2, <2>3 DEF KeptAt
    <3> QED
      BY <2>1, <2>3, <3>1
  <2> QED
    BY <2>2, <2>3
<1>5. \A m \in 1..n : m \in 1..last
  BY <1>2
<1>6. Len(then) = n + 1
  BY <1>1 DEF last
<1>7. \A t, d : Times(t, d, then) = IF r.log_time = t /\ r.data1 = d
                                    THEN Times(t, d, made) + 1 ELSE Times(t, d, made)
  BY <1>4
<1> QED
  BY <1>1, <1>3, <1>5, <1>6, <1>7 DEF n, then

\* Insertion into the log and, of an outgoing call, into the history.
LEMMA InsertAccounts ==
  ASSUME LogsNumbered, AInv, NEW e \in Entries, NEW counted, Insert(e, counted)
  PROVE  AInv'
<1> DEFINE id == log_seq + 1
           l == LogOf(e)
           r == [log_time |-> e.log_time, data1 |-> e.data1]
<1>1. /\ phonelogs' = With(phonelogs, id, l) /\ log_seq' = id
      /\ id \in Nat /\ log_seq \in Nat /\ DOMAIN phonelogs \subseteq 1..log_seq
      /\ id \notin DOMAIN phonelogs
  BY DEF Insert, LogsNumbered
<1>2. /\ DOMAIN phonelogs' = DOMAIN phonelogs \cup {id} /\ phonelogs'[id] = l
      /\ \A i \in DOMAIN phonelogs : phonelogs'[i] = phonelogs[i]
  BY <1>1 DEF With
<1>3. /\ l.log_time = e.log_time /\ l.data1 = e.data1 /\ (Outgoing(l) <=> Outgoing(e))
      /\ e.log_time \in Int /\ e.data1 \in Int
  BY ConstantsAssumption DEF LogOf, Outgoing
<1>4. r.log_time = e.log_time /\ r.data1 = e.data1 /\ r \in Made
  BY <1>3 DEF Made
<1>5. /\ LogTimed(phonelogs, calls, log_seq) /\ KeptRows(accumulation) /\ calls \in Seq(Made)
      /\ \A t \in Int, d \in Int : Balanced(phonelogs, accumulation.kept, calls, t, d)
  BY DEF AInv, Accounts, Totalled
<1>6. DOMAIN phonelogs' \subseteq 1..id
  BY <1>1, <1>2
<1> DEFINE new == phonelogs'
<1>9. /\ DOMAIN new = DOMAIN phonelogs \cup {id} /\ new[id] = l /\ id \notin DOMAIN phonelogs
      /\ \A i \in DOMAIN phonelogs : new[i] = phonelogs[i]
      /\ DOMAIN new \subseteq 1..id
  BY <1>1, <1>2, <1>6
<1> HIDE DEF id, l, r, new
<1>7. CASE ~Outgoing(e)
  <2>1. UNCHANGED <<accumulation, calls>>
    BY <1>7 DEF Insert, Outgoing
  <2>2. LogTimed(new, calls, id)
    BY ONLY <1>3, <1>5, <1>7, <1>9 DEF LogTimed, Dialled
  <2>3. \A t, d : OutAt(new, t, d) = OutAt(phonelogs, t, d)
    BY ONLY <1>3, <1>7, <1>9 DEF OutAt
  <2>4. \A t \in Int, d \in Int : Balanced(new, accumulation.kept, calls, t, d)
    BY <1>5, <2>3 DEF Balanced
  <2>5. Accounts(phonelogs', accumulation, calls, id)
    BY <1>5, <2>2, <2>4 DEF Accounts, new
  <2> QED
    BY <1>1, <2>1, <2>5 DEF AInv, Totalled
<1>8. CASE Outgoing(e)
  <2> DEFINE then == Append(calls, r)
  <2>1. /\ calls' = then
        /\ accumulation' = [accumulation EXCEPT !.calls = Counted(@, e), !.total = Counted(@, e)]
    BY <1>8 DEF Insert, Outgoing, r
  <2>2. accumulation' = [calls |-> Counted(accumulation.calls, e),
                         total |-> Counted(accumulation.total, e),
                         kept |-> accumulation.kept, seq |-> accumulation.seq]
    BY <1>5, <2>1 DEF KeptRows
  <2>3. then \in Seq(Made) /\ Len(then) = Len(calls) + 1 /\ Len(calls) \in Nat
    BY <1>4, <1>5
  <2>4. SumOf(then) = SumOf(calls) + e.data1
    BY <1>4, <1>5, SumAppend
  <2>5. Totalled'
    <3>1. Counted(accumulation.total, e) = [cnt |-> Len(then), duration |-> SumOf(then)]
      <4>1. accumulation.total = [cnt |-> Len(calls), duration |-> SumOf(calls)]
        BY DEF AInv, Totalled
      <4> HIDE DEF then
      <4>2. accumulation.total.cnt = Len(calls) /\ accumulation.total.duration = SumOf(calls)
        BY <4>1
      <4> QED
        BY <2>3, <2>4, <4>2 DEF Counted
    <3>2. accumulation.calls = accumulation.total
      BY DEF AInv, Totalled
    <3> HIDE DEF then
    <3> QED
      BY <2>1, <2>2, <2>3, <3>1, <3>2 DEF Totalled
  <2>6. KeptRows(accumulation')
    BY <1>5, <2>2 DEF KeptRows
  <2>7. /\ \A t : Late(calls, t) => Late(then, t)
        /\ \A m \in 1..Len(calls) : m \in 1..Len(then) /\ then[m] = calls[m]
        /\ then[Len(then)] = r
        /\ \A t, d : Times(t, d, then) = IF r.log_time = t /\ r.data1 = d
                                         THEN Times(t, d, calls) + 1 ELSE Times(t, d, calls)
    BY <1>4, <1>5, CallAppended
  <2> HIDE DEF then
  <2>8. LogTimed(new, then, id)
    <3>1. Dialled(l, then)
      <4>1. Len(then) \in 1..Len(then)
        BY <2>3
      <4>2. then[Len(then)].log_time = l.log_time
        BY <1>3, <1>4, <2>7
      <4> QED
        BY ONLY <4>1, <4>2 DEF Dialled
    <3>2. \A i \in DOMAIN phonelogs : Dialled(phonelogs[i], then)
      BY <1>5, <2>7 DEF LogTimed, Dialled
    <3> QED
      BY ONLY <1>3, <1>5, <1>9, <3>1, <3>2 DEF LogTimed
  <2>9. ASSUME NEW t \in Int, NEW d \in Int
        PROVE  Balanced(new, accumulation.kept, then, t, d)
    <3> DEFINE Out == OutAt(phonelogs, t, d)
    <3>1. IsFiniteSet(Out) /\ Cardinality(Out) \in Nat /\ Times(t, d, accumulation.kept) \in Nat
      BY <1>1, <1>5, FiniteOut, TimesOfKept DEF KeptRows
    <3>2. Balanced(phonelogs, accumulation.kept, calls, t, d)
      BY <1>5
    <3>3. CASE Late(calls, t)
      BY <2>7, <3>3 DEF Balanced
    <3>4. CASE ~Late(calls, t)
      <4>1. Cardinality(Out) + Times(t, d, accumulation.kept) = Times(t, d, calls)
        BY <3>2, <3>4 DEF Balanced
      <4>2. CASE e.log_time = t /\ e.data1 = d
        <5>1. OutAt(new, t, d) = Out \cup {id} /\ id \notin Out
          BY <1>3, <1>8, <1>9, <4>2 DEF OutAt
        <5> HIDE DEF Out
        <5>2. Cardinality(Out \cup {id}) = Cardinality(Out) + 1
          BY <3>1, <5>1, FS_AddElement
        <5>3. Times(t, d, then) = Times(t, d, calls) + 1
          BY <1>4, <2>7, <4>2
        <5> QED
          BY <3>1, <4>1, <5>1, <5>2, <5>3 DEF Balanced
      <4>3. CASE ~(e.log_time = t /\ e.data1 = d)
        <5>1. OutAt(new, t, d) = Out
          BY <1>3, <1>9, <4>3 DEF OutAt
        <5>2. Times(t, d, then) = Times(t, d, calls)
          BY <1>4, <2>7, <4>3
        <5> QED
          BY <4>1, <5>1, <5>2 DEF Balanced
      <4> QED
        BY <4>2, <4>3
    <3> QED
      BY <3>3, <3>4
  <2>10. accumulation'.kept = accumulation.kept
    BY <2>2
  <2>11. Accounts(phonelogs', accumulation', calls', log_seq')
    BY <1>1, <2>1, <2>6, <2>8, <2>9, <2>10 DEF Accounts, new
  <2> QED
    BY <2>5, <2>11 DEF AInv
<1> QED
  BY <1>7, <1>8

LEMMA AccountsUnchanged ==
  ASSUME AInv, UNCHANGED logVars
  PROVE  AInv'
BY DEF AInv, Totalled, logVars

LEMMA StepAccounts ==
  ASSUME PInv, AInv, Next
  PROVE  AInv'
<1>1. LogsKeyed /\ LogsNumbered
  BY DEF PInv, LogsKeyed
<1>2. ASSUME NEW S, S \subseteq DOMAIN phonelogs, NEW notices, Delete(S, notices)
      PROVE  AInv'
  BY <1>1, <1>2, DeleteAccounts
<1>3. CASE \E e \in Entries, counted \in BOOLEAN : Insert(e, counted)
  BY <1>1, <1>3, InsertAccounts
<1>4. CASE \E i \in DOMAIN phonelogs : DeleteById(i)
  <2>1. PICK i : Delete({i} \cap DOMAIN phonelogs, DelNotices)
    BY <1>4 DEF DeleteById
  <2> QED
    BY <1>2, <2>1
<1>5. ASSUME NEW number, DeleteByNumber(number)
      PROVE  AInv'
  <2>1. Delete(Logs(LAMBDA l : l.number = number), DelNotices)
    BY <1>5 DEF DeleteByNumber
  <2>2. Logs(LAMBDA l : l.number = number) \subseteq DOMAIN phonelogs
    BY DEF Logs
  <2> QED
    BY <1>2, <2>1, <2>2
<1>6. CASE DeleteNoNumber
  <2>1. Delete(Logs(LAMBDA l : l.number = Null), DelNotices)
    BY <1>6 DEF DeleteNoNumber
  <2>2. Logs(LAMBDA l : l.number = Null) \subseteq DOMAIN phonelogs
    BY DEF Logs
  <2> QED
    BY <1>2, <2>1, <2>2
<1>7. ASSUME NEW id, DeleteByMsgid(id)
      PROVE  AInv'
  <2>1. Delete(Logs(LAMBDA l : l.data1 = id /\ l.log_type \in MMS_INCOMING..MMS_BLOCKED), {"plog"})
    BY <1>7 DEF DeleteByMsgid
  <2>2. Logs(LAMBDA l : l.data1 = id /\ l.log_type \in MMS_INCOMING..MMS_BLOCKED)
          \subseteq DOMAIN phonelogs
    BY DEF Logs
  <2> QED
    BY <1>2, <2>1, <2>2
<1>8. CASE \E i \in DOMAIN phonelogs \cup {0}, type \in {NONE, VOICE_UNSEEN, VIDEO_UNSEEN} :
             Offered(i, type) /\ SetSeen(i, type)
  BY <1>1, <1>8, SetSeenAccounts
<1>9. CASE RolledBack \/ ContactCalls
  <2>1. UNCHANGED logVars
    BY <1>9 DEF RolledBack, ContactCalls, InsertContact, UpdateContact, DeleteContact,
       LinkPerson, ResetOutgoingCount, SetFavorite, UnsetFavorite, Overwrite
  <2> QED
    BY <2>1, AccountsUnchanged
<1> QED
  BY <1>3, <1>4, <1>5, <1>6, <1>7, <1>8, <1>9 DEF Next, LogCalls

LEMMA NothingToAccount ==
  ASSUME Init
  PROVE  AInv
<1>1. /\ phonelogs = <<>> /\ log_seq = 0 /\ calls = <<>>
      /\ accumulation = [calls |-> [cnt |-> 0, duration |-> 0],
                         total |-> [cnt |-> 0, duration |-> 0], kept |-> <<>>, seq |-> 2]
  BY DEF Init
<1>2. DOMAIN <<>> = {} /\ Len(<<>>) = 0 /\ <<>> \in Seq(Made)
  OBVIOUS
<1>3. Totalled
  BY <1>1, <1>2, SumEmpty DEF Totalled
<1>4. LogTimed(phonelogs, calls, log_seq)
  BY <1>1, <1>2 DEF LogTimed
<1>5. KeptRows(accumulation) /\ accumulation.kept = <<>>
  BY <1>1, <1>2 DEF KeptRows
<1>6. ASSUME NEW t, NEW d
      PROVE  Balanced(phonelogs, accumulation.kept, calls, t, d)
  <2>1. OutAt(<<>>, t, d) = {} /\ KeptAt(<<>>, t, d) = {}
    BY <1>2 DEF OutAt, KeptAt
  <2>2. Times(t, d, <<>>) = Cardinality({})
    BY <2>1 DEF Times, KeptAt
  <2>3. Cardinality({}) = 0
    BY FS_EmptySet
  <2>4. Cardinality(OutAt(phonelogs, t, d)) = 0 /\ Times(t, d, accumulation.kept) = 0
    BY <1>1, <1>5, <2>1, <2>2, <2>3
  <2>5. Times(t, d, calls) = 0
    BY <1>1, <2>2, <2>3
  <2> QED
    BY <2>4, <2>5 DEF Balanced
<1>7. Accounts(phonelogs, accumulation, calls, log_seq)
  BY <1>4, <1>5, <1>6 DEF Accounts
<1> QED
  BY <1>3, <1>7 DEF AInv

LEMMA AccountsSuffice ==
  ASSUME AInv
  PROVE  CallsAccounted
<1>1. /\ accumulation.total = [cnt |-> Len(calls), duration |-> SumOf(calls)]
      /\ accumulation.calls = accumulation.total /\ calls \in Seq(Made)
  BY DEF AInv, Totalled
<1>2. ASSUME NEW n \in 1..Len(calls)
      PROVE  LET t == calls[n].log_time
                 d == calls[n].data1
                 logged == Cardinality(Logs(LAMBDA l : Outgoing(l) /\ l.log_time = t /\ l.data1 = d))
             IN \/ logged + Times(t, d, accumulation.kept) = Times(t, d, calls)
                \/ \E m \in 1..Len(calls) : calls[m].log_time - Window > t
  <2> DEFINE t == calls[n].log_time
             d == calls[n].data1
  <2>1. t \in Int /\ d \in Int
    <3>1. calls[n] \in Made
      BY <1>1, ElementOfSeq
    <3> QED
      BY <3>1 DEF Made
  <2> HIDE DEF t, d
  <2>2. Balanced(phonelogs, accumulation.kept, calls, t, d)
    BY <2>1 DEF AInv, Accounts
  <2>3. Logs(LAMBDA l : Outgoing(l) /\ l.log_time = t /\ l.data1 = d) = OutAt(phonelogs, t, d)
    BY DEF Logs, OutAt
  <2>4. \/ Cardinality(Logs(LAMBDA l : Outgoing(l) /\ l.log_time = t /\ l.data1 = d))
             + Times(t, d, accumulation.kept) = Times(t, d, calls)
        \/ \E m \in 1..Len(calls) : calls[m].log_time - Window > t
    BY <2>2, <2>3 DEF Balanced, Late
  <2> QED
    BY <2>4 DEF t, d
<1> QED
  BY <1>1, <1>2 DEF CallsAccounted

\* Whatever is logged, marked and deleted, in whatever order the rows are
\* visited by the trigger: the totals are those of every outgoing call ever
\* made, and each can be counted by its date, in the log or among the deleted
\* ones (schema.sql, trg_phonelogs_insert and trg_phonelogs_del), until one
\* more than 40 days newer is made.
THEOREM CallsAreAccounted == Spec => []CallsAccounted
<1>1. Init => AInv
  BY NothingToAccount
<1>2. PInv /\ AInv /\ [Next]_vars => AInv'
  <2>1. CASE UNCHANGED vars
    BY <2>1, AccountsUnchanged DEF vars, logVars
  <2> QED
    BY <2>1, StepAccounts
<1>3. AInv => CallsAccounted
  BY AccountsSuffice
<1> QED
  BY <1>1, <1>2, <1>3, KeysAreKept, PTL DEF Spec
=============================================================================
