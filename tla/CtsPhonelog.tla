----------------------------- MODULE CtsPhonelog -----------------------------
(***************************************************************************)
(* The phone log: its entries, the accumulated outgoing calls that outlive *)
(* them, the counts of the persons called, and the contacts whose numbers  *)
(* the lists join the entries with.  A call of the library that changes    *)
(* rows is a transaction (CtsTransaction), here one step.                  *)
(***************************************************************************)
EXTENDS CtsNumber, FiniteSets, FiniteSetsExt

CONSTANTS
  Entries,      \* what callers insert: [number, related_id, log_type, log_time, data1]
  Writings,     \* what a contact is written with: sets of [datatype, data2]
  Leftovers,    \* what may lie behind a number in a buffer that is not zeroed
  Window,       \* the 40 days that deleted outgoing calls are kept
  MaxLogs, MaxContacts,
  Null

VARIABLES
  phonelogs,      \* log id -> entry with its normal_num
  log_seq,        \* the last log id given
  accumulation,   \* phonelog_accumulation: rows 1, 2, the deleted calls by id, the last id
  contacts,       \* contact id -> [person_id, rows]
  contact_seq,
  persons,        \* person id -> outgoing_count
  published,      \* the notifications of the last call: "plog", "missed"
  calls           \* history: the outgoing calls ever inserted

logVars == <<phonelogs, log_seq, accumulation, calls>>
contactVars == <<contacts, contact_seq, persons>>
vars == <<phonelogs, log_seq, accumulation, contacts, contact_seq, persons, published, calls>>

(* PLOGTYPE of cts-types.h *)
NONE == 0
VOICE_OUTGOING == 2
VIDEO_OUTGOING == 4
VOICE_UNSEEN == 5     \* CTS_PLOG_TYPE_VOICE_INCOMMING_UNSEEN, seen is one more
VIDEO_UNSEEN == 7
VIDEO_SEEN == 8
MMS_INCOMING == 101
MMS_BLOCKED == 106
EMAIL_RECEIVED == 201
EMAIL_SENT == 202

ASSUME ConstantsAssumption ==
  /\ MaxLogs \in Nat /\ MaxContacts \in Nat /\ Window \in Nat
  /\ \A e \in Entries : e.log_type \in 1..EMAIL_SENT /\ e.log_time \in Int /\ e.data1 \in Int

Outgoing(l) == l.log_type \in {VOICE_OUTGOING, VIDEO_OUTGOING}
Unseen(l) == l.log_type \in {VOICE_UNSEEN, VIDEO_UNSEEN}
Logs(P(_)) == {i \in DOMAIN phonelogs : P(phonelogs[i])}

With(f, k, v) == [x \in DOMAIN f \cup {k} |-> IF x = k THEN v ELSE f[x]]

--------------------------------------------------------------------------------
(* Insertion. *)

\* The key of a number; an e-mail address and a number of nothing but dirt have
\* none.
NormalNum(number, beyond) ==
  IF number = Null \/ cts_clean_number(number) = <<>> THEN Null
  ELSE cts_normalize_number(cts_clean_number(number), beyond)

LogOf(e) ==
  [number |-> e.number, related_id |-> e.related_id, log_type |-> e.log_type,
   log_time |-> e.log_time, data1 |-> e.data1,
   normal_num |-> IF e.log_type < EMAIL_RECEIVED THEN NormalNum(e.number, <<>>) ELSE Null]

Counted(r, e) == [cnt |-> r.cnt + 1, duration |-> r.duration + e.data1]

cts_increase_outgoing_count(person) ==
  [p \in DOMAIN persons |-> IF p = person THEN persons[p] + 1 ELSE persons[p]]

\* A count that cannot be raised is only a warning.
Insert(e, counted) ==
  /\ log_seq < MaxLogs
  /\ log_seq' = log_seq + 1
  /\ phonelogs' = With(phonelogs, log_seq', LogOf(e))
  /\ accumulation' = IF Outgoing(e)
                     THEN [accumulation EXCEPT !.calls = Counted(@, e), !.total = Counted(@, e)]
                     ELSE accumulation
  /\ calls' = IF e.log_type \in {VOICE_OUTGOING, VIDEO_OUTGOING}
              THEN Append(calls, [log_time |-> e.log_time, data1 |-> e.data1])
              ELSE calls
  /\ persons' = IF e.related_id # 0 /\ counted
                THEN cts_increase_outgoing_count(e.related_id) ELSE persons
  /\ published' = {"plog"} \cup (IF Unseen(e) THEN {"missed"} ELSE {})
  /\ UNCHANGED <<contacts, contact_seq>>

--------------------------------------------------------------------------------
(* Deletion. *)

\* trg_phonelogs_del, for one row.
MutTrigger(a, l) ==
  IF Outgoing(l)
  THEN [a EXCEPT !.kept = <<[log_time |-> l.log_time, data1 |-> l.data1]>>]
  ELSE a
Recent(kept, from) == [i \in {j \in DOMAIN kept : kept[j].log_time >= from} |-> kept[i]]
Trigger(a, l) ==
  IF Outgoing(l)
  THEN [a EXCEPT !.seq = @ + 1,
                 !.kept = With(Recent(@, l.log_time - Window), a.seq + 1,
                               [log_time |-> l.log_time, data1 |-> l.data1])]
  ELSE a

\* DELETE visits the rows in the order of their ids, the trigger runs for each.
Visited(S) ==
  LET upto[n \in 0..log_seq] ==
        IF n = 0 THEN accumulation
        ELSE IF n \in S THEN Trigger(upto[n - 1], phonelogs[n]) ELSE upto[n - 1]
  IN upto[log_seq]

Delete(S, notices) ==
  /\ phonelogs' = [i \in DOMAIN phonelogs \ S |-> phonelogs[i]]
  /\ accumulation' = Visited(S)
  /\ published' = notices
  /\ UNCHANGED <<log_seq, calls, contacts, contact_seq, persons>>

MutDelNotices == {"plog"}
DelNotices == {"plog", "missed"}
DeleteById(i) == Delete({i} \cap DOMAIN phonelogs, DelNotices)
DeleteByNumber(number) == Delete(Logs(LAMBDA l : l.number = number), DelNotices)
DeleteNoNumber == Delete(Logs(LAMBDA l : l.number = Null), DelNotices)
DeleteByMsgid(id) ==
  Delete(Logs(LAMBDA l : l.data1 = id /\ l.log_type \in MMS_INCOMING..MMS_BLOCKED), {"plog"})

--------------------------------------------------------------------------------
(* Missed calls are seen. *)

\* contacts_svc_phonelog_set_seen: with an index, the type that the entry has is
\* not looked at; a program passes the one it has read, which may have changed.
Seen(index, type) ==
  CASE index # 0 -> {index} \cap DOMAIN phonelogs
    [] index = 0 /\ type = NONE -> Logs(Unseen)
    [] index = 0 /\ type # NONE -> Logs(LAMBDA l : l.log_type = type)

SeenType(l, index, type) ==
  IF index = 0 /\ type = NONE THEN l.log_type + 1 ELSE type + 1

SeenNotices(S) == IF S = {} THEN {} ELSE {"plog", "missed"}

SetSeen(index, type) ==
  LET S == Seen(index, type) IN
  /\ phonelogs' = [i \in DOMAIN phonelogs |->
       IF i \in S THEN [phonelogs[i] EXCEPT !.log_type = SeenType(phonelogs[i], index, type)]
       ELSE phonelogs[i]]
  /\ published' = SeenNotices(S)
  /\ UNCHANGED <<log_seq, accumulation, calls, contacts, contact_seq, persons>>

\* A missed call that the program has read, shown as type now or before.
Offered(index, type) ==
  index = 0 \/ index \in Logs(LAMBDA l : type # NONE /\ l.log_type \in {type, type + 1})

\* Any of these calls may fail on a statement, and is rolled back with its flags.
RolledBack == published # {} /\ published' = {} /\ UNCHANGED <<logVars, contactVars>>

--------------------------------------------------------------------------------
(* The contacts, as far as the lists of the log and the counts read them. *)

\* The rows of a contact's numbers and addresses, with the key of each number;
\* its buffer is not zeroed.
RowsWritten(w, beyond) ==
  {[datatype |-> r.datatype, data2 |-> r.data2,
    data3 |-> IF r.datatype = "number" THEN NormalNum(r.data2, beyond) ELSE Null] : r \in w}

InsertContact(w, beyond) ==
  LET c == contact_seq + 1 IN
  /\ contact_seq < MaxContacts
  /\ contact_seq' = c
  /\ contacts' = With(contacts, c, [person_id |-> c, rows |-> RowsWritten(w, beyond)])
  /\ persons' = With(persons, c, 0)
  /\ published' = {}
  /\ UNCHANGED logVars

UpdateContact(c, w, beyond) ==
  /\ contacts' = [contacts EXCEPT ![c].rows = RowsWritten(w, beyond)]
  /\ published' = {}
  /\ UNCHANGED <<logVars, contact_seq, persons>>

Members(p) == {c \in DOMAIN contacts : contacts[c].person_id = p}
Others(p) == [x \in DOMAIN persons \ {p} |-> persons[x]]

\* A person that loses its primary contact goes on under another one's id.
DeleteContact(c, heir) ==
  /\ contacts' = [x \in DOMAIN contacts \ {c} |->
       [contacts[x] EXCEPT !.person_id = IF @ = c THEN heir ELSE @]]
  /\ IF Members(c) \ {c} # {}
     THEN heir \in Members(c) \ {c} /\ persons' = With(Others(c), heir, persons[c])
     ELSE heir = c /\ persons' = Others(c)
  /\ published' = {}
  /\ UNCHANGED <<logVars, contact_seq>>

MutLinked(base, sub) == [persons EXCEPT ![base] = Max({@, persons[sub]})]
Linked(base, sub) ==
  [p \in DOMAIN persons \ {sub} |->
     IF p = base THEN Max({persons[base], persons[sub]}) ELSE persons[p]]

LinkPerson(base, sub) ==
  /\ base # sub
  /\ contacts' = [c \in DOMAIN contacts |->
       [contacts[c] EXCEPT !.person_id = IF @ = sub THEN base ELSE @]]
  /\ persons' = Linked(base, sub)
  /\ published' = {}
  /\ UNCHANGED <<logVars, contact_seq>>

ResetOutgoingCount(p) ==
  /\ persons' = [persons EXCEPT ![p] = 0]
  /\ published' = {}
  /\ UNCHANGED <<logVars, contacts, contact_seq>>

\* Favorites of numbers share the column of the keys: trg_favorite_insert writes
\* 1 over the key of a row, trg_favorite_del 0.
FavoriteKeys == {<<0>>, <<1>>}

NumberRows ==
  UNION {{c} \X {r \in contacts[c].rows : r.datatype = "number"} : c \in DOMAIN contacts}

Overwrite(marked, key) ==
  /\ contacts' = [c \in DOMAIN contacts |->
       [contacts[c] EXCEPT !.rows =
          {IF <<c, r>> \in marked THEN [r EXCEPT !.data3 = key] ELSE r : r \in @}]]
  /\ published' = {}
  /\ UNCHANGED <<logVars, contact_seq, persons>>

\* A favorite is made of each contact of a person, under the contact's id: the
\* number rows that happen to have such an id are marked.
SetFavorite ==
  \E marked \in SUBSET NumberRows :
    /\ Cardinality(marked) \in UNION {0..Cardinality(Members(p)) : p \in DOMAIN persons}
    /\ Overwrite(marked, <<1>>)

\* contacts_svc_unset_favorite and contacts_svc_delete_favorite: one favorite.
UnsetFavorite == \E row \in NumberRows : Overwrite({row}, <<0>>)

--------------------------------------------------------------------------------
(* The lists of the log. *)

Has(c, type, key) ==
  /\ key # Null /\ c \in DOMAIN contacts
  /\ \E r \in contacts[c].rows :
       r.datatype = type /\ key = IF type = "number" THEN r.data3 ELSE r.data2

\* The LEFT JOIN with the contact's rows: the related contact if it still has
\* the number, else all that have it; the smallest id is shown.
MutJoined(l, type, key) == {c \in DOMAIN contacts : Has(c, type, key) /\ l.related_id \in {0, c}}
Joined(l, type, key) ==
  {c \in DOMAIN contacts :
     /\ Has(c, type, key)
     /\ \/ l.related_id \in {0, c}
        \/ ~Has(l.related_id, type, key)}
Shown(l, type, key) ==
  IF Joined(l, type, key) = {} THEN Null ELSE Min(Joined(l, type, key))

CTS_LIST_ALL_PLOG ==
  [i \in Logs(LAMBDA l : l.log_type < EMAIL_RECEIVED) |->
     Shown(phonelogs[i], "number", phonelogs[i].normal_num)]
CTS_LIST_ALL_MISSED_CALL ==
  [i \in Logs(LAMBDA l : l.log_type \in VOICE_UNSEEN..VIDEO_SEEN) |->
     Shown(phonelogs[i], "number", phonelogs[i].normal_num)]
CTS_LIST_ALL_UNSEEN_MISSED_CALL ==
  [i \in Logs(Unseen) |-> Shown(phonelogs[i], "number", phonelogs[i].normal_num)]
CTS_LIST_ALL_EMAIL_PLOG ==
  [i \in Logs(LAMBDA l : l.log_type >= EMAIL_RECEIVED) |->
     Shown(phonelogs[i], "email", phonelogs[i].number)]

\* The entries of one number, written as it is in the log.
CTS_LIST_PLOGS_OF_NUMBER(number, beyond) ==
  LET key == NormalNum(number, beyond) IN
  [i \in Logs(LAMBDA l : l.number = number) |->
     LET l == phonelogs[i]
         kept == Has(l.related_id, "number", key)
         join == {c \in DOMAIN contacts : /\ Has(c, "number", l.normal_num)
                                          /\ l.related_id \in {0, c} \/ ~kept}
     IN IF join = {} THEN Null ELSE Min(join)]

CTS_LIST_PLOG_OF_PERSON_ID(person) ==
  Logs(LAMBDA l : \E c \in Members(person) :
         Has(c, "number", l.normal_num) \/ Has(c, "email", l.number))

\* contacts_svc_find_contact_by: LIMIT 1 of them.
CTS_FIND_BY_NUMBER(number, beyond) ==
  {c \in DOMAIN contacts : Has(c, "number", NormalNum(number, beyond))}

--------------------------------------------------------------------------------
Init ==
  /\ phonelogs = <<>> /\ log_seq = 0
  /\ accumulation = [calls |-> [cnt |-> 0, duration |-> 0],
                     total |-> [cnt |-> 0, duration |-> 0], kept |-> <<>>, seq |-> 2]
  /\ contacts = <<>> /\ contact_seq = 0 /\ persons = <<>>
  /\ published = {} /\ calls = <<>>

LogCalls ==
  \/ \E e \in Entries, counted \in BOOLEAN : Insert(e, counted)
  \/ \E i \in DOMAIN phonelogs : DeleteById(i)
  \/ \E e \in Entries : e.number # Null /\ DeleteByNumber(e.number)
  \/ DeleteNoNumber
  \/ \E e \in Entries : DeleteByMsgid(e.data1)
  \/ \E i \in DOMAIN phonelogs \cup {0}, type \in {NONE, VOICE_UNSEEN, VIDEO_UNSEEN} :
       Offered(i, type) /\ SetSeen(i, type)
  \/ RolledBack

ContactCalls ==
  \/ \E w \in Writings, beyond \in Leftovers : InsertContact(w, beyond)
  \/ \E c \in DOMAIN contacts, w \in Writings, beyond \in Leftovers : UpdateContact(c, w, beyond)
  \/ \E c, heir \in DOMAIN contacts : DeleteContact(c, heir)
  \/ \E base, sub \in DOMAIN persons : LinkPerson(base, sub)
  \/ \E p \in DOMAIN persons : ResetOutgoingCount(p)
  \/ SetFavorite \/ UnsetFavorite

Next == LogCalls \/ ContactCalls
Spec == Init /\ [][Next]_vars
==============================================================================
