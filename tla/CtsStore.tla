------------------------------ MODULE CtsStore ------------------------------
(***************************************************************************)
(* The contacts database and the calls that change it: contacts, the       *)
(* persons that link them, favorites, groups, address books, and the       *)
(* deletion records and version stamps a synchronisation relies on.        *)
(*                                                                         *)
(* An API call is one transaction (module CtsTransaction), so one step;    *)
(* but several calls first read the database outside their transaction.    *)
(* These are two steps, and other processes change the database between.   *)
(* A call that fails is rolled back: the database stays as it was.         *)
(*                                                                         *)
(* Names, numbers, images and times are left out.  A contact's content is  *)
(* the version at which a program last changed it, which is not what the   *)
(* code records (changed_ver) but what it ought to.                        *)
(***************************************************************************)
EXTENDS Integers, FiniteSets, FiniteSetsExt

CONSTANTS
  Procs,        \* processes using the library
  Calls,        \* the API calls the programs use
  MaxContacts,  \* bound: contacts ever inserted
  MaxGroups,    \* bound: groups ever inserted
  MaxBooks,     \* bound: address books ever inserted
  MaxVer,       \* bound: versions
  ByBook,       \* whether the synchronising program asks book by book
  None          \* no pending call, no group, SQL's NULL

ASSUME StoreAssumption ==
  /\ {MaxContacts, MaxGroups, MaxBooks, MaxVer} \subseteq Nat
  /\ ByBook \in BOOLEAN
  /\ None \notin Nat

VARIABLES
  db,       \* the committed database
  pending,  \* per process, the call that has read but not begun yet
  replica,  \* what the synchronising program has
  seen      \* the version of its last synchronisation

vars == <<db, pending, replica, seen>>

Internal == 0           \* CTS_ADDRESSBOOK_INTERNAL
Books == 0..MaxBooks
ContactIds == 1..MaxContacts
GroupIds == 1..MaxGroups

Stamps == 1..db.ver     \* no stamp is newer than the committed version
Contact == [person : ContactIds, book : Books, fav : BOOLEAN,
            created : Stamps, changed : Stamps, content : Stamps]
Group == [book : Books, created : Stamps, changed : Stamps]

EmptyDb ==
  [contacts |-> <<>>, persons |-> {}, favorites |-> {}, groups |-> <<>>,
   relations |-> {}, books |-> {}, deleteds |-> <<>>, group_deleteds |-> <<>>,
   ver |-> 0, contact_seq |-> 0, group_seq |-> 0, book_seq |-> 0]

\* f is a table with keys in S and rows in T.
IsTable(f, S, T) == DOMAIN f \subseteq S /\ \A x \in DOMAIN f : f[x] \in T

TypeOK ==
  /\ IsTable(db.contacts, ContactIds, Contact)
  /\ db.persons \subseteq ContactIds
  /\ db.favorites \subseteq ContactIds
  /\ IsTable(db.groups, GroupIds, Group)
  /\ db.relations \subseteq GroupIds \X ContactIds
  /\ db.books \subseteq 1..MaxBooks
  /\ IsTable(db.deleteds, ContactIds, [book : Books, ver : Stamps])
  /\ IsTable(db.group_deleteds, GroupIds, [book : Books \cup {None}, ver : Stamps])
  /\ db.ver \in 0..MaxVer
  /\ db.contact_seq \in 0..MaxContacts
  /\ db.group_seq \in 0..MaxGroups
  /\ db.book_seq \in 0..MaxBooks
  /\ seen \in 0..db.ver

-----------------------------------------------------------------------------
(* The statements, with the triggers of schema.sql they fire. *)

Members(d, p) == {c \in DOMAIN d.contacts : d.contacts[c].person = p}
PersonsOf(d) == {d.contacts[c].person : c \in DOMAIN d.contacts}
BookOf(d, b) == {c \in DOMAIN d.contacts : d.contacts[c].book = b}

\* The table without the keys S, and with key k (re)placed.
Without(f, S) == [x \in DOMAIN f \ S |-> f[x]]
With(f, k, v) == [x \in DOMAIN f \cup {k} |-> IF x = k THEN v ELSE f[x]]

\* cts_get_next_ver: the stamp, and the version it will be at the commit.
MutStamp(d) == d.ver + 2
Stamp(d) == d.ver + 1
Versioned(d) == [d EXCEPT !.ver = @ + 1]

\* cts_db_get_next_id: AUTOINCREMENT never gives an id twice.
MutNextContact(d) == Cardinality(DOMAIN d.contacts) + 1
NextContact(d) == d.contact_seq + 1

\* DELETE FROM favorites: trg_favorite_del resets is_favorite.
DeleteFavorites(d, S) ==
  [d EXCEPT
     !.favorites = @ \ S,
     !.contacts = [c \in DOMAIN d.contacts |->
       [d.contacts[c] EXCEPT !.fav = @ /\ d.contacts[c].person \notin S \cap d.favorites]]]

\* DELETE FROM contacts: trg_contacts_del.
MutDeleteContacts(d, S) == [d EXCEPT !.contacts = Without(@, S)]
DeleteContacts(d, S) ==
  LET e == DeleteFavorites(d, S) IN
  [e EXCEPT !.contacts = Without(@, S),
            !.relations = {r \in @ : r[2] \notin S}]

\* DELETE FROM groups: trg_groups_del.
DeleteGroups(d, S) ==
  [d EXCEPT !.groups = Without(@, S),
            !.relations = {r \in @ : r[1] \notin S}]

\* UPDATE ... SET person_id = to[p] WHERE person_id = p, in both tables.
MovePersons(d, to) ==
  [d EXCEPT
     !.contacts = [c \in DOMAIN d.contacts |->
       [d.contacts[c] EXCEPT !.person = IF @ \in DOMAIN to THEN to[@] ELSE @]],
     !.persons = (@ \ DOMAIN to) \cup {to[p] : p \in DOMAIN to \cap @}]

\* cts_person_garbagecollection: a person whose primary contact is gone gets
\* the smallest of its contacts as the new one.
Orphans(d) == {p \in PersonsOf(d) : p \notin Members(d, p)}
Heirs(d) == [p \in Orphans(d) |-> Min(Members(d, p))]
Collects(d) == \A p \in Orphans(d) : Heirs(d)[p] \notin d.persons
Collected(d) == MovePersons(d, Heirs(d))

\* UPDATE contacts SET changed_ver: a program changes contact c, if it exists.
MutTouched(d, c) ==
  IF c \in DOMAIN d.contacts
  THEN [d EXCEPT !.contacts[c].content = Stamp(d)]
  ELSE d
Touched(d, c) ==
  IF c \in DOMAIN d.contacts
  THEN [d EXCEPT !.contacts[c].changed = Stamp(d), !.contacts[c].content = Stamp(d)]
  ELSE d

\* cts_group_set_relation, for a contact the caller says is in book b.
MutRelates(d, g, b) == g \in DOMAIN d.groups
Relates(d, g, b) == g \in DOMAIN d.groups /\ d.groups[g].book = b
Related(d, g, c) == [d EXCEPT !.relations = @ \cup {<<g, c>>}]

\* contacts_svc_delete_group: the record's book is selected from the group's
\* row, which is already deleted.
GroupRecorded(d, g) ==
  [d EXCEPT !.group_deleteds = With(@, g, [book |-> None, ver |-> Stamp(d)])]

-----------------------------------------------------------------------------
(* Calls that are one step. *)

\* Process p makes call `name'; the transaction leaves e.
Does(p, name, e) ==
  /\ name \in Calls
  /\ pending[p] = None
  /\ e.ver <= MaxVer
  /\ db' = e
  /\ UNCHANGED <<pending, replica, seen>>

InsertContact(p, b, g) ==
  LET c == NextContact(db)
      row == [person |-> c, book |-> b, fav |-> FALSE, created |-> Stamp(db),
              changed |-> Stamp(db), content |-> Stamp(db)]
      e == [db EXCEPT !.contacts = With(@, c, row),
                      !.persons = @ \cup {c},
                      !.contact_seq = Max({@, c})]
  IN
  /\ db.contact_seq < MaxContacts
  /\ g # None => Relates(db, g, b)
  /\ Does(p, "insert_contact", Versioned(IF g = None THEN e ELSE Related(e, g, c)))

LinkPerson(p, base, sub) ==
  /\ base # sub
  /\ Does(p, "link", [MovePersons(db, [x \in {sub} |-> base]) EXCEPT !.persons = db.persons \ {sub}])

\* Every contact of the person is recorded and deleted.
DeletePerson(p, person) ==
  LET S == Members(db, person)
      e == [DeleteContacts(db, S) EXCEPT
              !.persons = @ \ {person},
              !.deleteds = [c \in DOMAIN @ \cup S |->
                 IF c \in S THEN [book |-> db.contacts[c].book, ver |-> Stamp(db)] ELSE @[c]]]
  IN
  /\ S \cap DOMAIN db.deleteds = {}
  /\ Does(p, "delete_person", Versioned(e))

\* One favorites row per contact of the person; trg_favorite_insert.
SetFavorite(p, person) ==
  LET S == Members(db, person) IN
  /\ S \cap db.favorites = {}
  /\ Does(p, "favorite",
       [db EXCEPT
          !.favorites = @ \cup S,
          !.contacts = [c \in DOMAIN db.contacts |->
            [db.contacts[c] EXCEPT !.fav = @ \/ db.contacts[c].person \in S]]])

UnsetFavorite(p, person) ==
  LET S == Members(db, person) \cap db.favorites IN
  /\ S # {}
  /\ Does(p, "favorite", DeleteFavorites(db, S))

DeleteFavorite(p, c) ==
  /\ c \in db.favorites
  /\ Does(p, "favorite", DeleteFavorites(db, {c}))

InsertGroup(p, b) ==
  LET g == db.group_seq + 1
      row == [book |-> b, created |-> Stamp(db), changed |-> Stamp(db)]
  IN
  /\ db.group_seq < MaxGroups
  /\ Does(p, "insert_group",
       Versioned([db EXCEPT !.groups = With(@, g, row), !.group_seq = g]))

UpdateGroup(p, g) ==
  /\ g \in DOMAIN db.groups
  /\ Does(p, "update_group", Versioned([db EXCEPT !.groups[g].changed = Stamp(db)]))

DeleteGroup(p, g) ==
  /\ g \in DOMAIN db.groups
  /\ Does(p, "delete_group", Versioned(GroupRecorded(DeleteGroups(db, {g}), g)))

\* The contacts that are in no other group go with the group.
DeleteGroupWithMembers(p, g) ==
  LET S == {c \in ContactIds : {r \in db.relations : r[2] = c} = {<<g, c>>}}
      e == DeleteContacts(db, S)
  IN
  /\ g \in DOMAIN db.groups
  /\ Collects(e)
  /\ Does(p, "delete_group_with_members",
       Versioned(GroupRecorded(DeleteGroups(Collected(e), {g}), g)))

UnsetRelation(p, g, c) ==
  Does(p, "unset_relation", Versioned(Touched([db EXCEPT !.relations = @ \ {<<g, c>>}], c)))

InsertAddressbook(p) ==
  /\ db.book_seq < MaxBooks
  /\ Does(p, "insert_addressbook",
       [db EXCEPT !.book_seq = @ + 1, !.books = @ \cup {db.book_seq + 1}])

\* cts_reset_internal_addressbook.
ResetInternal(p) ==
  LET groups == {g \in DOMAIN db.groups : db.groups[g].book = Internal} IN
  Does(p, "reset_internal", DeleteGroups(DeleteContacts(db, BookOf(db, Internal)), groups))

\* DELETE FROM addressbooks: trg_addressbook_del.
AddressbookDeleted(d, b) ==
  LET groups == {g \in DOMAIN d.groups : d.groups[g].book = b}
      contacts == BookOf(d, b)
      e == DeleteContacts(DeleteGroups(d, groups), contacts)
  IN [e EXCEPT
        !.books = @ \ {b},
        !.deleteds = Without(@, {c \in DOMAIN @ : @[c].book = b}),
        !.group_deleteds = Without(@, {g \in DOMAIN @ : @[g].book = b})]

\* The number of changed rows that decides about the commit is the one of the
\* last statement the garbage collection executed, if it executed any.
DeleteAddressbook(p, b) ==
  LET e == AddressbookDeleted(db, b) IN
  /\ b \in db.books
  /\ Collects(e)
  /\ Orphans(e) # {} => Max(Orphans(e)) \in e.persons
  /\ Does(p, "delete_addressbook", Collected(e))

-----------------------------------------------------------------------------
(* Calls that read the database before they begin their transaction. *)

Reads(p, name, call) ==
  /\ name \in Calls
  /\ pending[p] = None
  /\ pending' = [pending EXCEPT ![p] = call]
  /\ UNCHANGED <<db, replica, seen>>

\* The transaction of the pending call: it leaves e, or fails.
Ends(p, e) ==
  /\ e.ver <= MaxVer
  /\ db' = e
  /\ pending' = [pending EXCEPT ![p] = None]
  /\ UNCHANGED <<replica, seen>>

Is(p, name) == pending[p] # None /\ pending[p].name = name

\* contacts_svc_delete_contact reads the contact's address book...
ReadDelete(p, c) ==
  /\ c \in DOMAIN db.contacts
  /\ Reads(p, "delete_contact", [name |-> "delete", contact |-> c, book |-> db.contacts[c].book])

\* ... cts_check_linked_contact: a person that loses its primary contact
\* gets another one, its last contact takes it away ...
MutUnlinked(d, c, heir) == d
Unlinked(d, c, heir) ==
  CASE Cardinality(Members(d, c)) = 0 -> d
    [] Cardinality(Members(d, c)) = 1 -> [d EXCEPT !.persons = @ \ {c}]
    [] OTHER -> MovePersons(d, [x \in {c} |-> heir])

\* ... and the contact is deleted, and recorded.  The new primary contact is
\* the first by name, so any; without a name (None) the call fails.
RunDelete(p, heir) ==
  LET c == pending[p].contact
      e == DeleteContacts(Unlinked(db, c, heir), {c})
  IN
  /\ Is(p, "delete")
  /\ heir # None /\ Cardinality(Members(db, c)) > 1 => heir \in Members(db, c) \ {c}
  /\ Ends(p, IF \/ c \in DOMAIN db.deleteds
                \/ Cardinality(Members(db, c)) > 1 /\ heir \in db.persons \cup {None}
             THEN db
             ELSE Versioned([e EXCEPT !.deleteds =
                    With(@, c, [book |-> pending[p].book, ver |-> Stamp(db)])]))

\* contacts_svc_unlink_person reads the person's outgoing count ...
ReadUnlink(p, person, c) ==
  /\ person \in db.persons
  /\ Reads(p, "unlink", [name |-> "unlink", person |-> person, contact |-> c])

\* ... and makes the contact a person of its own.  The primary contact is
\* refused: cts_person_change_primary_contact returns the new primary
\* contact, which is taken for an error.
RunUnlink(p) ==
  LET c == pending[p].contact IN
  /\ Is(p, "unlink")
  /\ Ends(p, IF pending[p].person = c \/ c \in db.persons
             THEN db
             ELSE [db EXCEPT
                     !.persons = @ \cup {c},
                     !.contacts = [x \in DOMAIN @ |->
                        IF x = c THEN [@[x] EXCEPT !.person = c] ELSE @[x]]])

\* contacts_svc_update_contact looks whether the contact exists ...
ReadUpdate(p, c, g, sets) ==
  /\ c \in DOMAIN db.contacts
  /\ Reads(p, "update_contact", [name |-> "update", contact |-> c, group |-> g,
                                 sets |-> sets, book |-> db.contacts[c].book])

\* ... and changes its data, one of its groups and its stamp.
RunUpdate(p) ==
  LET c == pending[p].contact
      g == pending[p].group
      e == IF pending[p].sets THEN Related(db, g, c)
                              ELSE [db EXCEPT !.relations = @ \ {<<g, c>>}]
  IN
  /\ Is(p, "update")
  /\ Ends(p, IF g # None /\ pending[p].sets /\ ~Relates(db, g, pending[p].book)
             THEN db
             ELSE Versioned(Touched(IF g = None THEN db ELSE e, c)))

\* contacts_svc_group_set_relation reads the contact's address book ...
ReadSetRelation(p, g, c) ==
  /\ c \in DOMAIN db.contacts
  /\ Reads(p, "set_relation",
       [name |-> "relate", contact |-> c, group |-> g, book |-> db.contacts[c].book])

\* ... and compares it with the group's.
RunSetRelation(p) ==
  LET c == pending[p].contact
      g == pending[p].group
  IN
  /\ Is(p, "relate")
  /\ Ends(p, IF Relates(db, g, pending[p].book)
             THEN Versioned(Touched(Related(db, g, c), c))
             ELSE db)

-----------------------------------------------------------------------------
(* The synchronising program: contacts_svc_get_updated_contacts and         *)
(* contacts_svc_get_updated_groups inside a transaction of its own, whose   *)
(* end_trans returns the version to ask with next time.                     *)

LiveBooks == {Internal} \cup db.books

\* The address book argument of its queries; None is "any" (a negative one).
Queries == IF ByBook THEN LiveBooks ELSE {None}
Asked(book) == \E q \in Queries : q = None \/ book = q

MutIsNewer(v) == v > seen + 1
IsNewer(v) == v > seen

ChangedIn(f) == {x \in DOMAIN f : IsNewer(f[x].changed) /\ Asked(f[x].book)}
DeletedIn(f) == {x \in DOMAIN f : IsNewer(f[x].ver) /\ Asked(f[x].book)}

ContactsNow == [c \in DOMAIN db.contacts |->
                  [book |-> db.contacts[c].book, content |-> db.contacts[c].content]]
GroupsNow == [g \in DOMAIN db.groups |->
                [book |-> db.groups[g].book, content |-> db.groups[g].changed]]

\* Drop what is reported deleted, fetch what is reported changed, forget the
\* address books that are gone.
Refreshed(old, now, changed, deleted) ==
  LET kept == {x \in DOMAIN old \ deleted : old[x].book \in LiveBooks}
  IN [x \in kept \cup changed |-> IF x \in changed THEN now[x] ELSE old[x]]

ContactsAfterSync ==
  Refreshed(replica.contacts, ContactsNow, ChangedIn(db.contacts), DeletedIn(db.deleteds))
GroupsAfterSync ==
  Refreshed(replica.groups, GroupsNow, ChangedIn(db.groups), DeletedIn(db.group_deleteds))

Sync ==
  /\ "sync" \in Calls
  /\ seen < db.ver
  /\ replica' = [contacts |-> ContactsAfterSync, groups |-> GroupsAfterSync]
  /\ seen' = db.ver
  /\ UNCHANGED <<db, pending>>

-----------------------------------------------------------------------------
Init ==
  /\ db = EmptyDb
  /\ pending = [p \in Procs |-> None]
  /\ replica = [contacts |-> <<>>, groups |-> <<>>]
  /\ seen = 0

\* A program passes the ids it finds in the database when it calls.
ContactCalls(p) ==
  \/ \E b \in LiveBooks, g \in DOMAIN db.groups \cup {None} : InsertContact(p, b, g)
  \/ \E c \in DOMAIN db.contacts : ReadDelete(p, c)
  \/ \E c \in DOMAIN db.contacts, g \in DOMAIN db.groups \cup {None}, sets \in BOOLEAN :
       ReadUpdate(p, c, g, sets)

PersonCalls(p) ==
  \/ \E base, sub \in PersonsOf(db) : LinkPerson(p, base, sub)
  \/ \E person \in PersonsOf(db) :
       \/ DeletePerson(p, person)
       \/ SetFavorite(p, person)
       \/ UnsetFavorite(p, person)
       \/ \E c \in Members(db, person) : ReadUnlink(p, person, c)
  \/ \E c \in db.favorites : DeleteFavorite(p, c)

GroupCalls(p) ==
  \/ \E b \in LiveBooks : InsertGroup(p, b)
  \/ \E g \in DOMAIN db.groups :
       \/ UpdateGroup(p, g)
       \/ DeleteGroup(p, g)
       \/ DeleteGroupWithMembers(p, g)
       \/ \E c \in DOMAIN db.contacts : UnsetRelation(p, g, c) \/ ReadSetRelation(p, g, c)

BookCalls(p) ==
  \/ InsertAddressbook(p)
  \/ ResetInternal(p)
  \/ \E b \in db.books : DeleteAddressbook(p, b)

Runs(p) ==
  \/ \E heir \in ContactIds \cup {None} : RunDelete(p, heir)
  \/ RunUnlink(p)
  \/ RunUpdate(p)
  \/ RunSetRelation(p)

Next ==
  \/ \E p \in Procs :
       ContactCalls(p) \/ PersonCalls(p) \/ GroupCalls(p) \/ BookCalls(p) \/ Runs(p)
  \/ Sync

Spec == Init /\ [][Next]_vars
=============================================================================
