--------------------------- MODULE CtsSyncProofs ---------------------------
(***************************************************************************)
(* Proofs about the synchronising program of CtsStore: what a program that *)
(* asks for the changes since the version of its last transaction then has *)
(* is what the database has.  The copy and the database differ only in     *)
(* what the next answer tells: every contact and group that differs has a  *)
(* newer stamp, every one that is gone a newer deletion record, unless its *)
(* address book is gone too.  That is one condition per table on the steps *)
(* of the database, and the calls are shown to meet it.                    *)
(***************************************************************************)
EXTENDS CtsStoreProofs

-----------------------------------------------------------------------------
(* The inductive invariants. *)

\* Every contact that is not as in the copy has a newer stamp.
ContactsTold ==
  \A c \in DOMAIN db.contacts :
    /\ db.contacts[c].book \in LiveBooks
    /\ c \in DOMAIN replica.contacts => replica.contacts[c].book = db.contacts[c].book
    /\ ~IsNewer(db.contacts[c].changed) =>
         c \in DOMAIN replica.contacts /\ replica.contacts[c] = ContactsNow[c]

\* Every contact of the copy that is gone has a newer deletion record, of its
\* address book, unless that is gone too.
ContactsDropped ==
  \A c \in DOMAIN replica.contacts :
    /\ c \in 1..db.contact_seq
    /\ replica.contacts[c].book \in 0..db.book_seq
    /\ \/ c \in DOMAIN db.contacts
       \/ replica.contacts[c].book \notin LiveBooks
       \/ /\ c \in DOMAIN db.deleteds
          /\ IsNewer(db.deleteds[c].ver)
          /\ db.deleteds[c].book = replica.contacts[c].book

ContactsInv == IInv /\ ContactsTold /\ ContactsDropped

\* The same of the groups ...
GroupsTold ==
  \A g \in DOMAIN db.groups :
    /\ db.groups[g].book \in LiveBooks
    /\ g \in DOMAIN replica.groups => replica.groups[g].book = db.groups[g].book
    /\ ~IsNewer(db.groups[g].changed) =>
         g \in DOMAIN replica.groups /\ replica.groups[g] = GroupsNow[g]

GroupsDropped ==
  \A g \in DOMAIN replica.groups :
    /\ g \in 1..db.group_seq
    /\ replica.groups[g].book \in 0..db.book_seq
    /\ \/ g \in DOMAIN db.groups
       \/ replica.groups[g].book \notin LiveBooks
       \/ g \in DOMAIN db.group_deleteds /\ IsNewer(db.group_deleteds[g].ver)

\* ... whose deletion records name no address book, so that none is removed.
RecordsStay(d) ==
  \A g \in DOMAIN d.group_deleteds :
    d.group_deleteds[g].book = None /\ g \notin DOMAIN d.groups

GroupsInv == IInv /\ GroupsTold /\ GroupsDropped /\ RecordsStay(db)

-----------------------------------------------------------------------------
(* What a call may do to the tables a synchronisation reads. *)

Live(d) == {Internal} \cup d.books

\* No id of an address book is used twice.
BooksStep(d, e) ==
  /\ e.book_seq >= d.book_seq
  /\ \A b \in e.books : b \in d.books \/ b > d.book_seq

\* A contact is new, or changed and stamped, or the same.  One that goes is
\* recorded, or goes with its address book, and so does a record.
ContactsStep(d, e) ==
  /\ e.contact_seq >= d.contact_seq
  /\ \A c \in DOMAIN e.contacts :
       \/ /\ c \in DOMAIN d.contacts
          /\ e.contacts[c].book = d.contacts[c].book
          /\ e.contacts[c].book \in Live(d) => e.contacts[c].book \in Live(e)
          /\ \/ e.contacts[c].changed > d.ver
             \/ /\ e.contacts[c].changed = d.contacts[c].changed
                /\ e.contacts[c].content = d.contacts[c].content
       \/ /\ c > d.contact_seq
          /\ e.contacts[c].book \in Live(e)
          /\ e.contacts[c].changed > d.ver
  /\ \A c \in DOMAIN d.contacts \ DOMAIN e.contacts :
       \/ d.contacts[c].book \notin Live(e)
       \/ /\ c \in DOMAIN e.deleteds
          /\ e.deleteds[c].ver > d.ver
          /\ e.deleteds[c].book = d.contacts[c].book
  /\ \A c \in DOMAIN d.deleteds :
       \/ d.deleteds[c].book \notin Live(e)
       \/ c \in DOMAIN e.deleteds /\ e.deleteds[c] = d.deleteds[c]

\* The same of the groups.
GroupsStep(d, e) ==
  /\ e.group_seq >= d.group_seq
  /\ \A g \in DOMAIN e.groups :
       \/ /\ g \in DOMAIN d.groups
          /\ e.groups[g].book = d.groups[g].book
          /\ e.groups[g].book \in Live(d) => e.groups[g].book \in Live(e)
          /\ e.groups[g].changed > d.ver \/ e.groups[g].changed = d.groups[g].changed
       \/ /\ g > d.group_seq
          /\ e.groups[g].book \in Live(e)
          /\ e.groups[g].changed > d.ver
  /\ \A g \in DOMAIN d.groups \ DOMAIN e.groups :
       \/ d.groups[g].book \notin Live(e)
       \/ g \in DOMAIN e.group_deleteds /\ e.group_deleteds[g].ver > d.ver
  /\ \A g \in DOMAIN d.group_deleteds :
       \/ d.group_deleteds[g].book \in Books
       \/ /\ g \in DOMAIN e.group_deleteds
          /\ \/ e.group_deleteds[g].ver > d.ver
             \/ e.group_deleteds[g].ver = d.group_deleteds[g].ver
  /\ RecordsStay(d) => RecordsStay(e)

\* None of the calls but those that lose a contact or a group does anything else.
SyncStep(d, e) == BooksStep(d, e) /\ ContactsStep(d, e) /\ GroupsStep(d, e)

-----------------------------------------------------------------------------
(* Steps like that keep the copy up to date with what is not told yet. *)

LEMMA ContactsStepKeeps ==
  ASSUME ContactsInv, IInv', BooksStep(db, db'), ContactsStep(db, db'),
         replica' = replica, seen' = seen
  PROVE  ContactsTold' /\ ContactsDropped'
<1>1. /\ Sane(db, db.ver) /\ db.ver \in Nat /\ db.contact_seq \in Nat /\ db.book_seq \in Nat
      /\ seen \in 0..db.ver
  BY Start DEF ContactsInv, IInv
<1>2. /\ \A c \in DOMAIN db'.contacts : c \in Nat /\ db'.contacts[c].changed \in Nat
      /\ \A c \in DOMAIN db'.deleteds : db'.deleteds[c].ver \in Nat
      /\ db'.contact_seq \in Nat /\ db'.book_seq \in Nat
  BY Bounds DEF IInv, Sane, Typed, ContactUpTo
<1>3. LiveBooks = Live(db) /\ LiveBooks' = Live(db')
  BY DEF LiveBooks, Live
<1>4. ASSUME NEW c \in DOMAIN db'.contacts
      PROVE  /\ db'.contacts[c].book \in Live(db')
             /\ c \in DOMAIN replica.contacts =>
                  replica.contacts[c].book = db'.contacts[c].book
             /\ ~(db'.contacts[c].changed > seen) =>
                  /\ c \in DOMAIN replica.contacts
                  /\ replica.contacts[c] = [book |-> db'.contacts[c].book,
                                            content |-> db'.contacts[c].content]
  <2>1. CASE /\ c \in DOMAIN db.contacts
             /\ db'.contacts[c].book = db.contacts[c].book
             /\ db'.contacts[c].book \in Live(db) => db'.contacts[c].book \in Live(db')
             /\ \/ db'.contacts[c].changed > db.ver
                \/ /\ db'.contacts[c].changed = db.contacts[c].changed
                   /\ db'.contacts[c].content = db.contacts[c].content
    <3>1. /\ db.contacts[c].book \in Live(db)
          /\ c \in DOMAIN replica.contacts => replica.contacts[c].book = db.contacts[c].book
          /\ ~(db.contacts[c].changed > seen) =>
               /\ c \in DOMAIN replica.contacts
               /\ replica.contacts[c] = [book |-> db.contacts[c].book,
                                         content |-> db.contacts[c].content]
      BY <1>3, <2>1 DEF ContactsInv, ContactsTold, ContactsNow, IsNewer
    <3> QED
      BY <1>1, <1>2, <2>1, <3>1
  <2>2. CASE /\ c > db.contact_seq
             /\ db'.contacts[c].book \in Live(db')
             /\ db'.contacts[c].changed > db.ver
    <3>1. c \notin DOMAIN replica.contacts
      BY <1>1, <1>2, <2>2 DEF ContactsInv, ContactsDropped
    <3> QED
      BY <1>1, <1>2, <2>2, <3>1
  <2> QED
    BY <2>1, <2>2 DEF ContactsStep
<1>5. ContactsTold'
  BY <1>3, <1>4 DEF ContactsTold, ContactsNow, IsNewer
<1>6. ASSUME NEW c \in DOMAIN replica.contacts
      PROVE  /\ c \in 1..db'.contact_seq
             /\ replica.contacts[c].book \in 0..db'.book_seq
             /\ \/ c \in DOMAIN db'.contacts
                \/ replica.contacts[c].book \notin Live(db')
                \/ /\ c \in DOMAIN db'.deleteds
                   /\ db'.deleteds[c].ver > seen
                   /\ db'.deleteds[c].book = replica.contacts[c].book
  <2>1. /\ c \in 1..db.contact_seq
        /\ replica.contacts[c].book \in 0..db.book_seq
        /\ \/ c \in DOMAIN db.contacts
           \/ replica.contacts[c].book \notin Live(db)
           \/ /\ c \in DOMAIN db.deleteds
              /\ db.deleteds[c].ver > seen
              /\ db.deleteds[c].book = replica.contacts[c].book
    BY <1>3 DEF ContactsInv, ContactsDropped, IsNewer
  <2>2. c \in 1..db'.contact_seq /\ replica.contacts[c].book \in 0..db'.book_seq
    BY <1>1, <1>2, <2>1 DEF ContactsStep, BooksStep
  <2>3. CASE c \in DOMAIN db.contacts /\ c \notin DOMAIN db'.contacts
    <3>1. replica.contacts[c].book = db.contacts[c].book
      BY <2>3 DEF ContactsInv, ContactsTold
    <3>2. \/ db.contacts[c].book \notin Live(db')
          \/ /\ c \in DOMAIN db'.deleteds
             /\ db'.deleteds[c].ver > db.ver
             /\ db'.deleteds[c].book = db.contacts[c].book
      BY <2>3 DEF ContactsStep
    <3> QED
      BY <1>1, <1>2, <2>2, <3>1, <3>2
  <2>4. CASE replica.contacts[c].book \notin Live(db)
    <3>1. replica.contacts[c].book \notin Live(db')
      BY <1>1, <2>1, <2>4 DEF BooksStep, Live
    <3> QED
      BY <2>2, <3>1
  <2>5. CASE /\ c \in DOMAIN db.deleteds
             /\ db.deleteds[c].ver > seen
             /\ db.deleteds[c].book = replica.contacts[c].book
    <3>1. \/ db.deleteds[c].book \notin Live(db')
          \/ c \in DOMAIN db'.deleteds /\ db'.deleteds[c] = db.deleteds[c]
      BY <2>5 DEF ContactsStep
    <3> QED
      BY <2>2, <2>5, <3>1
  <2> QED
    BY <2>1, <2>2, <2>3, <2>4, <2>5
<1>7. ContactsDropped'
  BY <1>3, <1>6 DEF ContactsDropped, IsNewer
<1> QED
  BY <1>5, <1>7

LEMMA GroupsStepKeeps ==
  ASSUME GroupsInv, IInv', BooksStep(db, db'), GroupsStep(db, db'),
         replica' = replica, seen' = seen
  PROVE  GroupsTold' /\ GroupsDropped' /\ RecordsStay(db')
<1>1. /\ Sane(db, db.ver) /\ db.ver \in Nat /\ db.group_seq \in Nat /\ db.book_seq \in Nat
      /\ seen \in 0..db.ver
  BY Start DEF GroupsInv, IInv
<1>2. /\ \A g \in DOMAIN db'.groups : g \in Nat /\ db'.groups[g].changed \in Nat
      /\ \A g \in DOMAIN db'.group_deleteds : db'.group_deleteds[g].ver \in Nat
      /\ db'.group_seq \in Nat /\ db'.book_seq \in Nat
  BY Bounds DEF IInv, Sane, Typed, GroupUpTo
<1>3. LiveBooks = Live(db) /\ LiveBooks' = Live(db')
  BY DEF LiveBooks, Live
<1>4. ASSUME NEW g \in DOMAIN db'.groups
      PROVE  /\ db'.groups[g].book \in Live(db')
             /\ g \in DOMAIN replica.groups => replica.groups[g].book = db'.groups[g].book
             /\ ~(db'.groups[g].changed > seen) =>
                  /\ g \in DOMAIN replica.groups
                  /\ replica.groups[g] = [book |-> db'.groups[g].book,
                                          content |-> db'.groups[g].changed]
  <2>1. CASE /\ g \in DOMAIN db.groups
             /\ db'.groups[g].book = db.groups[g].book
             /\ db'.groups[g].book \in Live(db) => db'.groups[g].book \in Live(db')
             /\ db'.groups[g].changed > db.ver \/ db'.groups[g].changed = db.groups[g].changed
    <3>1. /\ db.groups[g].book \in Live(db)
          /\ g \in DOMAIN replica.groups => replica.groups[g].book = db.groups[g].book
          /\ ~(db.groups[g].changed > seen) =>
               /\ g \in DOMAIN replica.groups
               /\ replica.groups[g] = [book |-> db.groups[g].book,
                                       content |-> db.groups[g].changed]
      BY <1>3, <2>1 DEF GroupsInv, GroupsTold, GroupsNow, IsNewer
    <3> QED
      BY <1>1, <1>2, <2>1, <3>1
  <2>2. CASE /\ g > db.group_seq
             /\ db'.groups[g].book \in Live(db')
             /\ db'.groups[g].changed > db.ver
    <3>1. g \notin DOMAIN replica.groups
      BY <1>1, <1>2, <2>2 DEF GroupsInv, GroupsDropped
    <3> QED
      BY <1>1, <1>2, <2>2, <3>1
  <2> QED
    BY <2>1, <2>2 DEF GroupsStep
<1>5. GroupsTold'
  BY <1>3, <1>4 DEF GroupsTold, GroupsNow, IsNewer
<1>6. ASSUME NEW g \in DOMAIN replica.groups
      PROVE  /\ g \in 1..db'.group_seq
             /\ replica.groups[g].book \in 0..db'.book_seq
             /\ \/ g \in DOMAIN db'.groups
                \/ replica.groups[g].book \notin Live(db')
                \/ g \in DOMAIN db'.group_deleteds /\ db'.group_deleteds[g].ver > seen
  <2>1. /\ g \in 1..db.group_seq
        /\ replica.groups[g].book \in 0..db.book_seq
        /\ \/ g \in DOMAIN db.groups
           \/ replica.groups[g].book \notin Live(db)
           \/ g \in DOMAIN db.group_deleteds /\ db.group_deleteds[g].ver > seen
    BY <1>3 DEF GroupsInv, GroupsDropped, IsNewer
  <2>2. g \in 1..db'.group_seq /\ replica.groups[g].book \in 0..db'.book_seq
    BY <1>1, <1>2, <2>1 DEF GroupsStep, BooksStep
  <2>3. CASE g \in DOMAIN db.groups /\ g \notin DOMAIN db'.groups
    <3>1. replica.groups[g].book = db.groups[g].book
      BY <2>3 DEF GroupsInv, GroupsTold
    <3>2. \/ db.groups[g].book \notin Live(db')
          \/ g \in DOMAIN db'.group_deleteds /\ db'.group_deleteds[g].ver > db.ver
      BY <2>3 DEF GroupsStep
    <3> QED
      BY <1>1, <1>2, <2>2, <3>1, <3>2
  <2>4. CASE replica.groups[g].book \notin Live(db)
    <3>1. replica.groups[g].book \notin Live(db')
      BY <1>1, <2>1, <2>4 DEF BooksStep, Live
    <3> QED
      BY <2>2, <3>1
  <2>5. CASE g \in DOMAIN db.group_deleteds /\ db.group_deleteds[g].ver > seen
    <3>1. db.group_deleteds[g].book \notin Books
      BY <2>5, Bounds DEF GroupsInv, RecordsStay
    <3>2. /\ g \in DOMAIN db'.group_deleteds
          /\ \/ db'.group_deleteds[g].ver > db.ver
             \/ db'.group_deleteds[g].ver = db.group_deleteds[g].ver
      BY <2>5, <3>1 DEF GroupsStep
    <3> QED
      BY <1>1, <1>2, <2>2, <2>5, <3>2
  <2> QED
    BY <2>1, <2>2, <2>3, <2>4, <2>5
<1>7. GroupsDropped'
  BY <1>3, <1>6 DEF GroupsDropped, IsNewer
<1>8. RecordsStay(db')
  BY DEF GroupsInv, GroupsStep
<1> QED
  BY <1>5, <1>7, <1>8

-----------------------------------------------------------------------------
(* The answer makes the copy what the database is. *)

\* An address book that contacts or groups are in is asked for.
LEMMA LiveAsked ==
  ASSUME NEW b \in LiveBooks
  PROVE  Asked(b)
BY DEF Asked, Queries

\* Of the contacts: none that is there is recorded as deleted, and every one
\* that is gone is told, whichever way the program asks.
LEMMA ContactsAnswer ==
  ASSUME ContactsInv
  PROVE  ContactsAfterSync = ContactsNow
<1> DEFINE changed == ChangedIn(db.contacts)
           deleted == DeletedIn(db.deleteds)
           kept == {x \in DOMAIN replica.contacts \ deleted :
                      replica.contacts[x].book \in LiveBooks}
<1>1. ContactsAfterSync =
        [x \in kept \cup changed |-> IF x \in changed THEN ContactsNow[x] ELSE replica.contacts[x]]
  BY DEF ContactsAfterSync, Refreshed
<1>2. changed = {c \in DOMAIN db.contacts : IsNewer(db.contacts[c].changed)}
  BY LiveAsked DEF ChangedIn, ContactsInv, ContactsTold
<1>3. deleted \cap DOMAIN db.contacts = {}
  BY DEF DeletedIn, ContactsInv, IInv, Sane, Consistent
<1>4. kept \subseteq DOMAIN db.contacts
  BY LiveAsked DEF DeletedIn, ContactsInv, ContactsDropped
<1>5. DOMAIN db.contacts \ changed \subseteq kept
  BY <1>2, <1>3 DEF ContactsInv, ContactsTold
<1>6. kept \cup changed = DOMAIN db.contacts
  BY <1>2, <1>4, <1>5
<1>7. \A x \in DOMAIN db.contacts \ changed : replica.contacts[x] = ContactsNow[x]
  BY <1>2 DEF ContactsInv, ContactsTold
<1> HIDE DEF kept, changed
<1>8. DOMAIN ContactsNow = DOMAIN db.contacts
      /\ ContactsNow = [x \in DOMAIN db.contacts |-> ContactsNow[x]]
  BY DEF ContactsNow
<1> QED
  BY <1>1, <1>6, <1>7, <1>8

\* Of the groups: the records name no address book, so they are told only to
\* a program that asks for any.
LEMMA GroupsAnswer ==
  ASSUME GroupsInv, ByBook = FALSE
  PROVE  GroupsAfterSync = GroupsNow
<1> DEFINE changed == ChangedIn(db.groups)
           deleted == DeletedIn(db.group_deleteds)
           kept == {x \in DOMAIN replica.groups \ deleted :
                      replica.groups[x].book \in LiveBooks}
<1>0. \A b : Asked(b)
  BY DEF Asked, Queries
<1>1. GroupsAfterSync =
        [x \in kept \cup changed |-> IF x \in changed THEN GroupsNow[x] ELSE replica.groups[x]]
  BY DEF GroupsAfterSync, Refreshed
<1>2. changed = {g \in DOMAIN db.groups : IsNewer(db.groups[g].changed)}
  BY <1>0 DEF ChangedIn
<1>3. deleted \cap DOMAIN db.groups = {}
  BY DEF DeletedIn, GroupsInv, RecordsStay
<1>4. kept \subseteq DOMAIN db.groups
  BY <1>0 DEF DeletedIn, GroupsInv, GroupsDropped
<1>5. DOMAIN db.groups \ changed \subseteq kept
  BY <1>2, <1>3 DEF GroupsInv, GroupsTold
<1>6. kept \cup changed = DOMAIN db.groups
  BY <1>2, <1>4, <1>5
<1>7. \A x \in DOMAIN db.groups \ changed : replica.groups[x] = GroupsNow[x]
  BY <1>2 DEF GroupsInv, GroupsTold
<1> HIDE DEF kept, changed
<1>8. DOMAIN GroupsNow = DOMAIN db.groups
      /\ GroupsNow = [x \in DOMAIN db.groups |-> GroupsNow[x]]
  BY DEF GroupsNow
<1> QED
  BY <1>1, <1>6, <1>7, <1>8

\* So a synchronisation leaves nothing to tell.
LEMMA SyncContacts ==
  ASSUME ContactsInv, Sync
  PROVE  ContactsTold' /\ ContactsDropped'
<1>1. db' = db /\ replica'.contacts = ContactsNow
  BY ContactsAnswer DEF Sync
<1>2. DOMAIN ContactsNow = DOMAIN db.contacts /\ ContactsNow' = ContactsNow /\ LiveBooks' = LiveBooks
  BY <1>1 DEF ContactsNow, LiveBooks
<1>3. \A c \in DOMAIN db.contacts : ContactsNow[c].book = db.contacts[c].book
  BY DEF ContactsNow
<1>4. ContactsTold'
  BY <1>1, <1>2, <1>3 DEF ContactsInv, ContactsTold
<1>5. \A c \in DOMAIN db.contacts : c \in 1..db.contact_seq /\ db.contacts[c].book \in 0..db.book_seq
  BY Start DEF ContactsInv, ContactsTold, LiveBooks, Internal, Sane, Typed
<1>6. ContactsDropped'
  BY <1>1, <1>2, <1>3, <1>5 DEF ContactsDropped
<1> QED
  BY <1>4, <1>6

LEMMA SyncGroups ==
  ASSUME GroupsInv, ByBook = FALSE, Sync
  PROVE  GroupsTold' /\ GroupsDropped' /\ RecordsStay(db')
<1>1. db' = db /\ replica'.groups = GroupsNow
  BY GroupsAnswer DEF Sync
<1>2. DOMAIN GroupsNow = DOMAIN db.groups /\ GroupsNow' = GroupsNow /\ LiveBooks' = LiveBooks
  BY <1>1 DEF GroupsNow, LiveBooks
<1>3. \A g \in DOMAIN db.groups : GroupsNow[g].book = db.groups[g].book
  BY DEF GroupsNow
<1>4. GroupsTold'
  BY <1>1, <1>2, <1>3 DEF GroupsInv, GroupsTold
<1>5. \A g \in DOMAIN db.groups : g \in 1..db.group_seq /\ db.groups[g].book \in 0..db.book_seq
  BY Start DEF GroupsInv, GroupsTold, LiveBooks, Internal, Sane, Typed
<1>6. GroupsDropped'
  BY <1>1, <1>2, <1>3, <1>5 DEF GroupsDropped
<1> QED
  BY <1>1, <1>4, <1>6 DEF GroupsInv

-----------------------------------------------------------------------------
(* The statements: what they do to the rows. *)

\* The rows that remain are in their address books and as they were.
KeptRows(d, e) ==
  /\ DOMAIN e.contacts \subseteq DOMAIN d.contacts
  /\ \A c \in DOMAIN e.contacts :
       /\ e.contacts[c].book = d.contacts[c].book
       /\ e.contacts[c].changed = d.contacts[c].changed
       /\ e.contacts[c].content = d.contacts[c].content

LEMMA KeptRowsTwice ==
  ASSUME NEW d, NEW e, NEW f, KeptRows(d, e), KeptRows(e, f)
  PROVE  KeptRows(d, f)
BY DEF KeptRows

LEMMA DeleteFavoritesRows ==
  ASSUME NEW d, NEW v, Sane(d, v), NEW S
  PROVE  KeptRows(d, DeleteFavorites(d, S))
<1> DEFINE e == DeleteFavorites(d, S)
<1>1. e.contacts = [c \in DOMAIN d.contacts |->
       [d.contacts[c] EXCEPT !.fav = @ /\ d.contacts[c].person \notin S \cap d.favorites]]
  BY DEF DeleteFavorites, Sane, Typed, Shape
<1>2. ASSUME NEW c \in DOMAIN d.contacts
      PROVE  /\ e.contacts[c].book = d.contacts[c].book
             /\ e.contacts[c].changed = d.contacts[c].changed
             /\ e.contacts[c].content = d.contacts[c].content
  <2> DEFINE r == d.contacts[c]
             b == r.fav /\ r.person \notin S \cap d.favorites
  <2>1. e.contacts[c] = [r EXCEPT !.fav = b]
    BY <1>1
  <2>2. r \in ContactUpTo(v)
    BY DEF Sane, Typed
  <2> HIDE DEF b, e
  <2> QED
    BY <2>1, <2>2 DEF ContactUpTo
<1>3. DOMAIN e.contacts = DOMAIN d.contacts
  BY <1>1
<1> QED
  BY <1>2, <1>3 DEF KeptRows

LEMMA DeleteContactsRows ==
  ASSUME NEW d, NEW v, Sane(d, v), NEW S
  PROVE  KeptRows(d, DeleteContacts(d, S))
<1> DEFINE f == DeleteFavorites(d, S)
           e == DeleteContacts(d, S)
<1>1. Sane(f, v) /\ KeptRows(d, f)
  BY DeleteFavoritesSane, DeleteFavoritesRows
<1>2. e = [f EXCEPT !.contacts = Without(@, S), !.relations = {r \in @ : r[2] \notin S}]
  BY DEF DeleteContacts
<1> HIDE DEF f, e
<1>3. e.contacts = Without(f.contacts, S)
  BY <1>1, <1>2 DEF Sane, Typed, Shape
<1>4. KeptRows(f, e)
  BY <1>3 DEF KeptRows, Without
<1> QED
  BY <1>1, <1>4, KeptRowsTwice DEF e

LEMMA MovePersonsRows ==
  ASSUME NEW d, NEW v, Sane(d, v), NEW to
  PROVE  KeptRows(d, MovePersons(d, to))
<1> DEFINE e == MovePersons(d, to)
           Moved(p) == IF p \in DOMAIN to THEN to[p] ELSE p
<1>1. e.contacts = [c \in DOMAIN d.contacts |->
                      [d.contacts[c] EXCEPT !.person = Moved(d.contacts[c].person)]]
  BY DEF MovePersons, Sane, Typed, Shape
<1>2. ASSUME NEW c \in DOMAIN d.contacts
      PROVE  /\ e.contacts[c].book = d.contacts[c].book
             /\ e.contacts[c].changed = d.contacts[c].changed
             /\ e.contacts[c].content = d.contacts[c].content
  <2> DEFINE r == d.contacts[c]
             q == Moved(r.person)
  <2>1. e.contacts[c] = [r EXCEPT !.person = q]
    BY <1>1
  <2>2. r \in ContactUpTo(v)
    BY DEF Sane, Typed
  <2> HIDE DEF q, e
  <2> QED
    BY <2>1, <2>2 DEF ContactUpTo
<1>3. DOMAIN e.contacts = DOMAIN d.contacts
  BY <1>1
<1> QED
  BY <1>2, <1>3 DEF KeptRows

LEMMA CollectedRows ==
  ASSUME NEW d, NEW v, Sane(d, v)
  PROVE  KeptRows(d, Collected(d))
BY MovePersonsRows DEF Collected

LEMMA UnlinkedRows ==
  ASSUME NEW d, NEW v, Sane(d, v), NEW c, NEW heir
  PROVE  KeptRows(d, Unlinked(d, c, heir))
<1>1. CASE Cardinality(Members(d, c)) = 0
  BY <1>1 DEF Unlinked, KeptRows
<1>2. CASE Cardinality(Members(d, c)) = 1 /\ Cardinality(Members(d, c)) # 0
  <2>1. Unlinked(d, c, heir) = [d EXCEPT !.persons = @ \ {c}]
    BY <1>2 DEF Unlinked
  <2>2. Unlinked(d, c, heir).contacts = d.contacts
    BY <2>1 DEF Sane, Typed, Shape
  <2> QED
    BY <2>2 DEF KeptRows
<1>3. CASE Cardinality(Members(d, c)) # 0 /\ Cardinality(Members(d, c)) # 1
  BY <1>3, MovePersonsRows DEF Unlinked
<1> QED
  BY <1>1, <1>2, <1>3

\* A contact that is changed gets a newer stamp; the others stay as they are.
LEMMA TouchedRows ==
  ASSUME NEW d, Sane(d, d.ver + 1), NEW c, NEW e, e = Touched(d, c)
  PROVE  \A x \in DOMAIN d.contacts :
           /\ e.contacts[x].book = d.contacts[x].book
           /\ \/ e.contacts[x].changed = d.ver + 1
              \/ /\ e.contacts[x].changed = d.contacts[x].changed
                 /\ e.contacts[x].content = d.contacts[x].content
<1>1. CASE c \notin DOMAIN d.contacts
  BY <1>1 DEF Touched
<1>2. CASE c \in DOMAIN d.contacts
  <2>1. e.contacts = [d.contacts EXCEPT ![c] =
                        [@ EXCEPT !.changed = d.ver + 1, !.content = d.ver + 1]]
    BY <1>2 DEF Touched, Stamp, Sane, Typed, Shape
  <2>2. \A x \in DOMAIN d.contacts : x # c => e.contacts[x] = d.contacts[x]
    BY <2>1
  <2>3. e.contacts[c].book = d.contacts[c].book /\ e.contacts[c].changed = d.ver + 1
    <3> DEFINE r == d.contacts[c]
    <3>1. e.contacts[c] = [r EXCEPT !.changed = d.ver + 1, !.content = d.ver + 1]
      BY <1>2, <2>1
    <3>2. r \in ContactUpTo(d.ver + 1)
      BY <1>2 DEF Sane, Typed
    <3> HIDE DEF r
    <3>3. e.contacts[c].book = r.book /\ e.contacts[c].changed = d.ver + 1
      BY <3>1, <3>2 DEF ContactUpTo
    <3> QED
      BY <3>3 DEF r
  <2> QED
    BY <2>2, <2>3
<1> QED
  BY <1>1, <1>2

-----------------------------------------------------------------------------
(* The calls. *)

\* The tables of deletion records, versions, ids and address books.
LEMMA VersionedRest ==
  ASSUME NEW f, Shape(f), f.ver \in Nat
  PROVE  LET e == Versioned(f) IN
         /\ e.contacts = f.contacts
         /\ e.groups = f.groups
         /\ e.books = f.books
         /\ e.deleteds = f.deleteds
         /\ e.group_deleteds = f.group_deleteds
         /\ e.contact_seq = f.contact_seq
         /\ e.group_seq = f.group_seq
         /\ e.book_seq = f.book_seq
BY DEF Versioned, Shape

\* The version itself makes no difference.
LEMMA VersionedStep ==
  ASSUME NEW d, NEW f, Shape(f), f.ver \in Nat
  PROVE  /\ BooksStep(d, f) => BooksStep(d, Versioned(f))
         /\ ContactsStep(d, f) => ContactsStep(d, Versioned(f))
         /\ GroupsStep(d, f) => GroupsStep(d, Versioned(f))
BY VersionedRest DEF BooksStep, ContactsStep, GroupsStep, RecordsStay, Live

\* The same address books.
SameBooks(d, e) == e.books = d.books /\ e.book_seq = d.book_seq

LEMMA SameBooksStep ==
  ASSUME NEW d, NEW e, SameBooks(d, e), d.book_seq \in Nat
  PROVE  BooksStep(d, e) /\ Live(e) = Live(d)
BY DEF SameBooks, BooksStep, Live

\* The contacts are the ones they were, but for some that are stamped.
LEMMA QuietContacts ==
  ASSUME NEW d, NEW e, SameBooks(d, e), d.contact_seq \in Nat, d.ver \in Nat,
         e.contact_seq = d.contact_seq,
         e.deleteds = d.deleteds,
         DOMAIN e.contacts = DOMAIN d.contacts,
         \A c \in DOMAIN d.contacts :
           /\ e.contacts[c].book = d.contacts[c].book
           /\ \/ e.contacts[c].changed = d.ver + 1
              \/ /\ e.contacts[c].changed = d.contacts[c].changed
                 /\ e.contacts[c].content = d.contacts[c].content
  PROVE  ContactsStep(d, e)
BY DEF ContactsStep, Live, SameBooks

LEMMA KeptRowsStep ==
  ASSUME NEW d, NEW e, SameBooks(d, e), d.contact_seq \in Nat, d.ver \in Nat,
         e.contact_seq = d.contact_seq,
         e.deleteds = d.deleteds,
         DOMAIN e.contacts = DOMAIN d.contacts, KeptRows(d, e)
  PROVE  ContactsStep(d, e)
BY QuietContacts DEF KeptRows

\* The groups are the ones they were.
LEMMA QuietGroups ==
  ASSUME NEW d, NEW e, SameBooks(d, e), d.group_seq \in Nat,
         e.group_seq = d.group_seq,
         e.groups = d.groups,
         e.group_deleteds = d.group_deleteds
  PROVE  GroupsStep(d, e)
BY DEF GroupsStep, RecordsStay, Live, SameBooks

LEMMA Restful ==
  ASSUME NEW d, NEW e, SameRest(d, e)
  PROVE  /\ SameBooks(d, e) /\ e.ver = d.ver
         /\ e.deleteds = d.deleteds /\ e.group_deleteds = d.group_deleteds
         /\ e.contact_seq = d.contact_seq /\ e.group_seq = d.group_seq
BY DEF SameRest, SameBooks

\* A call that changes no row a synchronisation reads, or only stamps some.
LEMMA RestStep ==
  ASSUME IInv, NEW e, SameRest(db, e), e.groups = db.groups,
         DOMAIN e.contacts = DOMAIN db.contacts,
         \A c \in DOMAIN db.contacts :
           /\ e.contacts[c].book = db.contacts[c].book
           /\ \/ e.contacts[c].changed = db.ver + 1
              \/ /\ e.contacts[c].changed = db.contacts[c].changed
                 /\ e.contacts[c].content = db.contacts[c].content
  PROVE  SyncStep(db, e)
<1>1. db.ver \in Nat /\ db.contact_seq \in Nat /\ db.group_seq \in Nat /\ db.book_seq \in Nat
  BY Start
<1>2. BooksStep(db, e)
  BY <1>1, Restful, SameBooksStep
<1>3. ContactsStep(db, e)
  BY <1>1, Restful, QuietContacts
<1>4. GroupsStep(db, e)
  BY <1>1, Restful, QuietGroups
<1> QED
  BY <1>2, <1>3, <1>4 DEF SyncStep

\* Favorites, links and unlinks.
LEMMA DeleteFavoritesStep ==
  ASSUME IInv, NEW S
  PROVE  SyncStep(db, DeleteFavorites(db, S))
<1> DEFINE e == DeleteFavorites(db, S)
<1>1. Sane(db, db.ver)
  BY Start
<1>2. /\ SameRest(db, e) /\ e.groups = db.groups
      /\ DOMAIN e.contacts = DOMAIN db.contacts /\ KeptRows(db, e)
  BY <1>1, DeleteFavoritesSane, DeleteFavoritesRows
<1> HIDE DEF e
<1>3. SyncStep(db, e)
  BY <1>2, RestStep DEF KeptRows
<1> QED
  BY <1>3 DEF e

LEMMA SetFavoriteStep ==
  ASSUME IInv, NEW p \in Procs, NEW person, SetFavorite(p, person)
  PROVE  SyncStep(db, db')
<1> DEFINE S == Members(db, person)
           table == [c \in DOMAIN db.contacts |->
                       [db.contacts[c] EXCEPT !.fav = @ \/ db.contacts[c].person \in S]]
<1>1. Sane(db, db.ver) /\ Shape(db)
  BY Start
<1>2. db' = [db EXCEPT !.favorites = @ \cup S, !.contacts = table]
  BY DEF SetFavorite, Does
<1>3. ASSUME NEW c \in DOMAIN db.contacts
      PROVE  /\ table[c].book = db.contacts[c].book
             /\ table[c].changed = db.contacts[c].changed
             /\ table[c].content = db.contacts[c].content
  <2> DEFINE r == db.contacts[c]
             b == r.fav \/ r.person \in S
  <2>1. table[c] = [r EXCEPT !.fav = b]
    OBVIOUS
  <2>2. r \in ContactUpTo(db.ver)
    BY <1>1 DEF Sane, Typed
  <2> HIDE DEF b, table
  <2> QED
    BY <2>1, <2>2 DEF ContactUpTo
<1>4. DOMAIN table = DOMAIN db.contacts
  OBVIOUS
<1> HIDE DEF table
<1>5. SameRest(db, db') /\ db'.groups = db.groups /\ db'.contacts = table
  BY <1>1, <1>2 DEF Shape, SameRest
<1> QED
  BY <1>3, <1>4, <1>5, RestStep

LEMMA LinkPersonStep ==
  ASSUME IInv, NEW p \in Procs, NEW base \in PersonsOf(db), NEW sub, LinkPerson(p, base, sub)
  PROVE  SyncStep(db, db')
<1> DEFINE to == [x \in {sub} |-> base]
           f == MovePersons(db, to)
<1>1. Sane(db, db.ver)
  BY Start
<1>2. db' = [f EXCEPT !.persons = db.persons \ {sub}]
  BY DEF LinkPerson, Does
<1>3. \A x \in DOMAIN to : to[x] \in ContactIds
  BY <1>1 DEF PersonsOf, Sane, Typed, ContactUpTo
<1> HIDE DEF to
<1>4. /\ Sane(f, db.ver) /\ SameRest(db, f) /\ f.groups = db.groups
      /\ DOMAIN f.contacts = DOMAIN db.contacts /\ KeptRows(db, f)
  BY <1>1, <1>3, MovePersonsSane, MovePersonsRows
<1> HIDE DEF f
<1>5. SameRest(db, db') /\ db'.groups = db.groups /\ db'.contacts = f.contacts
  BY <1>2, <1>4 DEF Sane, Typed, Shape, SameRest
<1> QED
  BY <1>4, <1>5, RestStep DEF KeptRows

LEMMA SameDbStep ==
  ASSUME IInv
  PROVE  SyncStep(db, db)
BY RestStep DEF SameRest

LEMMA RunUnlinkStep ==
  ASSUME IInv, NEW p \in Procs, RunUnlink(p)
  PROVE  SyncStep(db, db')
<1> DEFINE c == pending[p].contact
           table == [x \in DOMAIN db.contacts |->
                       IF x = c THEN [db.contacts[x] EXCEPT !.person = c] ELSE db.contacts[x]]
<1>1. Sane(db, db.ver) /\ Shape(db)
  BY Start
<1>2. CASE pending[p].person = c \/ c \in db.persons
  BY <1>2, SameDbStep DEF RunUnlink, Ends
<1>3. CASE c \notin db.persons /\ pending[p].person # c
  <2>1. db' = [db EXCEPT !.persons = db.persons \cup {c}, !.contacts = table]
    <3>1. db' = [db EXCEPT !.persons = @ \cup {c},
                           !.contacts = [x \in DOMAIN @ |->
                              IF x = c THEN [@[x] EXCEPT !.person = c] ELSE @[x]]]
      BY <1>3 DEF RunUnlink, Ends
    <3> QED
      BY <1>1, <3>1 DEF Shape
  <2>2. /\ DOMAIN table = DOMAIN db.contacts
        /\ \A x \in DOMAIN db.contacts :
             /\ table[x].book = db.contacts[x].book
             /\ table[x].changed = db.contacts[x].changed
             /\ table[x].content = db.contacts[x].content
    BY <1>1 DEF Sane, Typed, ContactUpTo
  <2> HIDE DEF table
  <2>3. SameRest(db, db') /\ db'.groups = db.groups /\ db'.contacts = table
    BY <1>1, <2>1 DEF Shape, SameRest
  <2> QED
    BY <2>2, <2>3, RestStep
<1> QED
  BY <1>2, <1>3

\* A contact is changed, with or without a relation.
LEMMA TouchedStep ==
  ASSUME IInv, NEW c, NEW f, Sane(f, db.ver + 1),
         SameRest(db, f), f.groups = db.groups, f.contacts = db.contacts
  PROVE  SyncStep(db, Versioned(Touched(f, c)))
<1> DEFINE e == Touched(f, c)
<1>1. Sane(db, db.ver) /\ Shape(db) /\ db.ver \in Nat
  BY Start
<1>2. f.ver = db.ver /\ Sane(f, f.ver + 1)
  BY DEF SameRest
<1>3. /\ Sane(e, db.ver + 1) /\ SameRest(f, e) /\ DOMAIN e.contacts = DOMAIN db.contacts
  BY <1>2, TouchedSane
<1>4. e.groups = db.groups
  <2>1. Shape(f)
    BY DEF Sane, Typed
  <2> QED
    BY <1>2, <2>1 DEF Touched, Shape
<1>5. \A x \in DOMAIN db.contacts :
        /\ e.contacts[x].book = db.contacts[x].book
        /\ \/ e.contacts[x].changed = db.ver + 1
           \/ /\ e.contacts[x].changed = db.contacts[x].changed
              /\ e.contacts[x].content = db.contacts[x].content
  BY <1>2, TouchedRows
<1> HIDE DEF e
<1>6. SameRest(db, e)
  BY <1>2, <1>3 DEF SameRest
<1>7. SyncStep(db, e)
  BY <1>3, <1>4, <1>5, <1>6, RestStep
<1>8. Shape(e) /\ e.ver \in Nat
  BY <1>3 DEF Sane, Typed
<1>9. SyncStep(db, Versioned(e))
  BY <1>7, <1>8, VersionedStep DEF SyncStep
<1> QED
  BY <1>9 DEF e

LEMMA UnsetRelationStep ==
  ASSUME IInv, NEW p \in Procs, NEW g, NEW c, UnsetRelation(p, g, c)
  PROVE  SyncStep(db, db')
<1> DEFINE S == {<<g, c>>}
           f == [db EXCEPT !.relations = @ \ S]
<1>1. Sane(db, db.ver + 1) /\ Shape(db)
  BY Start
<1> HIDE DEF S
<1>2. Sane(f, db.ver + 1) /\ SameRest(db, f) /\ f.contacts = db.contacts
  BY <1>1, UnrelatedSane
<1>3. f.groups = db.groups
  BY <1>1 DEF Shape
<1> HIDE DEF f
<1>4. SyncStep(db, Versioned(Touched(f, c)))
  BY <1>2, <1>3, TouchedStep
<1> QED
  BY <1>4 DEF UnsetRelation, Does, f, S

LEMMA RelatedTouchedStep ==
  ASSUME IInv, NEW p \in Procs, NEW g, pending[p] # None, pending[p].name # "unlink",
         Relates(db, g, pending[p].book), NEW c, c = pending[p].contact
  PROVE  SyncStep(db, Versioned(Touched(Related(db, g, c), c)))
<1> DEFINE f == Related(db, g, c)
<1>1. Sane(db, db.ver + 1) /\ Shape(db)
  BY Start
<1>2. /\ g \in DOMAIN db.groups /\ c \in 1..db.contact_seq
      /\ c \in DOMAIN db.contacts => db.groups[g].book = db.contacts[c].book
  BY Pending DEF Relates
<1>3. Sane(f, db.ver + 1) /\ SameRest(db, f) /\ f.contacts = db.contacts
  BY <1>1, <1>2, RelatedSane
<1>4. f.groups = db.groups
  BY <1>1 DEF Related, Shape
<1> HIDE DEF f
<1>5. SyncStep(db, Versioned(Touched(f, c)))
  BY <1>3, <1>4, TouchedStep
<1> QED
  BY <1>5 DEF f

LEMMA RunSetRelationStep ==
  ASSUME IInv, NEW p \in Procs, RunSetRelation(p)
  PROVE  SyncStep(db, db')
<1>1. pending[p] # None /\ pending[p].name # "unlink"
  BY DEF RunSetRelation, Is
<1>2. CASE ~Relates(db, pending[p].group, pending[p].book)
  BY <1>2, SameDbStep DEF RunSetRelation, Ends
<1>3. CASE Relates(db, pending[p].group, pending[p].book)
  BY <1>1, <1>3, RelatedTouchedStep DEF RunSetRelation, Ends
<1> QED
  BY <1>2, <1>3

LEMMA RunUpdateStep ==
  ASSUME IInv, NEW p \in Procs, RunUpdate(p)
  PROVE  SyncStep(db, db')
<1> DEFINE c == pending[p].contact
           g == pending[p].group
           sets == pending[p].sets
<1>1. pending[p] # None /\ pending[p].name # "unlink"
  BY DEF RunUpdate, Is
<1>2. CASE g # None /\ sets /\ ~Relates(db, g, pending[p].book)
  BY <1>2, SameDbStep DEF RunUpdate, Ends
<1>3. CASE g # None /\ sets /\ Relates(db, g, pending[p].book)
  <2>1. db' = Versioned(Touched(Related(db, g, c), c))
    BY <1>3 DEF RunUpdate, Ends
  <2> QED
    BY <1>1, <1>3, <2>1, RelatedTouchedStep
<1>4. CASE g = None \/ ~sets
  <2> DEFINE S == IF g = None THEN {} ELSE {<<g, c>>}
             f == [db EXCEPT !.relations = db.relations \ S]
  <2>1. Sane(db, db.ver + 1) /\ Shape(db)
    BY Start
  <2>2. db' = Versioned(Touched(f, c))
    <3>1. CASE g = None
      <4>1. f = db
        BY <2>1, <3>1 DEF Shape
      <4>2. db' = Versioned(Touched(db, c))
        BY <3>1 DEF RunUpdate, Ends
      <4> QED
        BY <4>1, <4>2
    <3>2. CASE g # None
      <4>1. f = [db EXCEPT !.relations = @ \ {<<g, c>>}]
        BY <2>1, <3>2 DEF Shape
      <4>2. db' = Versioned(Touched([db EXCEPT !.relations = @ \ {<<g, c>>}], c))
        BY <1>4, <3>2 DEF RunUpdate, Ends
      <4> QED
        BY <4>1, <4>2
    <3> QED
      BY <3>1, <3>2
  <2> HIDE DEF S
  <2>3. f = [db EXCEPT !.relations = @ \ S] /\ f.groups = db.groups
    BY <2>1 DEF Shape
  <2>4. Sane(f, db.ver + 1) /\ SameRest(db, f) /\ f.contacts = db.contacts
    BY <2>1, <2>3, UnrelatedSane
  <2> HIDE DEF c, f
  <2> QED
    BY <2>2, <2>3, <2>4, TouchedStep
<1> QED
  BY <1>2, <1>3, <1>4

\* A new contact has a new id and a newer stamp.
LEMMA InsertContactStep ==
  ASSUME IInv, NEW p \in Procs, NEW b \in LiveBooks, NEW g \in DOMAIN db.groups \cup {None},
         InsertContact(p, b, g)
  PROVE  SyncStep(db, db')
<1> DEFINE c == db.contact_seq + 1
           row == [person |-> c, book |-> b, fav |-> FALSE, created |-> db.ver + 1,
                   changed |-> db.ver + 1, content |-> db.ver + 1]
           e == [db EXCEPT !.contacts = With(@, c, row), !.persons = @ \cup {c},
                           !.contact_seq = Max({@, c})]
           f == IF g = None THEN e ELSE Related(e, g, c)
<1>1. /\ Sane(db, db.ver) /\ Shape(db)
      /\ db.ver \in Nat /\ db.contact_seq \in Nat /\ db.group_seq \in Nat /\ db.book_seq \in Nat
  BY Start
<1>2. db' = Versioned(f)
  BY DEF InsertContact, NextContact, Stamp, Does
<1>3. Max({db.contact_seq, c}) = c /\ c > db.contact_seq
  BY <1>1, MaxOfNext
<1>4. row.book = b /\ row.changed = db.ver + 1
  OBVIOUS
<1> HIDE DEF row
<1>5. e = [db EXCEPT !.contacts = With(db.contacts, c, row),
                     !.persons = db.persons \cup {c}, !.contact_seq = c]
  BY <1>1, <1>3 DEF Shape
<1> HIDE DEF e, c
<1>6. /\ e.contacts = With(db.contacts, c, row)
      /\ e.contact_seq = c
      /\ SameBooks(db, e) /\ e.ver = db.ver
      /\ e.groups = db.groups /\ e.group_seq = db.group_seq
      /\ e.deleteds = db.deleteds /\ e.group_deleteds = db.group_deleteds
      /\ Shape(e)
  BY <1>1, <1>5 DEF Shape, SameBooks
<1>7. /\ f.contacts = e.contacts
      /\ f.contact_seq = c
      /\ SameBooks(db, f) /\ f.ver = db.ver
      /\ f.groups = db.groups /\ f.group_seq = db.group_seq
      /\ f.deleteds = db.deleteds /\ f.group_deleteds = db.group_deleteds
      /\ Shape(f)
  BY <1>6 DEF Related, Shape, SameBooks
<1> HIDE DEF f
<1>8. /\ DOMAIN f.contacts = DOMAIN db.contacts \cup {c}
      /\ f.contacts[c] = row
      /\ \A x \in DOMAIN db.contacts : x # c => f.contacts[x] = db.contacts[x]
  BY <1>6, <1>7 DEF With
<1>9. Live(f) = Live(db) /\ b \in Live(f)
  BY <1>7 DEF Live, SameBooks, LiveBooks
<1>10. ContactsStep(db, f)
  <2>1. ASSUME NEW x \in DOMAIN f.contacts, x # c
        PROVE  x \in DOMAIN db.contacts /\ f.contacts[x] = db.contacts[x]
    BY <1>8, <2>1
  <2>2. f.contacts[c].book \in Live(f) /\ f.contacts[c].changed > db.ver
    BY <1>1, <1>4, <1>8, <1>9
  <2>3. f.contact_seq >= db.contact_seq /\ c > db.contact_seq
    BY <1>1, <1>3, <1>7 DEF c
  <2>4. DOMAIN db.contacts \ DOMAIN f.contacts = {}
    BY <1>8
  <2> QED
    BY <1>7, <1>9, <2>1, <2>2, <2>3, <2>4 DEF ContactsStep
<1>11. BooksStep(db, f) /\ GroupsStep(db, f)
  BY <1>1, <1>7, SameBooksStep, QuietGroups
<1> QED
  BY <1>1, <1>2, <1>7, <1>10, <1>11, VersionedStep DEF SyncStep

\* The contacts of a person are recorded with their address books.
LEMMA DeletePersonStep ==
  ASSUME IInv, NEW p \in Procs, NEW person, DeletePerson(p, person)
  PROVE  SyncStep(db, db')
<1> DEFINE S == Members(db, person)
           f == DeleteContacts(db, S)
           dels == [c \in DOMAIN db.deleteds \cup S |->
                      IF c \in S THEN [book |-> db.contacts[c].book, ver |-> db.ver + 1]
                                 ELSE db.deleteds[c]]
           e == [f EXCEPT !.persons = db.persons \ {person}, !.deleteds = dels]
<1>1. /\ Sane(db, db.ver) /\ Shape(db)
      /\ db.ver \in Nat /\ db.contact_seq \in Nat /\ db.group_seq \in Nat /\ db.book_seq \in Nat
  BY Start
<1>2. /\ Sane(f, db.ver) /\ KeptRows(db, f) /\ SameRest(db, f)
      /\ DOMAIN f.contacts = DOMAIN db.contacts \ S
      /\ f.persons = db.persons
      /\ f.groups = db.groups
  BY <1>1, DeleteContactsSane, DeleteContactsRows
<1>3. db' = Versioned(e)
  <2>1. [f EXCEPT !.persons = @ \ {person},
                  !.deleteds = [c \in DOMAIN @ \cup S |->
                    IF c \in S THEN [book |-> db.contacts[c].book, ver |-> Stamp(db)] ELSE @[c]]]
        = e
    BY <1>2 DEF Stamp, Sane, Typed, Shape, SameRest
  <2> QED
    BY <2>1 DEF DeletePerson, Does
<1>4. S \cap DOMAIN db.deleteds = {} /\ S \subseteq DOMAIN db.contacts
  BY DEF DeletePerson, Members
<1> HIDE DEF S
<1>5. /\ DOMAIN dels = DOMAIN db.deleteds \cup S
      /\ \A c \in S : dels[c].book = db.contacts[c].book /\ dels[c].ver = db.ver + 1
      /\ \A c \in DOMAIN db.deleteds : dels[c] = db.deleteds[c]
  BY <1>4
<1> HIDE DEF f, dels
<1>5a. e = [f EXCEPT !.persons = db.persons \ {person}, !.deleteds = dels]
  OBVIOUS
<1> HIDE DEF e
<1>6. /\ e.contacts = f.contacts
      /\ e.groups = db.groups
      /\ SameBooks(db, e) /\ e.ver = db.ver
      /\ e.deleteds = dels
      /\ e.group_deleteds = db.group_deleteds
      /\ e.contact_seq = db.contact_seq
      /\ e.group_seq = db.group_seq
      /\ Shape(e)
  BY <1>2, <1>5a DEF Sane, Typed, Shape, SameRest, SameBooks
<1>7. BooksStep(db, e) /\ GroupsStep(db, e) /\ Live(e) = Live(db)
  BY <1>1, <1>6, SameBooksStep, QuietGroups
<1>8. ContactsStep(db, e)
  <2>1. \A c \in DOMAIN e.contacts :
          /\ c \in DOMAIN db.contacts
          /\ e.contacts[c].book = db.contacts[c].book
          /\ e.contacts[c].changed = db.contacts[c].changed
          /\ e.contacts[c].content = db.contacts[c].content
    BY <1>2, <1>6 DEF KeptRows
  <2>2. \A c \in DOMAIN db.contacts \ DOMAIN e.contacts :
          /\ c \in DOMAIN e.deleteds
          /\ e.deleteds[c].ver > db.ver
          /\ e.deleteds[c].book = db.contacts[c].book
    BY <1>1, <1>2, <1>5, <1>6
  <2> QED
    BY <1>1, <1>5, <1>6, <1>7, <2>1, <2>2 DEF ContactsStep
<1> QED
  BY <1>1, <1>3, <1>6, <1>7, <1>8, VersionedStep DEF SyncStep

\* A contact is recorded with the address book it was read with, which is the
\* one it is in.
LEMMA RunDeleteStep ==
  ASSUME IInv, NEW p \in Procs, NEW heir, RunDelete(p, heir)
  PROVE  SyncStep(db, db')
<1> DEFINE c == pending[p].contact
           many == Cardinality(Members(db, c)) > 1
           fails == c \in DOMAIN db.deleteds \/ (many /\ heir \in db.persons \cup {None})
           d1 == Unlinked(db, c, heir)
           d2 == DeleteContacts(d1, {c})
           row == [book |-> pending[p].book, ver |-> db.ver + 1]
           dels == With(db.deleteds, c, row)
           e == [d2 EXCEPT !.deleteds = dels]
<1>1. /\ Sane(db, db.ver) /\ Shape(db)
      /\ db.ver \in Nat /\ db.contact_seq \in Nat /\ db.group_seq \in Nat /\ db.book_seq \in Nat
  BY Start
<1>2. pending[p] # None /\ pending[p].name # "unlink"
  BY DEF RunDelete, Is
<1>3. /\ c \in ContactIds
      /\ c \in DOMAIN db.contacts => db.contacts[c].book = row.book
      /\ row.ver = db.ver + 1
  BY <1>2, Pending
<1>4. CASE fails
  BY <1>4, SameDbStep DEF RunDelete, Ends
<1>5. CASE ~fails
  <2>1. many => heir \in Members(db, c) \ {c}
    BY <1>5 DEF RunDelete
  <2>2. db' = Versioned([d2 EXCEPT !.deleteds = With(@, c, row)])
    BY <1>5 DEF RunDelete, Stamp, Ends
  <2>3. c \notin DOMAIN db.deleteds
    BY <1>5
  <2>4. /\ Sane(d1, db.ver) /\ KeptRows(db, d1) /\ SameRest(db, d1)
        /\ DOMAIN d1.contacts = DOMAIN db.contacts
    BY <1>1, <1>3, <2>1, UnlinkedSane, UnlinkedRows
  <2>5. d1.groups = db.groups
    BY <1>1 DEF Unlinked, MovePersons, Shape
  <2> HIDE DEF d1
  <2>6. /\ Sane(d2, db.ver) /\ KeptRows(d1, d2) /\ SameRest(d1, d2)
        /\ DOMAIN d2.contacts = DOMAIN db.contacts \ {c}
        /\ d2.groups = db.groups
    BY <2>4, <2>5, DeleteContactsSane, DeleteContactsRows
  <2> HIDE DEF d2, row, c
  <2>7. /\ DOMAIN dels = DOMAIN db.deleteds \cup {c}
        /\ dels[c] = row
        /\ \A x \in DOMAIN db.deleteds : dels[x] = db.deleteds[x]
    BY <2>3 DEF With
  <2>8. db' = Versioned(e)
    <3>1. [d2 EXCEPT !.deleteds = With(@, c, row)] = e
      BY <2>4, <2>6 DEF SameRest, Sane, Typed, Shape
    <3> QED
      BY <2>2, <3>1
  <2> HIDE DEF dels
  <2>9. /\ e.contacts = d2.contacts
        /\ e.groups = db.groups
        /\ SameBooks(db, e) /\ e.ver = db.ver
        /\ e.deleteds = dels
        /\ e.group_deleteds = db.group_deleteds
        /\ e.contact_seq = db.contact_seq
        /\ e.group_seq = db.group_seq
        /\ Shape(e)
    BY <2>4, <2>6 DEF Sane, Typed, Shape, SameRest, SameBooks
  <2> HIDE DEF e
  <2>10. BooksStep(db, e) /\ GroupsStep(db, e) /\ Live(e) = Live(db)
    BY <1>1, <2>9, SameBooksStep, QuietGroups
  <2>11. KeptRows(db, d2)
    BY <2>4, <2>6, KeptRowsTwice
  <2>12. ContactsStep(db, e)
    <3>1. \A x \in DOMAIN e.contacts :
            /\ x \in DOMAIN db.contacts
            /\ e.contacts[x].book = db.contacts[x].book
            /\ e.contacts[x].changed = db.contacts[x].changed
            /\ e.contacts[x].content = db.contacts[x].content
      BY <2>9, <2>11 DEF KeptRows
    <3>2. \A x \in DOMAIN db.contacts \ DOMAIN e.contacts :
            /\ x \in DOMAIN e.deleteds
            /\ e.deleteds[x].ver > db.ver
            /\ e.deleteds[x].book = db.contacts[x].book
      BY <1>1, <1>3, <2>6, <2>7, <2>9
    <3> QED
      BY <1>1, <2>7, <2>9, <2>10, <3>1, <3>2 DEF ContactsStep
  <2> QED
    BY <1>1, <2>8, <2>9, <2>10, <2>12, VersionedStep DEF SyncStep
<1> QED
  BY <1>4, <1>5

-----------------------------------------------------------------------------
(* Groups and address books. *)

\* A call that leaves the contacts alone.
LEMMA OtherContacts ==
  ASSUME IInv, NEW e, e.contacts = db.contacts, e.deleteds = db.deleteds,
         e.contact_seq = db.contact_seq, db.books \subseteq e.books
  PROVE  ContactsStep(db, e)
<1>1. db.contact_seq \in Nat
  BY Start
<1>2. Live(db) \subseteq Live(e)
  BY DEF Live
<1> QED
  BY <1>1, <1>2 DEF ContactsStep

LEMMA InsertGroupStep ==
  ASSUME IInv, NEW p \in Procs, NEW b \in LiveBooks, InsertGroup(p, b)
  PROVE  SyncStep(db, db')
<1> DEFINE g == db.group_seq + 1
           row == [book |-> b, created |-> db.ver + 1, changed |-> db.ver + 1]
           table == With(db.groups, g, row)
           e == [db EXCEPT !.groups = table, !.group_seq = g]
<1>1. /\ Sane(db, db.ver) /\ Shape(db)
      /\ db.ver \in Nat /\ db.contact_seq \in Nat /\ db.group_seq \in Nat /\ db.book_seq \in Nat
  BY Start
<1>2. db' = Versioned(e)
  <2>1. [db EXCEPT !.groups = With(@, g, row), !.group_seq = g] = e
    BY <1>1 DEF Shape
  <2> QED
    BY <2>1 DEF InsertGroup, Stamp, Does
<1>3. row.book = b /\ row.changed > db.ver
  BY <1>1
<1>4. g > db.group_seq /\ g \notin 1..db.group_seq
  BY <1>1
<1>5. /\ DOMAIN table = DOMAIN db.groups \cup {g}
      /\ table[g] = row
      /\ \A x \in DOMAIN db.groups : x # g => table[x] = db.groups[x]
  BY DEF With
<1> HIDE DEF table, row, g
<1>5a. e = [db EXCEPT !.groups = table, !.group_seq = g]
  OBVIOUS
<1> HIDE DEF e
<1>6. /\ e.contacts = db.contacts
      /\ e.groups = table
      /\ SameBooks(db, e) /\ e.ver = db.ver
      /\ e.deleteds = db.deleteds
      /\ e.group_deleteds = db.group_deleteds
      /\ e.contact_seq = db.contact_seq
      /\ e.group_seq = g
      /\ Shape(e)
  BY <1>1, <1>5a DEF Shape, SameBooks
<1>7. BooksStep(db, e) /\ ContactsStep(db, e) /\ Live(e) = Live(db)
  BY <1>1, <1>6, SameBooksStep, OtherContacts DEF SameBooks
<1>8. GroupsStep(db, e)
  <2>1. b \in Live(e)
    BY <1>7 DEF Live, LiveBooks
  <2>2. \A x \in DOMAIN e.groups : x # g => x \in DOMAIN db.groups /\ e.groups[x] = db.groups[x]
    BY <1>5, <1>6
  <2>3. e.groups[g].book \in Live(e) /\ e.groups[g].changed > db.ver
    BY <1>3, <1>5, <1>6, <2>1
  <2>4. RecordsStay(db) => RecordsStay(e)
    <3>1. g \notin DOMAIN db.group_deleteds
      BY <1>1, <1>4 DEF Sane, Typed
    <3> QED
      BY <1>5, <1>6, <3>1 DEF RecordsStay
  <2>5. DOMAIN db.groups \ DOMAIN e.groups = {} /\ e.group_seq >= db.group_seq
    BY <1>1, <1>4, <1>5, <1>6 DEF g
  <2> QED
    BY <1>4, <1>6, <1>7, <2>2, <2>3, <2>4, <2>5 DEF GroupsStep
<1> QED
  BY <1>1, <1>2, <1>6, <1>7, <1>8, VersionedStep DEF SyncStep

LEMMA UpdateGroupStep ==
  ASSUME IInv, NEW p \in Procs, NEW g \in DOMAIN db.groups, UpdateGroup(p, g)
  PROVE  SyncStep(db, db')
<1> DEFINE table == [db.groups EXCEPT ![g].changed = db.ver + 1]
           e == [db EXCEPT !.groups = table]
<1>1. /\ Sane(db, db.ver) /\ Shape(db)
      /\ db.ver \in Nat /\ db.contact_seq \in Nat /\ db.group_seq \in Nat /\ db.book_seq \in Nat
  BY Start
<1>2. db' = Versioned(e)
  <2>1. [db EXCEPT !.groups[g].changed = Stamp(db)] = e
    BY <1>1 DEF Shape, Stamp
  <2> QED
    BY <2>1 DEF UpdateGroup, Does
<1>3. /\ DOMAIN table = DOMAIN db.groups
      /\ \A x \in DOMAIN db.groups :
           /\ table[x].book = db.groups[x].book
           /\ table[x].changed > db.ver \/ table[x].changed = db.groups[x].changed
  BY <1>1 DEF Sane, Typed, GroupUpTo
<1> HIDE DEF table
<1>4. /\ e.contacts = db.contacts
      /\ e.groups = table
      /\ SameBooks(db, e) /\ e.ver = db.ver
      /\ e.deleteds = db.deleteds
      /\ e.group_deleteds = db.group_deleteds
      /\ e.contact_seq = db.contact_seq
      /\ e.group_seq = db.group_seq
      /\ Shape(e)
  BY <1>1 DEF Shape, SameBooks
<1> HIDE DEF e
<1>5. BooksStep(db, e) /\ ContactsStep(db, e) /\ Live(e) = Live(db)
  BY <1>1, <1>4, SameBooksStep, OtherContacts DEF SameBooks
<1>6. GroupsStep(db, e)
  BY <1>1, <1>3, <1>4, <1>5 DEF GroupsStep, RecordsStay
<1> QED
  BY <1>1, <1>2, <1>4, <1>5, <1>6, VersionedStep DEF SyncStep

\* A group that is deleted is recorded.
LEMMA RecordedGroupStep ==
  ASSUME IInv, NEW g \in DOMAIN db.groups, NEW f, Shape(f), SameRest(db, f),
         DOMAIN f.groups = DOMAIN db.groups \ {g},
         \A x \in DOMAIN f.groups : f.groups[x] = db.groups[x],
         NEW e, e = GroupRecorded(f, g)
  PROVE  /\ BooksStep(db, e) /\ GroupsStep(db, e)
         /\ e.contacts = f.contacts /\ e.deleteds = db.deleteds
         /\ e.contact_seq = db.contact_seq /\ e.books = db.books
         /\ Shape(e) /\ e.ver = db.ver
<1>1. db.ver \in Nat /\ db.group_seq \in Nat /\ db.book_seq \in Nat
  BY Start
<1>2. /\ f.ver = db.ver /\ SameBooks(db, f)
      /\ f.group_deleteds = db.group_deleteds /\ f.group_seq = db.group_seq
  BY Restful
<1>3. /\ e.contacts = f.contacts
      /\ e.groups = f.groups
      /\ SameBooks(f, e) /\ e.ver = f.ver
      /\ e.deleteds = f.deleteds
      /\ e.group_deleteds = With(f.group_deleteds, g, [book |-> None, ver |-> f.ver + 1])
      /\ e.contact_seq = f.contact_seq
      /\ e.group_seq = f.group_seq
      /\ Shape(e)
  BY DEF GroupRecorded, Stamp, Shape, SameBooks
<1>4. /\ DOMAIN e.group_deleteds = DOMAIN db.group_deleteds \cup {g}
      /\ e.group_deleteds[g] = [book |-> None, ver |-> db.ver + 1]
      /\ \A x \in DOMAIN db.group_deleteds : x # g => e.group_deleteds[x] = db.group_deleteds[x]
  BY <1>2, <1>3 DEF With
<1>5. SameBooks(db, e)
  BY <1>2, <1>3 DEF SameBooks
<1>6. BooksStep(db, e) /\ Live(e) = Live(db)
  BY <1>1, <1>5, SameBooksStep
<1>7. GroupsStep(db, e)
  <2>1. \A x \in DOMAIN e.groups : x \in DOMAIN db.groups /\ e.groups[x] = db.groups[x]
    BY <1>3
  <2>2. e.group_deleteds[g].ver > db.ver /\ e.group_deleteds[g].book = None
    BY <1>1, <1>4
  <2>3. DOMAIN db.groups \ DOMAIN e.groups = {g}
    BY <1>3
  <2>4. \A x \in DOMAIN db.group_deleteds :
          /\ x \in DOMAIN e.group_deleteds
          /\ \/ e.group_deleteds[x].ver > db.ver
             \/ e.group_deleteds[x].ver = db.group_deleteds[x].ver
    BY <1>4, <2>2
  <2>5. RecordsStay(db) => RecordsStay(e)
    BY <1>3, <1>4, <2>2 DEF RecordsStay
  <2>6. e.group_seq >= db.group_seq
    BY <1>1, <1>2, <1>3
  <2> QED
    BY <1>4, <1>6, <2>1, <2>2, <2>3, <2>4, <2>5, <2>6 DEF GroupsStep
<1> QED
  BY <1>2, <1>3, <1>5, <1>6, <1>7, Restful DEF SameBooks

LEMMA DeleteGroupStep ==
  ASSUME IInv, NEW p \in Procs, NEW g \in DOMAIN db.groups, DeleteGroup(p, g)
  PROVE  SyncStep(db, db')
<1> DEFINE f == DeleteGroups(db, {g})
           e == GroupRecorded(f, g)
<1>1. Sane(db, db.ver) /\ db.ver \in Nat
  BY Start
<1>2. /\ Shape(f) /\ SameRest(db, f) /\ f.contacts = db.contacts
      /\ DOMAIN f.groups = DOMAIN db.groups \ {g}
      /\ \A x \in DOMAIN f.groups : f.groups[x] = db.groups[x]
  BY <1>1, DeleteGroupsSane DEF Sane, Typed
<1>3. db' = Versioned(e)
  BY DEF DeleteGroup, Does
<1> HIDE DEF f
<1>4. /\ BooksStep(db, e) /\ GroupsStep(db, e)
      /\ e.contacts = db.contacts /\ e.deleteds = db.deleteds
      /\ e.contact_seq = db.contact_seq /\ e.books = db.books
      /\ Shape(e) /\ e.ver = db.ver
  BY <1>2, RecordedGroupStep
<1> HIDE DEF e
<1>5. ContactsStep(db, e)
  BY <1>4, OtherContacts
<1> QED
  BY <1>1, <1>3, <1>4, <1>5, VersionedStep DEF SyncStep

\* The group that goes with its members is recorded; they are not.
LEMMA DeleteGroupWithMembersStep ==
  ASSUME IInv, NEW p \in Procs, NEW g \in DOMAIN db.groups, DeleteGroupWithMembers(p, g)
  PROVE  BooksStep(db, db') /\ GroupsStep(db, db')
<1> DEFINE S == {c \in ContactIds : {r \in db.relations : r[2] = c} = {<<g, c>>}}
           d1 == DeleteContacts(db, S)
           d2 == Collected(d1)
           d3 == DeleteGroups(d2, {g})
           e == GroupRecorded(d3, g)
<1>1. Sane(db, db.ver) /\ db.ver \in Nat
  BY Start
<1>2. db' = Versioned(e)
  BY DEF DeleteGroupWithMembers, Does
<1> HIDE DEF S
<1>3. Sane(d1, db.ver) /\ SameRest(db, d1) /\ d1.groups = db.groups
  BY <1>1, DeleteContactsSane
<1> HIDE DEF d1
<1>4. Sane(d2, db.ver) /\ SameRest(d1, d2) /\ d2.groups = d1.groups
  BY <1>3, CollectedSane
<1> HIDE DEF d2
<1>5. /\ Sane(d3, db.ver) /\ SameRest(d2, d3)
      /\ DOMAIN d3.groups = DOMAIN d2.groups \ {g}
      /\ \A x \in DOMAIN d3.groups : d3.groups[x] = d2.groups[x]
  BY <1>4, DeleteGroupsSane
<1> HIDE DEF d3
<1>6. SameRest(db, d3) /\ Shape(d3)
  BY <1>3, <1>4, <1>5 DEF SameRest, Sane, Typed
<1>7. BooksStep(db, e) /\ GroupsStep(db, e) /\ Shape(e) /\ e.ver = db.ver
  BY <1>3, <1>4, <1>5, <1>6, RecordedGroupStep
<1> QED
  BY <1>1, <1>2, <1>7, VersionedStep

\* A new address book has a new id.
LEMMA InsertAddressbookStep ==
  ASSUME IInv, NEW p \in Procs, InsertAddressbook(p)
  PROVE  SyncStep(db, db')
<1> DEFINE b == db.book_seq + 1
<1>1. /\ Sane(db, db.ver) /\ Shape(db)
      /\ db.contact_seq \in Nat /\ db.group_seq \in Nat /\ db.book_seq \in Nat
  BY Start
<1>2. db' = [db EXCEPT !.book_seq = b, !.books = db.books \cup {b}]
  <2>1. [db EXCEPT !.book_seq = @ + 1, !.books = @ \cup {db.book_seq + 1}]
          = [db EXCEPT !.book_seq = b, !.books = db.books \cup {b}]
    BY <1>1 DEF Shape
  <2> QED
    BY <2>1 DEF InsertAddressbook, Does
<1>3. b > db.book_seq
  BY <1>1
<1>4. /\ db'.contacts = db.contacts
      /\ db'.groups = db.groups
      /\ db'.books = db.books \cup {b}
      /\ db'.deleteds = db.deleteds
      /\ db'.group_deleteds = db.group_deleteds
      /\ db'.contact_seq = db.contact_seq
      /\ db'.group_seq = db.group_seq
      /\ db'.book_seq = b
  BY <1>1, <1>2 DEF Shape
<1>5. BooksStep(db, db')
  BY <1>1, <1>3, <1>4 DEF BooksStep
<1>6. ContactsStep(db, db')
  BY <1>4, OtherContacts
<1>7. GroupsStep(db, db')
  BY <1>1, <1>4 DEF GroupsStep, RecordsStay, Live
<1> QED
  BY <1>5, <1>6, <1>7 DEF SyncStep

\* An address book takes its contacts and groups along, and the records of
\* the contacts that were deleted from it.
LEMMA AddressbookDeletedStep ==
  ASSUME NEW d, Sane(d, d.ver), NEW b \in d.books, NEW e, e = AddressbookDeleted(d, b)
  PROVE  /\ BooksStep(d, e) /\ ContactsStep(d, e) /\ GroupsStep(d, e)
         /\ KeptRows(d, e)
<1> DEFINE groups == {g \in DOMAIN d.groups : d.groups[g].book = b}
           contacts == BookOf(d, b)
           d1 == DeleteGroups(d, groups)
           d2 == DeleteContacts(d1, contacts)
           dels == Without(d.deleteds, {c \in DOMAIN d.deleteds : d.deleteds[c].book = b})
           gdels == Without(d.group_deleteds,
                      {g \in DOMAIN d.group_deleteds : d.group_deleteds[g].book = b})
<1>1. /\ Shape(d) /\ d.contact_seq \in Nat /\ d.group_seq \in Nat /\ d.book_seq \in Nat
      /\ d.ver \in Nat /\ b \in Books /\ b # Internal
  BY Bounds DEF Sane, Typed, Internal, Books
<1>2. /\ contacts = {c \in DOMAIN d.contacts : d.contacts[c].book = b}
      /\ \A g \in groups : d.groups[g].book = b
      /\ \A g \in DOMAIN d.groups \ groups : d.groups[g].book # b
  BY DEF BookOf
<1>3. /\ \A c \in DOMAIN d.deleteds : d.deleteds[c].book # b =>
           c \in DOMAIN dels /\ dels[c] = d.deleteds[c]
      /\ \A g \in DOMAIN d.group_deleteds : d.group_deleteds[g].book # b =>
           g \in DOMAIN gdels /\ gdels[g] = d.group_deleteds[g]
      /\ DOMAIN gdels \subseteq DOMAIN d.group_deleteds
      /\ \A g \in DOMAIN gdels : gdels[g] = d.group_deleteds[g]
  BY DEF Without
<1>4. e = [d2 EXCEPT
               !.books = @ \ {b},
               !.deleteds = Without(@, {c \in DOMAIN @ : @[c].book = b}),
               !.group_deleteds = Without(@, {g \in DOMAIN @ : @[g].book = b})]
  BY DEF AddressbookDeleted
<1> HIDE DEF groups, contacts
<1>5. /\ Sane(d1, d.ver) /\ SameRest(d, d1)
      /\ d1.contacts = d.contacts
      /\ DOMAIN d1.groups = DOMAIN d.groups \ groups
      /\ \A g \in DOMAIN d1.groups : d1.groups[g] = d.groups[g]
  BY DeleteGroupsSane
<1> HIDE DEF d1
<1>6. /\ Sane(d2, d.ver) /\ KeptRows(d1, d2) /\ SameRest(d1, d2)
      /\ DOMAIN d2.contacts = DOMAIN d1.contacts \ contacts
      /\ d2.groups = d1.groups
  BY <1>5, DeleteContactsSane, DeleteContactsRows
<1> HIDE DEF d2
<1>7. e = [d2 EXCEPT !.books = d.books \ {b}, !.deleteds = dels, !.group_deleteds = gdels]
  <2>1. d2.books = d.books /\ d2.deleteds = d.deleteds /\ d2.group_deleteds = d.group_deleteds
    BY <1>5, <1>6 DEF SameRest
  <2> QED
    BY <1>4, <1>6, <2>1 DEF Sane, Typed, Shape
<1> HIDE DEF dels, gdels
<1>8. /\ e.contacts = d2.contacts
      /\ e.groups = d1.groups
      /\ e.books = d.books \ {b}
      /\ e.deleteds = dels
      /\ e.group_deleteds = gdels
      /\ e.contact_seq = d.contact_seq
      /\ e.group_seq = d.group_seq
      /\ e.book_seq = d.book_seq
  BY <1>5, <1>6, <1>7 DEF Sane, Typed, Shape, SameRest
<1>9. /\ b \notin Live(e)
      /\ \A x : x \in Live(d) /\ x # b => x \in Live(e)
  BY <1>1, <1>8 DEF Live
<1>10. BooksStep(d, e)
  BY <1>1, <1>8 DEF BooksStep
<1>11. KeptRows(d, e)
  BY <1>5, <1>6, <1>8 DEF KeptRows
<1>12. ContactsStep(d, e)
  <2>1. \A c \in DOMAIN e.contacts :
          /\ c \in DOMAIN d.contacts
          /\ e.contacts[c].book = d.contacts[c].book
          /\ e.contacts[c].book # b
          /\ e.contacts[c].changed = d.contacts[c].changed
          /\ e.contacts[c].content = d.contacts[c].content
    BY <1>2, <1>5, <1>6, <1>8, <1>11 DEF KeptRows
  <2>2. \A c \in DOMAIN d.contacts \ DOMAIN e.contacts : d.contacts[c].book = b
    BY <1>2, <1>5, <1>6, <1>8
  <2> QED
    BY <1>1, <1>3, <1>8, <1>9, <2>1, <2>2 DEF ContactsStep
<1>13. GroupsStep(d, e)
  <2>1. \A g \in DOMAIN e.groups :
          /\ g \in DOMAIN d.groups
          /\ e.groups[g] = d.groups[g]
          /\ e.groups[g].book # b
    BY <1>2, <1>5, <1>8
  <2>2. \A g \in DOMAIN d.groups \ DOMAIN e.groups : d.groups[g].book = b
    BY <1>2, <1>5, <1>8
  <2>3. \A g \in DOMAIN d.group_deleteds :
          \/ d.group_deleteds[g].book \in Books
          \/ /\ g \in DOMAIN e.group_deleteds
             /\ e.group_deleteds[g].ver = d.group_deleteds[g].ver
    BY <1>1, <1>3, <1>8
  <2>4. RecordsStay(d) => RecordsStay(e)
    BY <1>3, <1>8, <2>1 DEF RecordsStay
  <2> QED
    BY <1>1, <1>8, <1>9, <2>1, <2>2, <2>3, <2>4 DEF GroupsStep
<1> QED
  BY <1>10, <1>11, <1>12, <1>13

LEMMA DeleteAddressbookStep ==
  ASSUME IInv, NEW p \in Procs, NEW b \in db.books, DeleteAddressbook(p, b)
  PROVE  SyncStep(db, db')
<1> DEFINE f == AddressbookDeleted(db, b)
           e == Collected(f)
<1>1. Sane(db, db.ver) /\ db' = e
  BY Start DEF DeleteAddressbook, Does
<1>2. Sane(f, db.ver) /\ BooksStep(db, f) /\ ContactsStep(db, f) /\ GroupsStep(db, f)
  BY <1>1, AddressbookDeletedSane, AddressbookDeletedStep
<1> HIDE DEF f
<1>3. /\ SameRest(f, e) /\ KeptRows(f, e)
      /\ DOMAIN e.contacts = DOMAIN f.contacts /\ e.groups = f.groups
  BY <1>2, CollectedSane, CollectedRows
<1> HIDE DEF e
<1>4. BooksStep(db, e) /\ GroupsStep(db, e)
  BY <1>2, <1>3 DEF BooksStep, GroupsStep, RecordsStay, Live, SameRest
<1>5. ContactsStep(db, e)
  BY <1>2, <1>3 DEF ContactsStep, Live, SameRest, KeptRows
<1> QED
  BY <1>1, <1>4, <1>5 DEF SyncStep

-----------------------------------------------------------------------------
(* The steps. *)

\* What the calls have to do, whichever there are; only two of them lose
\* contacts or groups without recording them.
Told ==
  /\ BooksStep(db, db')
  /\ "reset_internal" \notin Calls => GroupsStep(db, db')
  /\ {"reset_internal", "delete_group_with_members"} \cap Calls = {} => ContactsStep(db, db')

LEMMA SyncStepTold ==
  ASSUME SyncStep(db, db')
  PROVE  Told
BY DEF SyncStep, Told

\* The first step of a call of two changes nothing in the database.
LEMMA ReadsTold ==
  ASSUME IInv, NEW p, NEW name, NEW call, Reads(p, name, call)
  PROVE  Told
<1>1. SyncStep(db, db) /\ db' = db
  BY SameDbStep DEF Reads
<1> QED
  BY <1>1, SyncStepTold

LEMMA ResetInternalTold ==
  ASSUME IInv, NEW p, ResetInternal(p)
  PROVE  Told
<1> DEFINE contacts == BookOf(db, Internal)
           groups == {g \in DOMAIN db.groups : db.groups[g].book = Internal}
           f == DeleteContacts(db, contacts)
           e == DeleteGroups(f, groups)
<1>1. Sane(db, db.ver) /\ db.book_seq \in Nat
  BY Start
<1>2. "reset_internal" \in Calls /\ db' = e
  BY DEF ResetInternal, Does
<1> HIDE DEF contacts, groups
<1>3. Sane(f, db.ver) /\ SameRest(db, f)
  BY <1>1, DeleteContactsSane
<1> HIDE DEF f
<1>4. SameRest(f, e)
  BY <1>3, DeleteGroupsSane
<1> HIDE DEF e
<1>5. BooksStep(db, e)
  BY <1>1, <1>3, <1>4, SameBooksStep DEF SameRest, SameBooks
<1> QED
  BY <1>2, <1>5 DEF Told

LEMMA ContactCallsTold ==
  ASSUME IInv, NEW p \in Procs, ContactCalls(p)
  PROVE  Told /\ replica' = replica /\ seen' = seen
<1>1. CASE \E b \in LiveBooks, g \in DOMAIN db.groups \cup {None} : InsertContact(p, b, g)
  BY <1>1, InsertContactStep, SyncStepTold DEF InsertContact, Does
<1>2. CASE \E c \in DOMAIN db.contacts : ReadDelete(p, c)
  BY <1>2, ReadsTold DEF ReadDelete, Reads
<1>3. CASE \E c \in DOMAIN db.contacts, g \in DOMAIN db.groups \cup {None}, sets \in BOOLEAN :
             ReadUpdate(p, c, g, sets)
  BY <1>3, ReadsTold DEF ReadUpdate, Reads
<1> QED
  BY <1>1, <1>2, <1>3 DEF ContactCalls

LEMMA PersonCallsTold ==
  ASSUME IInv, NEW p \in Procs, PersonCalls(p)
  PROVE  Told /\ replica' = replica /\ seen' = seen
<1>1. CASE \E base, sub \in PersonsOf(db) : LinkPerson(p, base, sub)
  BY <1>1, LinkPersonStep, SyncStepTold DEF LinkPerson, Does
<1>2. CASE \E person \in PersonsOf(db) : DeletePerson(p, person)
  BY <1>2, DeletePersonStep, SyncStepTold DEF DeletePerson, Does
<1>3. CASE \E person \in PersonsOf(db) : SetFavorite(p, person)
  BY <1>3, SetFavoriteStep, SyncStepTold DEF SetFavorite, Does
<1>4. CASE \E person \in PersonsOf(db) : UnsetFavorite(p, person)
  BY <1>4, DeleteFavoritesStep, SyncStepTold DEF UnsetFavorite, Does
<1>5. CASE \E person \in PersonsOf(db) : \E c \in Members(db, person) : ReadUnlink(p, person, c)
  BY <1>5, ReadsTold DEF ReadUnlink, Reads
<1>6. CASE \E c \in db.favorites : DeleteFavorite(p, c)
  BY <1>6, DeleteFavoritesStep, SyncStepTold DEF DeleteFavorite, Does
<1> QED
  BY <1>1, <1>2, <1>3, <1>4, <1>5, <1>6 DEF PersonCalls

LEMMA GroupCallsTold ==
  ASSUME IInv, NEW p \in Procs, GroupCalls(p)
  PROVE  Told /\ replica' = replica /\ seen' = seen
<1>1. CASE \E b \in LiveBooks : InsertGroup(p, b)
  BY <1>1, InsertGroupStep, SyncStepTold DEF InsertGroup, Does
<1>2. CASE \E g \in DOMAIN db.groups : UpdateGroup(p, g)
  BY <1>2, UpdateGroupStep, SyncStepTold DEF UpdateGroup, Does
<1>3. CASE \E g \in DOMAIN db.groups : DeleteGroup(p, g)
  BY <1>3, DeleteGroupStep, SyncStepTold DEF DeleteGroup, Does
<1>4. CASE \E g \in DOMAIN db.groups : DeleteGroupWithMembers(p, g)
  <2>1. BooksStep(db, db') /\ GroupsStep(db, db')
    BY <1>4, DeleteGroupWithMembersStep
  <2>2. /\ replica' = replica /\ seen' = seen
        /\ "delete_group_with_members" \in Calls
    BY <1>4 DEF DeleteGroupWithMembers, Does
  <2> QED
    BY <2>1, <2>2 DEF Told
<1>5. CASE \E g \in DOMAIN db.groups, c \in DOMAIN db.contacts : UnsetRelation(p, g, c)
  BY <1>5, UnsetRelationStep, SyncStepTold DEF UnsetRelation, Does
<1>6. CASE \E g \in DOMAIN db.groups, c \in DOMAIN db.contacts : ReadSetRelation(p, g, c)
  BY <1>6, ReadsTold DEF ReadSetRelation, Reads
<1> QED
  BY <1>1, <1>2, <1>3, <1>4, <1>5, <1>6 DEF GroupCalls

LEMMA BookCallsTold ==
  ASSUME IInv, NEW p \in Procs, BookCalls(p)
  PROVE  Told /\ replica' = replica /\ seen' = seen
<1>1. CASE InsertAddressbook(p)
  BY <1>1, InsertAddressbookStep, SyncStepTold DEF InsertAddressbook, Does
<1>2. CASE ResetInternal(p)
  BY <1>2, ResetInternalTold DEF ResetInternal, Does
<1>3. CASE \E b \in db.books : DeleteAddressbook(p, b)
  BY <1>3, DeleteAddressbookStep, SyncStepTold DEF DeleteAddressbook, Does
<1> QED
  BY <1>1, <1>2, <1>3 DEF BookCalls

LEMMA RunsTold ==
  ASSUME IInv, NEW p \in Procs, Runs(p)
  PROVE  Told /\ replica' = replica /\ seen' = seen
<1>1. CASE \E heir \in ContactIds \cup {None} : RunDelete(p, heir)
  BY <1>1, RunDeleteStep, SyncStepTold DEF RunDelete, Ends
<1>2. CASE RunUnlink(p)
  BY <1>2, RunUnlinkStep, SyncStepTold DEF RunUnlink, Ends
<1>3. CASE RunUpdate(p)
  BY <1>3, RunUpdateStep, SyncStepTold DEF RunUpdate, Ends
<1>4. CASE RunSetRelation(p)
  BY <1>4, RunSetRelationStep, SyncStepTold DEF RunSetRelation, Ends
<1> QED
  BY <1>1, <1>2, <1>3, <1>4 DEF Runs

LEMMA NextTold ==
  ASSUME IInv, [Next]_vars, ~Sync
  PROVE  Told /\ replica' = replica /\ seen' = seen
<1>1. CASE UNCHANGED vars
  <2>1. SyncStep(db, db) /\ db' = db
    BY <1>1, SameDbStep DEF vars
  <2> QED
    BY <1>1, <2>1, SyncStepTold DEF vars
<1>2. ASSUME NEW p \in Procs,
             ContactCalls(p) \/ PersonCalls(p) \/ GroupCalls(p) \/ BookCalls(p) \/ Runs(p)
      PROVE  Told /\ replica' = replica /\ seen' = seen
  BY <1>2, ContactCallsTold, PersonCallsTold, GroupCallsTold, BookCallsTold, RunsTold
<1> QED
  BY <1>1, <1>2 DEF Next

-----------------------------------------------------------------------------
(* The theorems. *)

\* As long as nobody uses the two calls that lose contacts without recording
\* them, a program that asks for the contacts "updated since the version" its
\* last transaction returned, book by book or for all, has afterwards exactly
\* the contacts there are, with what was last written of each.
THEOREM ContactsSyncCorrect ==
  ASSUME "reset_internal" \notin Calls, "delete_group_with_members" \notin Calls
  PROVE  Spec => []ContactsSynced
<1>1. Init => ContactsInv
  <2> SUFFICES ASSUME Init PROVE ContactsInv
    OBVIOUS
  <2>1. DOMAIN db.contacts = {} /\ DOMAIN replica.contacts = {}
    BY DEF Init, EmptyDb
  <2> QED
    BY <2>1, InitIInv DEF ContactsInv, ContactsTold, ContactsDropped
<1>2. ContactsInv /\ [Next]_vars => ContactsInv'
  <2> SUFFICES ASSUME ContactsInv, [Next]_vars PROVE ContactsInv'
    OBVIOUS
  <2>1. IInv /\ IInv'
    BY NextIInv DEF ContactsInv
  <2>2. CASE Sync
    BY <2>1, <2>2, SyncContacts DEF ContactsInv
  <2>3. CASE ~Sync
    <3>1. BooksStep(db, db') /\ ContactsStep(db, db') /\ replica' = replica /\ seen' = seen
      BY <2>1, <2>3, NextTold DEF Told
    <3> QED
      BY <2>1, <3>1, ContactsStepKeeps DEF ContactsInv
  <2> QED
    BY <2>2, <2>3
<1>3. ContactsInv => ContactsSynced
  BY ContactsAnswer DEF ContactsSynced
<1> QED
  BY <1>1, <1>2, <1>3, PTL DEF Spec

\* The same of the groups, for a program that asks for those of any address
\* book, as long as nobody resets the internal one.
THEOREM GroupsSyncCorrect ==
  ASSUME ByBook = FALSE, "reset_internal" \notin Calls
  PROVE  Spec => []GroupsSynced
<1>1. Init => GroupsInv
  <2> SUFFICES ASSUME Init PROVE GroupsInv
    OBVIOUS
  <2>1. /\ DOMAIN db.groups = {} /\ DOMAIN replica.groups = {}
        /\ DOMAIN db.group_deleteds = {}
    BY DEF Init, EmptyDb
  <2> QED
    BY <2>1, InitIInv DEF GroupsInv, GroupsTold, GroupsDropped, RecordsStay
<1>2. GroupsInv /\ [Next]_vars => GroupsInv'
  <2> SUFFICES ASSUME GroupsInv, [Next]_vars PROVE GroupsInv'
    OBVIOUS
  <2>1. IInv /\ IInv'
    BY NextIInv DEF GroupsInv
  <2>2. CASE Sync
    <3>1. GroupsTold' /\ GroupsDropped' /\ RecordsStay(db')
      BY <2>2, SyncGroups
    <3> QED
      BY <2>1, <3>1 DEF GroupsInv, RecordsStay
  <2>3. CASE ~Sync
    <3>1. BooksStep(db, db') /\ GroupsStep(db, db') /\ replica' = replica /\ seen' = seen
      BY <2>1, <2>3, NextTold DEF Told
    <3>2. GroupsTold' /\ GroupsDropped' /\ RecordsStay(db')
      BY <2>1, <3>1, GroupsStepKeeps
    <3> QED
      BY <2>1, <3>2 DEF GroupsInv, RecordsStay
  <2> QED
    BY <2>2, <2>3
<1>3. GroupsInv => GroupsSynced
  BY GroupsAnswer DEF GroupsSynced
<1> QED
  BY <1>1, <1>2, <1>3, PTL DEF Spec
=============================================================================
