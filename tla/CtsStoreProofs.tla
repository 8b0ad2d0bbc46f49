-------------------------- MODULE CtsStoreProofs --------------------------
(***************************************************************************)
(* Proofs about CtsStore, for any number of processes, contacts, groups    *)
(* and address books.  Every statement, and then every call, is shown to   *)
(* take a sane database to a sane one; what a pending call has read stays  *)
(* usable because no contact ever moves to another address book and no id  *)
(* is used twice.                                                          *)
(***************************************************************************)
EXTENDS CtsStoreProps, FiniteSetTheorems, WellFoundedInduction, TLAPS

-----------------------------------------------------------------------------
(* The inductive invariant. *)

\* The database has its twelve tables and no other.
Shape(d) ==
  d = [contacts |-> d.contacts, persons |-> d.persons, favorites |-> d.favorites,
       groups |-> d.groups, relations |-> d.relations, books |-> d.books,
       deleteds |-> d.deleteds, group_deleteds |-> d.group_deleteds, ver |-> d.ver,
       contact_seq |-> d.contact_seq, group_seq |-> d.group_seq, book_seq |-> d.book_seq]

ContactUpTo(v) == [person : ContactIds, book : Books, fav : BOOLEAN,
                   created : 1..v, changed : 1..v, content : 1..v]
GroupUpTo(v) == [book : Books, created : 1..v, changed : 1..v]

\* The tables have rows of their types, with stamps up to v and with ids
\* that were given out.
Typed(d, v) ==
  /\ Shape(d)
  /\ d.ver \in Nat
  /\ d.contact_seq \in 0..MaxContacts
  /\ d.group_seq \in 0..MaxGroups
  /\ d.book_seq \in 0..MaxBooks
  /\ DOMAIN d.contacts \subseteq 1..d.contact_seq
  /\ \A c \in DOMAIN d.contacts : d.contacts[c] \in ContactUpTo(v)
  /\ d.persons \subseteq ContactIds
  /\ d.favorites \subseteq 1..d.contact_seq
  /\ DOMAIN d.groups \subseteq 1..d.group_seq
  /\ \A g \in DOMAIN d.groups : d.groups[g] \in GroupUpTo(v)
  /\ d.relations \subseteq (1..d.group_seq) \X (1..d.contact_seq)
  /\ d.books \subseteq 1..d.book_seq
  /\ DOMAIN d.deleteds \subseteq 1..d.contact_seq
  /\ \A c \in DOMAIN d.deleteds : d.deleteds[c] \in [book : Books, ver : 1..v]
  /\ DOMAIN d.group_deleteds \subseteq 1..d.group_seq
  /\ \A g \in DOMAIN d.group_deleteds :
       d.group_deleteds[g] \in [book : Books \cup {None}, ver : 1..v]

\* The tables agree with each other.
Consistent(d) ==
  /\ d.favorites \subseteq DOMAIN d.contacts
  /\ \A r \in d.relations :
       /\ r[1] \in DOMAIN d.groups
       /\ r[2] \in DOMAIN d.contacts => d.groups[r[1]].book = d.contacts[r[2]].book
  /\ DOMAIN d.deleteds \cap DOMAIN d.contacts = {}

\* A sane database, in the middle of a transaction up to its stamp v.
Sane(d, v) == Typed(d, v) /\ Consistent(d)

\* Every person is one of its contacts.
Primary(d) == \A p \in PersonsOf(d) : p \in d.persons /\ p \in Members(d, p)

\* From d to e no contact is added and none changes its address book.
Kept(d, e) ==
  /\ DOMAIN e.contacts \subseteq DOMAIN d.contacts
  /\ \A c \in DOMAIN e.contacts : e.contacts[c].book = d.contacts[c].book

\* ... nor its person.
SamePersons(d, e) ==
  \A c \in DOMAIN e.contacts : e.contacts[c].person = d.contacts[c].person

\* Versions, ids, address books and deletion records are the same.
SameRest(d, e) ==
  /\ e.books = d.books
  /\ e.deleteds = d.deleteds
  /\ e.group_deleteds = d.group_deleteds
  /\ e.ver = d.ver
  /\ e.contact_seq = d.contact_seq
  /\ e.group_seq = d.group_seq
  /\ e.book_seq = d.book_seq

-----------------------------------------------------------------------------
(* The statements. *)

\* A row keeps its type and its other columns when is_favorite changes.
LEMMA RowFavorite ==
  ASSUME NEW v, NEW r \in ContactUpTo(v), NEW b \in BOOLEAN
  PROVE  LET q == [r EXCEPT !.fav = b] IN
         q \in ContactUpTo(v) /\ q.person = r.person /\ q.book = r.book
BY DEF ContactUpTo

\* Deleting favorites changes is_favorite and nothing else.
LEMMA DeleteFavoritesSane ==
  ASSUME NEW d, NEW v, Sane(d, v), NEW S, NEW e, e = DeleteFavorites(d, S)
  PROVE  /\ Sane(e, v) /\ Kept(d, e) /\ SamePersons(d, e) /\ SameRest(d, e)
         /\ DOMAIN e.contacts = DOMAIN d.contacts
         /\ e.favorites = d.favorites \ S
         /\ e.persons = d.persons
         /\ e.groups = d.groups
         /\ e.relations = d.relations
<1>1. /\ e.favorites = d.favorites \ S
      /\ e.persons = d.persons
      /\ e.groups = d.groups
      /\ e.relations = d.relations
      /\ SameRest(d, e)
      /\ Shape(e)
  BY DEF DeleteFavorites, Sane, Typed, Shape, SameRest
<1>2. e.contacts = [c \in DOMAIN d.contacts |->
       [d.contacts[c] EXCEPT !.fav = @ /\ d.contacts[c].person \notin S \cap d.favorites]]
  BY DEF DeleteFavorites, Sane, Typed, Shape
<1>3. ASSUME NEW c \in DOMAIN d.contacts
      PROVE  /\ e.contacts[c] \in ContactUpTo(v)
             /\ e.contacts[c].person = d.contacts[c].person
             /\ e.contacts[c].book = d.contacts[c].book
  <2> DEFINE r == d.contacts[c]
             b == r.fav /\ r.person \notin S \cap d.favorites
  <2>1. e.contacts[c] = [r EXCEPT !.fav = b]
    BY <1>2
  <2>2. r \in ContactUpTo(v)
    BY DEF Sane, Typed
  <2>3. b \in BOOLEAN
    OBVIOUS
  <2> HIDE DEF r, b
  <2>4. /\ e.contacts[c] \in ContactUpTo(v)
        /\ e.contacts[c].person = r.person
        /\ e.contacts[c].book = r.book
    BY <2>1, <2>2, <2>3, RowFavorite
  <2> QED
    BY <2>4 DEF r
<1>4. DOMAIN e.contacts = DOMAIN d.contacts
  BY <1>2
<1>5. Kept(d, e) /\ SamePersons(d, e)
  BY <1>3, <1>4 DEF Kept, SamePersons
<1>6. Typed(e, v)
  BY <1>1, <1>3, <1>4 DEF Sane, Typed, SameRest
<1>7. Consistent(e)
  BY <1>1, <1>3, <1>4 DEF Sane, Consistent, SameRest
<1> QED
  BY <1>1, <1>4, <1>5, <1>6, <1>7 DEF Sane

\* Deleting contacts takes their relations and favorites along.
LEMMA DeleteContactsSane ==
  ASSUME NEW d, NEW v, Sane(d, v), NEW S, NEW e, e = DeleteContacts(d, S)
  PROVE  /\ Sane(e, v) /\ Kept(d, e) /\ SamePersons(d, e) /\ SameRest(d, e)
         /\ DOMAIN e.contacts = DOMAIN d.contacts \ S
         /\ e.persons = d.persons
         /\ e.groups = d.groups
<1> DEFINE f == DeleteFavorites(d, S)
<1>1. /\ Sane(f, v) /\ Kept(d, f) /\ SamePersons(d, f) /\ SameRest(d, f)
      /\ DOMAIN f.contacts = DOMAIN d.contacts
      /\ f.favorites = d.favorites \ S
      /\ f.persons = d.persons
      /\ f.groups = d.groups
      /\ f.relations = d.relations
  BY DeleteFavoritesSane
<1>2. e = [f EXCEPT !.contacts = Without(@, S), !.relations = {r \in @ : r[2] \notin S}]
  BY DEF DeleteContacts
<1> HIDE DEF f
<1>3. /\ e.contacts = Without(f.contacts, S)
      /\ e.relations = {r \in f.relations : r[2] \notin S}
      /\ e.favorites = f.favorites
      /\ e.persons = f.persons
      /\ e.groups = f.groups
      /\ SameRest(f, e)
      /\ Shape(e)
  BY <1>1, <1>2 DEF Sane, Typed, Shape, SameRest
<1>4. /\ DOMAIN e.contacts = DOMAIN f.contacts \ S
      /\ \A c \in DOMAIN e.contacts : e.contacts[c] = f.contacts[c]
  BY <1>3 DEF Without
<1>5. Kept(d, e) /\ SamePersons(d, e) /\ SameRest(d, e)
  BY <1>1, <1>3, <1>4 DEF Kept, SamePersons, SameRest
<1>6. Typed(e, v)
  BY <1>1, <1>3, <1>4 DEF Sane, Typed, SameRest
<1>7. Consistent(e)
  BY <1>1, <1>3, <1>4 DEF Sane, Consistent, SameRest
<1> QED
  BY <1>1, <1>3, <1>4, <1>5, <1>6, <1>7 DEF Sane

\* Deleting groups takes their relations along.
LEMMA DeleteGroupsSane ==
  ASSUME NEW d, NEW v, Sane(d, v), NEW S, NEW e, e = DeleteGroups(d, S)
  PROVE  /\ Sane(e, v) /\ SameRest(d, e)
         /\ e.contacts = d.contacts
         /\ e.persons = d.persons
         /\ DOMAIN e.groups = DOMAIN d.groups \ S
         /\ \A g \in DOMAIN e.groups : e.groups[g] = d.groups[g]
<1>1. /\ e.contacts = d.contacts
      /\ e.persons = d.persons
      /\ e.favorites = d.favorites
      /\ e.groups = Without(d.groups, S)
      /\ e.relations = {r \in d.relations : r[1] \notin S}
      /\ SameRest(d, e)
      /\ Shape(e)
  BY DEF DeleteGroups, Sane, Typed, Shape, SameRest
<1>2. /\ DOMAIN e.groups = DOMAIN d.groups \ S
      /\ \A g \in DOMAIN e.groups : e.groups[g] = d.groups[g]
  BY <1>1 DEF Without
<1>3. Typed(e, v)
  BY <1>1, <1>2 DEF Sane, Typed, SameRest
<1>4. Consistent(e)
  BY <1>1, <1>2 DEF Sane, Consistent, SameRest
<1> QED
  BY <1>1, <1>2, <1>3, <1>4 DEF Sane

\* Moving persons changes person_id and the rows of persons.
LEMMA MovePersonsSane ==
  ASSUME NEW d, NEW v, Sane(d, v), NEW to, NEW e, e = MovePersons(d, to),
         \A p \in DOMAIN to : to[p] \in ContactIds
  PROVE  /\ Sane(e, v) /\ Kept(d, e) /\ SameRest(d, e)
         /\ DOMAIN e.contacts = DOMAIN d.contacts
         /\ \A c \in DOMAIN d.contacts :
              e.contacts[c].person = IF d.contacts[c].person \in DOMAIN to
                                     THEN to[d.contacts[c].person]
                                     ELSE d.contacts[c].person
         /\ e.persons = (d.persons \ DOMAIN to) \cup {to[p] : p \in DOMAIN to \cap d.persons}
         /\ e.favorites = d.favorites
         /\ e.groups = d.groups
         /\ e.relations = d.relations
<1> DEFINE Moved(p) == IF p \in DOMAIN to THEN to[p] ELSE p
<1>1. /\ e.persons = (d.persons \ DOMAIN to) \cup {to[p] : p \in DOMAIN to \cap d.persons}
      /\ e.favorites = d.favorites
      /\ e.groups = d.groups
      /\ e.relations = d.relations
      /\ SameRest(d, e)
      /\ Shape(e)
  BY DEF MovePersons, Sane, Typed, Shape, SameRest
<1>2. e.contacts = [c \in DOMAIN d.contacts |->
                      [d.contacts[c] EXCEPT !.person = Moved(d.contacts[c].person)]]
  BY DEF MovePersons, Sane, Typed, Shape
<1>3. ASSUME NEW c \in DOMAIN d.contacts
      PROVE  /\ e.contacts[c] \in ContactUpTo(v)
             /\ e.contacts[c].person = Moved(d.contacts[c].person)
             /\ e.contacts[c].book = d.contacts[c].book
  <2> DEFINE r == d.contacts[c]
             q == Moved(r.person)
  <2>1. e.contacts[c] = [r EXCEPT !.person = q]
    BY <1>2
  <2>2. r \in ContactUpTo(v)
    BY DEF Sane, Typed
  <2>3. q \in ContactIds
    BY <2>2 DEF ContactUpTo
  <2> HIDE DEF r, q
  <2>4. /\ e.contacts[c] \in ContactUpTo(v)
        /\ e.contacts[c].person = q
        /\ e.contacts[c].book = r.book
    BY <2>1, <2>2, <2>3 DEF ContactUpTo
  <2> QED
    BY <2>4 DEF r, q
<1>4. DOMAIN e.contacts = DOMAIN d.contacts
  BY <1>2
<1>5. Kept(d, e)
  BY <1>3, <1>4 DEF Kept
<1>6. Typed(e, v)
  BY <1>1, <1>3, <1>4 DEF Sane, Typed, SameRest
<1>7. Consistent(e)
  BY <1>1, <1>3, <1>4 DEF Sane, Consistent, SameRest
<1> QED
  BY <1>1, <1>3, <1>4, <1>5, <1>6, <1>7 DEF Sane

\* Stamps may be newer than need be.
LEMMA SaneUpTo ==
  ASSUME NEW d, NEW v \in Nat, NEW w \in Nat, v <= w, Sane(d, v)
  PROVE  Sane(d, w)
<1>1. 1..v \subseteq 1..w
  OBVIOUS
<1>2. ContactUpTo(v) \subseteq ContactUpTo(w) /\ GroupUpTo(v) \subseteq GroupUpTo(w)
  BY <1>1 DEF ContactUpTo, GroupUpTo
<1>3. [book : Books, ver : 1..v] \subseteq [book : Books, ver : 1..w]
  BY <1>1
<1>4. [book : Books \cup {None}, ver : 1..v] \subseteq [book : Books \cup {None}, ver : 1..w]
  BY <1>1
<1>5. Typed(d, w)
  BY <1>2, <1>3, <1>4 DEF Sane, Typed
<1> QED
  BY <1>5 DEF Sane

\* A contact that is changed gets the stamp of the transaction.
LEMMA TouchedSane ==
  ASSUME NEW d, Sane(d, d.ver + 1), NEW c, NEW e, e = Touched(d, c)
  PROVE  /\ Sane(e, d.ver + 1) /\ Kept(d, e) /\ SamePersons(d, e) /\ SameRest(d, e)
         /\ DOMAIN e.contacts = DOMAIN d.contacts
         /\ e.persons = d.persons
<1>0. CASE c \notin DOMAIN d.contacts
  BY <1>0 DEF Touched, Kept, SamePersons, SameRest
<1>1. CASE c \in DOMAIN d.contacts
  <2>1. /\ e.persons = d.persons
        /\ e.favorites = d.favorites
        /\ e.groups = d.groups
        /\ e.relations = d.relations
        /\ SameRest(d, e)
        /\ Shape(e)
    BY <1>1 DEF Touched, Sane, Typed, Shape, SameRest
  <2>2. e.contacts = [d.contacts EXCEPT ![c] =
                        [@ EXCEPT !.changed = d.ver + 1, !.content = d.ver + 1]]
    BY <1>1 DEF Touched, Stamp, Sane, Typed, Shape
  <2>3. DOMAIN e.contacts = DOMAIN d.contacts
    BY <2>2
  <2>4. \A x \in DOMAIN d.contacts : x # c => e.contacts[x] = d.contacts[x]
    BY <2>2
  <2>5. /\ e.contacts[c] \in ContactUpTo(d.ver + 1)
        /\ e.contacts[c].person = d.contacts[c].person
        /\ e.contacts[c].book = d.contacts[c].book
    <3> DEFINE r == d.contacts[c]
    <3>1. e.contacts[c] = [r EXCEPT !.changed = d.ver + 1, !.content = d.ver + 1]
      BY <1>1, <2>2
    <3>2. r \in ContactUpTo(d.ver + 1)
      BY <1>1 DEF Sane, Typed
    <3>3. d.ver + 1 \in 1..(d.ver + 1)
      BY DEF Sane, Typed
    <3> HIDE DEF r
    <3>4. /\ e.contacts[c] \in ContactUpTo(d.ver + 1)
          /\ e.contacts[c].person = r.person
          /\ e.contacts[c].book = r.book
      BY <3>1, <3>2, <3>3 DEF ContactUpTo
    <3> QED
      BY <3>4 DEF r
  <2>6. Kept(d, e) /\ SamePersons(d, e)
    BY <2>3, <2>4, <2>5 DEF Kept, SamePersons
  <2>7. Typed(e, d.ver + 1)
    BY <2>1, <2>3, <2>4, <2>5 DEF Sane, Typed, SameRest
  <2>8. Consistent(e)
    BY <2>1, <2>3, <2>4, <2>5 DEF Sane, Consistent, SameRest
  <2> QED
    BY <2>1, <2>3, <2>6, <2>7, <2>8 DEF Sane
<1> QED
  BY <1>0, <1>1

\* A relation may be added when the group is of the contact's address book.
LEMMA RelatedSane ==
  ASSUME NEW d, NEW v, Sane(d, v), NEW g \in DOMAIN d.groups, NEW c \in 1..d.contact_seq,
         c \in DOMAIN d.contacts => d.groups[g].book = d.contacts[c].book,
         NEW e, e = Related(d, g, c)
  PROVE  /\ Sane(e, v) /\ SameRest(d, e)
         /\ e.contacts = d.contacts
         /\ e.persons = d.persons
<1>1. /\ e.contacts = d.contacts
      /\ e.persons = d.persons
      /\ e.favorites = d.favorites
      /\ e.groups = d.groups
      /\ e.relations = d.relations \cup {<<g, c>>}
      /\ SameRest(d, e)
      /\ Shape(e)
  BY DEF Related, Sane, Typed, Shape, SameRest
<1>2. Typed(e, v)
  BY <1>1 DEF Sane, Typed, SameRest
<1>3. Consistent(e)
  BY <1>1 DEF Sane, Consistent, SameRest
<1> QED
  BY <1>1, <1>2, <1>3 DEF Sane

\* A relation may always be removed.
LEMMA UnrelatedSane ==
  ASSUME NEW d, NEW v, Sane(d, v), NEW S, NEW e, e = [d EXCEPT !.relations = @ \ S]
  PROVE  /\ Sane(e, v) /\ SameRest(d, e)
         /\ e.contacts = d.contacts
         /\ e.persons = d.persons
<1>1. /\ e.contacts = d.contacts
      /\ e.persons = d.persons
      /\ e.favorites = d.favorites
      /\ e.groups = d.groups
      /\ e.relations = d.relations \ S
      /\ SameRest(d, e)
      /\ Shape(e)
  BY DEF Sane, Typed, Shape, SameRest
<1>2. Typed(e, v)
  BY <1>1 DEF Sane, Typed, SameRest
<1>3. Consistent(e)
  BY <1>1 DEF Sane, Consistent, SameRest
<1> QED
  BY <1>1, <1>2, <1>3 DEF Sane

\* The commit makes the stamps of the transaction those of the version.
LEMMA VersionedSane ==
  ASSUME NEW d, Sane(d, d.ver + 1), NEW e, e = Versioned(d)
  PROVE  /\ Sane(e, e.ver)
         /\ e.ver = d.ver + 1
         /\ e.contacts = d.contacts
         /\ e.persons = d.persons
         /\ e.contact_seq = d.contact_seq
<1>1. /\ e.contacts = d.contacts
      /\ e.persons = d.persons
      /\ e.favorites = d.favorites
      /\ e.groups = d.groups
      /\ e.relations = d.relations
      /\ e.books = d.books
      /\ e.deleteds = d.deleteds
      /\ e.group_deleteds = d.group_deleteds
      /\ e.ver = d.ver + 1
      /\ e.contact_seq = d.contact_seq
      /\ e.group_seq = d.group_seq
      /\ e.book_seq = d.book_seq
      /\ Shape(e)
  BY DEF Versioned, Sane, Typed, Shape
<1>2. Typed(e, e.ver)
  BY <1>1 DEF Sane, Typed
<1>3. Consistent(e)
  BY <1>1 DEF Sane, Consistent
<1> QED
  BY <1>1, <1>2, <1>3 DEF Sane

\* A deleted group is recorded.
LEMMA GroupRecordedSane ==
  ASSUME NEW d, Sane(d, d.ver + 1), NEW g \in 1..d.group_seq, NEW e, e = GroupRecorded(d, g)
  PROVE  /\ Sane(e, d.ver + 1)
         /\ e.contacts = d.contacts
         /\ e.persons = d.persons
         /\ e.ver = d.ver
         /\ e.contact_seq = d.contact_seq
<1>1. /\ e.contacts = d.contacts
      /\ e.persons = d.persons
      /\ e.favorites = d.favorites
      /\ e.groups = d.groups
      /\ e.relations = d.relations
      /\ e.books = d.books
      /\ e.deleteds = d.deleteds
      /\ e.group_deleteds = With(d.group_deleteds, g, [book |-> None, ver |-> d.ver + 1])
      /\ e.ver = d.ver
      /\ e.contact_seq = d.contact_seq
      /\ e.group_seq = d.group_seq
      /\ e.book_seq = d.book_seq
      /\ Shape(e)
  BY DEF GroupRecorded, Stamp, Sane, Typed, Shape
<1>2. /\ DOMAIN e.group_deleteds = DOMAIN d.group_deleteds \cup {g}
      /\ e.group_deleteds[g] = [book |-> None, ver |-> d.ver + 1]
      /\ \A x \in DOMAIN d.group_deleteds : x # g => e.group_deleteds[x] = d.group_deleteds[x]
  BY <1>1 DEF With
<1>3. d.ver + 1 \in 1..(d.ver + 1)
  BY DEF Sane, Typed
<1>4. Typed(e, d.ver + 1)
  BY <1>1, <1>2, <1>3 DEF Sane, Typed
<1>5. Consistent(e)
  BY <1>1 DEF Sane, Consistent
<1> QED
  BY <1>1, <1>4, <1>5 DEF Sane

-----------------------------------------------------------------------------
(* Garbage collection: a person that lost its primary contact gets another. *)

\* A set of numbers that is not empty has a smallest one.
LEMMA MinIsMember ==
  ASSUME NEW S, S \subseteq Nat, S # {}
  PROVE  Min(S) \in S
<1>1. \E R : IsWellFoundedOn(R, Nat) /\ \A x, y \in Nat : <<x, y>> \in R <=> x < y
  <2> DEFINE R == OpToRel(<, Nat)
  <2>1. \A x, y \in Nat : <<x, y>> \in R <=> x < y
    BY DEF OpToRel
  <2>2. IsWellFoundedOn(R, Nat)
    BY NatLessThanWellFounded
  <2> HIDE DEF R
  <2> QED
    BY <2>1, <2>2
<1>2. PICK R : IsWellFoundedOn(R, Nat) /\ \A x, y \in Nat : <<x, y>> \in R <=> x < y
  BY <1>1
<1>3. ASSUME NEW X, NEW Y, IsWellFoundedOn(X, Y), NEW Z, Z \subseteq Y, Z # {}
      PROVE  \E x \in Z : \A y \in Z : ~ (<<y, x>> \in X)
  BY <1>3, WFMin
<1>4. PICK x \in S : \A y \in S : ~ (<<y, x>> \in R)
  <2>1. IsWellFoundedOn(R, Nat)
    BY <1>2
  <2> QED
    BY <2>1, <1>3
<1>5. ASSUME NEW y \in S PROVE x =< y
  <2>1. y \in Nat /\ x \in Nat
    OBVIOUS
  <2>2. ~ (y < x)
    BY <1>2, <1>4, <2>1
  <2> QED
    BY <2>1, <2>2
<1> QED
  BY <1>5 DEF Min

\* Collecting keeps the tables sane, and when every person in use has its row,
\* each one is one of its contacts afterwards.
LEMMA CollectedSane ==
  ASSUME NEW d, NEW v, Sane(d, v), NEW e, e = Collected(d)
  PROVE  /\ Sane(e, v) /\ Kept(d, e) /\ SameRest(d, e)
         /\ DOMAIN e.contacts = DOMAIN d.contacts
         /\ PersonsOf(d) \subseteq d.persons => Primary(e)
         /\ e.groups = d.groups
<1> DEFINE to == Heirs(d)
<1>0. DOMAIN to = Orphans(d)
  BY DEF Heirs
<1>1. ASSUME NEW p \in Orphans(d)
      PROVE  to[p] \in Members(d, p)
  <2>1. to[p] = Min(Members(d, p))
    BY DEF Heirs
  <2>2. Members(d, p) \subseteq Nat
    BY DEF Members, Sane, Typed
  <2>3. Members(d, p) # {}
    BY DEF Orphans, PersonsOf, Members
  <2> QED
    BY <2>1, <2>2, <2>3, MinIsMember
<1>2. \A p \in DOMAIN to : to[p] \in ContactIds
  BY <1>0, <1>1, StoreAssumption DEF StoreAssumption, ContactIds, Members, Sane, Typed
<1>3. e = MovePersons(d, to)
  BY DEF Collected
<1> HIDE DEF to
<1>4. /\ Sane(e, v) /\ Kept(d, e) /\ SameRest(d, e)
      /\ DOMAIN e.contacts = DOMAIN d.contacts
      /\ \A c \in DOMAIN d.contacts :
           e.contacts[c].person = IF d.contacts[c].person \in DOMAIN to
                                  THEN to[d.contacts[c].person]
                                  ELSE d.contacts[c].person
      /\ e.persons = (d.persons \ DOMAIN to) \cup {to[p] : p \in DOMAIN to \cap d.persons}
      /\ e.groups = d.groups
  BY <1>2, <1>3, MovePersonsSane
<1>5. ASSUME PersonsOf(d) \subseteq d.persons
      PROVE  Primary(e)
  <2> SUFFICES ASSUME NEW c \in DOMAIN d.contacts
               PROVE  /\ e.contacts[c].person \in e.persons
                      /\ e.contacts[c].person \in DOMAIN d.contacts
                      /\ e.contacts[e.contacts[c].person].person = e.contacts[c].person
    BY <1>4 DEF Primary, PersonsOf, Members
  <2> DEFINE p == d.contacts[c].person
  <2>1. p \in PersonsOf(d) /\ p \in d.persons
    BY <1>5 DEF PersonsOf
  <2>2. CASE p \in Orphans(d)
    <3>1. to[p] \in DOMAIN d.contacts /\ d.contacts[to[p]].person = p
      BY <1>1, <2>2 DEF Members
    <3>2. e.contacts[c].person = to[p] /\ e.contacts[to[p]].person = to[p]
      BY <1>0, <1>4, <2>2, <3>1
    <3>3. to[p] \in e.persons
      BY <1>0, <1>4, <2>1, <2>2
    <3> QED
      BY <3>1, <3>2, <3>3
  <2>3. CASE p \notin Orphans(d)
    <3>1. p \in DOMAIN d.contacts /\ d.contacts[p].person = p
      BY <2>1, <2>3 DEF Orphans, Members
    <3>2. e.contacts[c].person = p /\ e.contacts[p].person = p
      BY <1>0, <1>4, <2>3, <3>1
    <3>3. p \in e.persons
      BY <1>0, <1>4, <2>1, <2>3
    <3> QED
      BY <3>1, <3>2, <3>3
  <2> QED
    BY <2>2, <2>3
<1> QED
  BY <1>4, <1>5

-----------------------------------------------------------------------------
(* What a call may do. *)

\* Ids and versions only grow, and a contact that is not new is in the
\* address book it was in.
Grown(d, e) ==
  /\ e.ver >= d.ver
  /\ e.contact_seq >= d.contact_seq
  /\ \A c \in DOMAIN e.contacts :
       \/ c > d.contact_seq
       \/ c \in DOMAIN d.contacts /\ e.contacts[c].book = d.contacts[c].book

\* A call may take d to e.
Legal(d, e) == Sane(e, e.ver) /\ Grown(d, e)

\* The contact of a pending call has been given out, and as long as it is
\* there it is in the address book that was read.
PendingOK ==
  \A p \in Procs : pending[p] # None =>
    /\ pending[p].contact \in 1..db.contact_seq
    /\ pending[p].name # "unlink" =>
         /\ pending[p].book \in Books
         /\ pending[p].contact \in DOMAIN db.contacts =>
              db.contacts[pending[p].contact].book = pending[p].book

\* The inductive invariant.
IInv ==
  /\ Sane(db, db.ver)
  /\ db.ver \in 0..MaxVer
  /\ seen \in 0..db.ver
  /\ DOMAIN pending = Procs
  /\ PendingOK
  /\ "reset_internal" \notin Calls => Primary(db)

\* The bounds are numbers, and None is not.
LEMMA Bounds ==
  /\ MaxContacts \in Nat /\ MaxGroups \in Nat /\ MaxBooks \in Nat /\ MaxVer \in Nat
  /\ None \notin Nat
  /\ ContactIds \subseteq Nat /\ GroupIds \subseteq Nat /\ Books \subseteq Nat
BY StoreAssumption DEF StoreAssumption, ContactIds, GroupIds, Books

\* No new contact: grown.
LEMMA KeptGrown ==
  ASSUME NEW d, NEW e, Kept(d, e), d.ver \in Nat, d.contact_seq \in Nat,
         e.ver \in {d.ver, d.ver + 1}, e.contact_seq = d.contact_seq
  PROVE  Grown(d, e)
BY DEF Kept, Grown

\* The same contacts with the same persons: primary if they were.
LEMMA SamePrimary ==
  ASSUME NEW d, NEW e, DOMAIN e.contacts = DOMAIN d.contacts, SamePersons(d, e),
         d.persons \subseteq e.persons, Primary(d)
  PROVE  Primary(e)
BY DEF SamePersons, Primary, PersonsOf, Members

\* What was read before a call stays usable after another one.
LEMMA PendingKept ==
  ASSUME NEW d, NEW e, Sane(d, d.ver), Grown(d, e),
         NEW c \in 1..d.contact_seq, NEW b,
         c \in DOMAIN d.contacts => d.contacts[c].book = b
  PROVE  c \in DOMAIN e.contacts => e.contacts[c].book = b
BY DEF Grown, Sane, Typed

\* A call of one step keeps the invariant if it is legal and keeps persons
\* primary.
LEMMA DoesKeeps ==
  ASSUME IInv, NEW p, NEW name, NEW e, Does(p, name, e),
         Legal(db, e),
         name # "reset_internal" /\ Primary(db) => Primary(e)
  PROVE  IInv'
<1>1. /\ db' = e /\ pending' = pending /\ seen' = seen
      /\ e.ver <= MaxVer /\ name \in Calls
  BY DEF Does
<1>2. Sane(db', db'.ver)
  BY <1>1 DEF Legal
<1>3. db.ver \in Nat /\ db.contact_seq \in Nat /\ e.ver \in Nat /\ e.contact_seq \in Nat
  BY DEF IInv, Legal, Sane, Typed
<1>4. db'.ver \in 0..MaxVer /\ seen' \in 0..db'.ver
  BY <1>1, <1>3, Bounds DEF IInv, Legal, Grown
<1>5. PendingOK'
  <2> SUFFICES ASSUME NEW q \in Procs, pending[q] # None
               PROVE  /\ pending[q].contact \in 1..e.contact_seq
                      /\ pending[q].name # "unlink" =>
                           /\ pending[q].book \in Books
                           /\ pending[q].contact \in DOMAIN e.contacts =>
                                e.contacts[pending[q].contact].book = pending[q].book
    BY <1>1 DEF PendingOK
  <2>1. pending[q].contact \in 1..db.contact_seq
    BY DEF IInv, PendingOK
  <2>2. pending[q].contact \in 1..e.contact_seq
    BY <1>3, <2>1 DEF Legal, Grown
  <2>3. ASSUME pending[q].name # "unlink"
        PROVE  /\ pending[q].book \in Books
               /\ pending[q].contact \in DOMAIN e.contacts =>
                    e.contacts[pending[q].contact].book = pending[q].book
    <3>1. pending[q].contact \in DOMAIN db.contacts =>
            db.contacts[pending[q].contact].book = pending[q].book
      BY <2>3 DEF IInv, PendingOK
    <3> QED
      BY <2>1, <2>3, <3>1, PendingKept DEF IInv, PendingOK, Legal
  <2> QED
    BY <2>2, <2>3
<1>6. "reset_internal" \notin Calls => Primary(db')
  BY <1>1 DEF IInv
<1> QED
  BY <1>1, <1>2, <1>4, <1>5, <1>6 DEF IInv

\* So does the transaction of a pending call.
LEMMA EndsKeeps ==
  ASSUME IInv, NEW p \in Procs, NEW e, Ends(p, e),
         Legal(db, e),
         Primary(db) => Primary(e)
  PROVE  IInv'
<1>1. /\ db' = e /\ pending' = [pending EXCEPT ![p] = None] /\ seen' = seen
      /\ e.ver <= MaxVer
  BY DEF Ends
<1>2. Sane(db', db'.ver)
  BY <1>1 DEF Legal
<1>3. db.ver \in Nat /\ db.contact_seq \in Nat /\ e.ver \in Nat /\ e.contact_seq \in Nat
  BY DEF IInv, Legal, Sane, Typed
<1>4. db'.ver \in 0..MaxVer /\ seen' \in 0..db'.ver
  BY <1>1, <1>3, Bounds DEF IInv, Legal, Grown
<1>5. PendingOK'
  <2> SUFFICES ASSUME NEW q \in Procs, pending'[q] # None
               PROVE  /\ pending'[q].contact \in 1..e.contact_seq
                      /\ pending'[q].name # "unlink" =>
                           /\ pending'[q].book \in Books
                           /\ pending'[q].contact \in DOMAIN e.contacts =>
                                e.contacts[pending'[q].contact].book = pending'[q].book
    BY <1>1 DEF PendingOK
  <2>0. q # p /\ pending'[q] = pending[q]
    BY <1>1 DEF IInv
  <2>1. pending[q].contact \in 1..db.contact_seq
    BY <2>0 DEF IInv, PendingOK
  <2>2. pending[q].contact \in 1..e.contact_seq
    BY <1>3, <2>1 DEF Legal, Grown
  <2>3. ASSUME pending[q].name # "unlink"
        PROVE  /\ pending[q].book \in Books
               /\ pending[q].contact \in DOMAIN e.contacts =>
                    e.contacts[pending[q].contact].book = pending[q].book
    <3>1. pending[q].contact \in DOMAIN db.contacts =>
            db.contacts[pending[q].contact].book = pending[q].book
      BY <2>0, <2>3 DEF IInv, PendingOK
    <3> QED
      BY <2>0, <2>1, <2>3, <3>1, PendingKept DEF IInv, PendingOK, Legal
  <2> QED
    BY <2>0, <2>2, <2>3
<1>6. "reset_internal" \notin Calls => Primary(db')
  BY <1>1 DEF IInv
<1>7. DOMAIN pending' = Procs
  BY <1>1 DEF IInv
<1> QED
  BY <1>2, <1>4, <1>5, <1>6, <1>7 DEF IInv

\* A call that reads the database remembers what is true of it.
LEMMA ReadsKeeps ==
  ASSUME IInv, NEW p \in Procs, NEW name, NEW call, Reads(p, name, call),
         call.contact \in DOMAIN db.contacts,
         call.name # "unlink" => call.book = db.contacts[call.contact].book
  PROVE  IInv'
<1>1. db' = db /\ seen' = seen /\ pending' = [pending EXCEPT ![p] = call]
  BY DEF Reads
<1>2. /\ call.contact \in 1..db.contact_seq
      /\ db.contacts[call.contact].book \in Books
  BY DEF IInv, Sane, Typed, ContactUpTo
<1>3. PendingOK'
  <2> SUFFICES ASSUME NEW q \in Procs, pending'[q] # None
               PROVE  /\ pending'[q].contact \in 1..db.contact_seq
                      /\ pending'[q].name # "unlink" =>
                           /\ pending'[q].book \in Books
                           /\ pending'[q].contact \in DOMAIN db.contacts =>
                                db.contacts[pending'[q].contact].book = pending'[q].book
    BY <1>1 DEF PendingOK
  <2>1. CASE q = p
    <3>1. pending'[q] = call
      BY <1>1, <2>1 DEF IInv
    <3> QED
      BY <1>2, <3>1
  <2>2. CASE q # p
    <3>1. pending'[q] = pending[q]
      BY <1>1, <2>2 DEF IInv
    <3> QED
      BY <3>1 DEF IInv, PendingOK
  <2> QED
    BY <2>1, <2>2
<1>4. DOMAIN pending' = Procs
  BY <1>1 DEF IInv
<1> QED
  BY <1>1, <1>3, <1>4 DEF IInv

-----------------------------------------------------------------------------
(* The calls. *)

\* Common facts about the database a call starts from.
LEMMA Start ==
  ASSUME IInv
  PROVE  /\ Sane(db, db.ver) /\ Sane(db, db.ver + 1) /\ Shape(db)
         /\ db.ver \in Nat /\ db.contact_seq \in 0..MaxContacts
         /\ db.group_seq \in 0..MaxGroups /\ db.book_seq \in 0..MaxBooks
<1>1. Sane(db, db.ver) /\ db.ver \in Nat
  BY DEF IInv, Sane, Typed
<1>2. db.ver + 1 \in Nat /\ db.ver <= db.ver + 1
  BY <1>1
<1>3. Sane(db, db.ver + 1)
  BY <1>1, <1>2, SaneUpTo
<1> QED
  BY <1>1, <1>3 DEF Sane, Typed

\* The sequence of ids grows by one.
LEMMA MaxOfNext ==
  ASSUME NEW n \in Nat
  PROVE  Max({n, n + 1}) = n + 1
<1>1. n + 1 \in {n, n + 1} /\ \A y \in {n, n + 1} : n + 1 >= y
  OBVIOUS
<1>2. \A x \in {n, n + 1} : (\A y \in {n, n + 1} : x >= y) => x = n + 1
  OBVIOUS
<1> QED
  BY <1>1, <1>2 DEF Max

\* A contact is inserted, in the group's address book if it has a group.
LEMMA InsertContactKeeps ==
  ASSUME IInv, NEW p \in Procs, NEW b \in LiveBooks, NEW g \in DOMAIN db.groups \cup {None},
         InsertContact(p, b, g)
  PROVE  IInv'
<1> DEFINE c == db.contact_seq + 1
           row == [person |-> c, book |-> b, fav |-> FALSE, created |-> db.ver + 1,
                   changed |-> db.ver + 1, content |-> db.ver + 1]
           e == [db EXCEPT !.contacts = With(@, c, row), !.persons = @ \cup {c},
                           !.contact_seq = Max({@, c})]
           f == IF g = None THEN e ELSE Related(e, g, c)
           h == Versioned(f)
<1>1. /\ Sane(db, db.ver) /\ Sane(db, db.ver + 1) /\ Shape(db)
      /\ db.ver \in Nat /\ db.contact_seq \in 0..MaxContacts
      /\ db.book_seq \in 0..MaxBooks
  BY Start
<1>2. /\ db.contact_seq < MaxContacts
      /\ g # None => Relates(db, g, b)
      /\ Does(p, "insert_contact", h)
  BY DEF InsertContact, NextContact, Stamp
<1>3. /\ c \in ContactIds /\ c \in Nat /\ c \notin 1..db.contact_seq
      /\ Max({db.contact_seq, c}) = c
      /\ b \in Books
  BY <1>1, <1>2, Bounds, MaxOfNext DEF ContactIds, LiveBooks, Internal, Books, Sane, Typed
<1>4. row \in ContactUpTo(db.ver + 1)
  BY <1>1, <1>3 DEF ContactUpTo
<1> HIDE DEF row
<1>5. e = [db EXCEPT !.contacts = With(db.contacts, c, row),
                     !.persons = db.persons \cup {c}, !.contact_seq = c]
  BY <1>1, <1>3 DEF Shape
<1> HIDE DEF e, c
<1>6. /\ e.contacts = With(db.contacts, c, row)
      /\ e.persons = db.persons \cup {c}
      /\ e.favorites = db.favorites
      /\ e.groups = db.groups
      /\ e.relations = db.relations
      /\ e.books = db.books
      /\ e.deleteds = db.deleteds
      /\ e.group_deleteds = db.group_deleteds
      /\ e.ver = db.ver
      /\ e.contact_seq = c
      /\ e.group_seq = db.group_seq
      /\ e.book_seq = db.book_seq
      /\ Shape(e)
  BY <1>5, <1>1 DEF Shape
<1>7. /\ DOMAIN e.contacts = DOMAIN db.contacts \cup {c}
      /\ e.contacts[c] = row
      /\ \A x \in DOMAIN db.contacts : x # c => e.contacts[x] = db.contacts[x]
  BY <1>6 DEF With
<1>8. c = db.contact_seq + 1
  BY DEF c
<1>9. Typed(e, db.ver + 1)
  <2>1. 1..db.contact_seq \subseteq 1..c /\ c \in 1..c /\ c \in 0..MaxContacts
    BY <1>1, <1>2, <1>8, Bounds
  <2>2. DOMAIN e.contacts \subseteq 1..c /\ e.persons \subseteq ContactIds /\ e.favorites \subseteq 1..c
    BY <1>1, <1>3, <1>6, <1>7, <2>1 DEF Sane, Typed
  <2>3. \A x \in DOMAIN e.contacts : e.contacts[x] \in ContactUpTo(db.ver + 1)
    BY <1>1, <1>4, <1>7 DEF Sane, Typed
  <2>4. e.relations \subseteq (1..e.group_seq) \X (1..c) /\ DOMAIN e.deleteds \subseteq 1..c
    BY <1>1, <1>6, <2>1 DEF Sane, Typed
  <2> QED
    BY <1>1, <1>6, <2>1, <2>2, <2>3, <2>4 DEF Sane, Typed
<1>10. Consistent(e)
  <2>1. c \notin DOMAIN db.contacts /\ c \notin DOMAIN db.deleteds
    BY <1>1, <1>3 DEF Sane, Typed
  <2>2. \A r \in db.relations : r[2] # c
    BY <1>1, <1>3 DEF Sane, Typed
  <2> QED
    BY <1>1, <1>6, <1>7, <2>1, <2>2 DEF Sane, Consistent
<1>11. /\ Sane(f, db.ver + 1)
       /\ f.contacts = e.contacts /\ f.persons = e.persons
       /\ f.ver = db.ver /\ f.contact_seq = c
  <2>1. CASE g = None
    BY <1>6, <1>9, <1>10, <2>1 DEF Sane
  <2>2. CASE g # None
    <3>0. row.book = b
      BY DEF row
    <3>1. g \in DOMAIN e.groups /\ c \in 1..e.contact_seq /\ e.groups[g].book = e.contacts[c].book
      BY <1>1, <1>2, <1>6, <1>7, <1>8, <2>2, <3>0 DEF Relates
    <3> HIDE DEF f
    <3>2. f = Related(e, g, c)
      BY <2>2 DEF f
    <3> QED
      BY <1>6, <1>9, <1>10, <3>1, <3>2, RelatedSane DEF Sane, SameRest
  <2> QED
    BY <2>1, <2>2
<1> HIDE DEF f
<1>12. /\ Sane(h, h.ver) /\ h.ver = db.ver + 1
       /\ h.contacts = e.contacts /\ h.persons = e.persons /\ h.contact_seq = c
  BY <1>11, VersionedSane
<1> HIDE DEF h
<1>13. Legal(db, h)
  BY <1>1, <1>3, <1>7, <1>8, <1>12 DEF Legal, Grown
<1>14. Primary(db) => Primary(h)
  <2>1. row.person = c
    BY DEF row
  <2> SUFFICES ASSUME Primary(db), NEW x \in DOMAIN h.contacts
               PROVE  /\ h.contacts[x].person \in h.persons
                      /\ h.contacts[x].person \in DOMAIN h.contacts
                      /\ h.contacts[h.contacts[x].person].person = h.contacts[x].person
    BY DEF Primary, PersonsOf, Members
  <2>2. CASE x = c
    BY <1>6, <1>7, <1>12, <2>1, <2>2
  <2>3. CASE x # c
    <3>1. x \in DOMAIN db.contacts /\ h.contacts[x] = db.contacts[x]
      BY <1>7, <1>12, <2>3
    <3>2. /\ db.contacts[x].person \in db.persons
          /\ db.contacts[x].person \in DOMAIN db.contacts
          /\ db.contacts[db.contacts[x].person].person = db.contacts[x].person
      BY <3>1 DEF Primary, PersonsOf, Members
    <3>3. db.contacts[x].person # c
      BY <1>1, <1>3, <3>2 DEF Sane, Typed
    <3> QED
      BY <1>6, <1>7, <1>12, <3>1, <3>2, <3>3
  <2> QED
    BY <2>2, <2>3
<1> QED
  BY <1>2, <1>13, <1>14, DoesKeeps

\* The contacts of the person sub become contacts of base.
LEMMA LinkPersonKeeps ==
  ASSUME IInv, NEW p \in Procs, NEW base \in PersonsOf(db), NEW sub \in PersonsOf(db),
         LinkPerson(p, base, sub)
  PROVE  IInv'
<1> DEFINE to == [x \in {sub} |-> base]
           f == MovePersons(db, to)
           e == [f EXCEPT !.persons = db.persons \ {sub}]
<1>1. Sane(db, db.ver) /\ db.ver \in Nat /\ db.contact_seq \in Nat
  BY Start
<1>2. base # sub /\ Does(p, "link", e)
  BY DEF LinkPerson
<1>3. base \in ContactIds
  BY <1>1 DEF PersonsOf, Sane, Typed, ContactUpTo
<1>4. DOMAIN to = {sub} /\ to[sub] = base
  OBVIOUS
<1> HIDE DEF to
<1>5. /\ Sane(f, db.ver) /\ Kept(db, f) /\ SameRest(db, f)
      /\ DOMAIN f.contacts = DOMAIN db.contacts
      /\ \A c \in DOMAIN db.contacts :
           f.contacts[c].person = IF db.contacts[c].person = sub
                                  THEN base ELSE db.contacts[c].person
  BY <1>1, <1>3, <1>4, MovePersonsSane
<1> HIDE DEF f
<1>6. e = [f EXCEPT !.persons = db.persons \ {sub}]
  OBVIOUS
<1> HIDE DEF e
<1>7. /\ e.contacts = f.contacts
      /\ e.persons = db.persons \ {sub}
      /\ e.favorites = f.favorites
      /\ e.groups = f.groups
      /\ e.relations = f.relations
      /\ SameRest(f, e)
      /\ Shape(e)
  BY <1>5, <1>6 DEF Sane, Typed, Shape, SameRest
<1>8. Sane(e, e.ver)
  BY <1>1, <1>5, <1>7 DEF Sane, Typed, Consistent, SameRest
<1>9. Legal(db, e)
  <2>1. Kept(db, e) /\ e.ver = db.ver /\ e.contact_seq = db.contact_seq
    BY <1>5, <1>7 DEF Kept, SameRest
  <2> QED
    BY <1>1, <1>8, <2>1, KeptGrown DEF Legal
<1>10. Primary(db) => Primary(e)
  <2> SUFFICES ASSUME Primary(db), NEW x \in DOMAIN db.contacts
               PROVE  /\ e.contacts[x].person \in e.persons
                      /\ e.contacts[x].person \in DOMAIN db.contacts
                      /\ e.contacts[e.contacts[x].person].person = e.contacts[x].person
    BY <1>5, <1>7 DEF Primary, PersonsOf, Members
  <2>1. \A q \in PersonsOf(db) :
          q \in db.persons /\ q \in DOMAIN db.contacts /\ db.contacts[q].person = q
    BY DEF Primary, Members
  <2>2. db.contacts[x].person \in PersonsOf(db)
    BY DEF PersonsOf
  <2> QED
    BY <1>2, <1>5, <1>7, <2>1, <2>2
<1> QED
  BY <1>2, <1>9, <1>10, DoesKeeps

\* A call that took a stamp, added no contact and changed no address book.
LEMMA VersionedLegal ==
  ASSUME IInv, NEW f, Sane(f, db.ver + 1), f.ver = db.ver,
         f.contact_seq = db.contact_seq, Kept(db, f)
  PROVE  Legal(db, Versioned(f)) /\ (Primary(f) => Primary(Versioned(f)))
<1> DEFINE e == Versioned(f)
<1>1. db.ver \in Nat /\ db.contact_seq \in Nat
  BY Start
<1>2. /\ Sane(e, e.ver) /\ e.ver = db.ver + 1 /\ e.contacts = f.contacts
      /\ e.persons = f.persons /\ e.contact_seq = db.contact_seq
  BY VersionedSane
<1> HIDE DEF e
<1>3. Kept(db, e)
  BY <1>2 DEF Kept
<1>4. Legal(db, e)
  BY <1>1, <1>2, <1>3, KeptGrown DEF Legal
<1>5. Primary(f) => Primary(e)
  BY <1>2 DEF Primary, PersonsOf, Members
<1> QED
  BY <1>4, <1>5 DEF e

\* The same without a stamp.
LEMMA UnversionedLegal ==
  ASSUME IInv, NEW e, Sane(e, db.ver), e.ver = db.ver,
         e.contact_seq = db.contact_seq, Kept(db, e)
  PROVE  Legal(db, e)
<1>1. db.ver \in Nat /\ db.contact_seq \in Nat
  BY Start
<1> QED
  BY <1>1, KeptGrown DEF Legal

\* What Primary says of a single contact.
LEMMA PrimaryIs ==
  ASSUME NEW d
  PROVE  Primary(d) <=>
           \A x \in DOMAIN d.contacts :
             /\ d.contacts[x].person \in d.persons
             /\ d.contacts[x].person \in DOMAIN d.contacts
             /\ d.contacts[d.contacts[x].person].person = d.contacts[x].person
BY DEF Primary, PersonsOf, Members

\* A person goes with all its contacts.
LEMMA DeletePersonKeeps ==
  ASSUME IInv, NEW p \in Procs, NEW person \in PersonsOf(db), DeletePerson(p, person)
  PROVE  IInv'
<1> DEFINE S == Members(db, person)
           f == DeleteContacts(db, S)
           row(c) == [book |-> db.contacts[c].book, ver |-> db.ver + 1]
           dels == [c \in DOMAIN db.deleteds \cup S |->
                      IF c \in S THEN row(c) ELSE db.deleteds[c]]
           e == [f EXCEPT !.persons = db.persons \ {person}, !.deleteds = dels]
<1>1. Sane(db, db.ver + 1) /\ db.ver \in Nat /\ db.contact_seq \in Nat
  BY Start
<1>2. /\ Sane(f, db.ver + 1) /\ Kept(db, f) /\ SamePersons(db, f) /\ SameRest(db, f)
      /\ DOMAIN f.contacts = DOMAIN db.contacts \ S
      /\ f.persons = db.persons
      /\ f.groups = db.groups
  BY <1>1, DeleteContactsSane
<1>3. Does(p, "delete_person", Versioned(e))
  <2>1. [f EXCEPT !.persons = @ \ {person},
                  !.deleteds = [c \in DOMAIN @ \cup S |->
                    IF c \in S THEN [book |-> db.contacts[c].book, ver |-> Stamp(db)] ELSE @[c]]]
        = e
    BY <1>2 DEF Stamp, Sane, Typed, Shape, SameRest
  <2> QED
    BY <2>1 DEF DeletePerson
<1>4. \A c \in S : row(c) \in [book : Books, ver : 1..(db.ver + 1)]
  BY <1>1 DEF Members, Sane, Typed, ContactUpTo
<1>5. /\ DOMAIN dels = DOMAIN db.deleteds \cup S
      /\ \A c \in DOMAIN dels : dels[c] \in [book : Books, ver : 1..(db.ver + 1)]
  BY <1>1, <1>4 DEF Sane, Typed
<1> HIDE DEF f, dels
<1>6. e = [f EXCEPT !.persons = db.persons \ {person}, !.deleteds = dels]
  OBVIOUS
<1> HIDE DEF e
<1>7. /\ e.contacts = f.contacts
      /\ e.persons = db.persons \ {person}
      /\ e.favorites = f.favorites
      /\ e.groups = f.groups
      /\ e.relations = f.relations
      /\ e.books = f.books
      /\ e.deleteds = dels
      /\ e.group_deleteds = f.group_deleteds
      /\ e.ver = f.ver
      /\ e.contact_seq = f.contact_seq
      /\ e.group_seq = f.group_seq
      /\ e.book_seq = f.book_seq
      /\ Shape(e)
  BY <1>2, <1>6 DEF Sane, Typed, Shape
<1>8. S \subseteq DOMAIN db.contacts
  BY DEF Members
<1>9. Typed(e, db.ver + 1)
  BY <1>1, <1>2, <1>5, <1>7, <1>8 DEF Sane, Typed, SameRest
<1>10. Consistent(e)
  BY <1>1, <1>2, <1>5, <1>7, <1>8 DEF Sane, Consistent, SameRest
<1>11. Kept(db, e) /\ e.ver = db.ver /\ e.contact_seq = db.contact_seq
  BY <1>2, <1>7 DEF Kept, SameRest
<1>12. Primary(db) => Primary(e)
  BY <1>2, <1>7, PrimaryIs DEF SamePersons, Members
<1> QED
  BY <1>3, <1>9, <1>10, <1>11, <1>12, VersionedLegal, DoesKeeps DEF Sane

\* Favorites are marked on the contacts they name.
LEMMA SetFavoriteKeeps ==
  ASSUME IInv, NEW p \in Procs, NEW person \in PersonsOf(db), SetFavorite(p, person)
  PROVE  IInv'
<1> DEFINE S == Members(db, person)
           Fav(r) == [r EXCEPT !.fav = @ \/ r.person \in S]
           table == [c \in DOMAIN db.contacts |-> Fav(db.contacts[c])]
           e == [db EXCEPT !.favorites = @ \cup S, !.contacts = table]
<1>1. Sane(db, db.ver) /\ Shape(db)
  BY Start
<1>2. Does(p, "favorite", e)
  BY DEF SetFavorite
<1>3. ASSUME NEW r \in ContactUpTo(db.ver)
      PROVE  /\ Fav(r) \in ContactUpTo(db.ver)
             /\ Fav(r).person = r.person /\ Fav(r).book = r.book
  <2> DEFINE b == r.fav \/ r.person \in S
  <2>1. Fav(r) = [r EXCEPT !.fav = b]
    OBVIOUS
  <2>2. b \in BOOLEAN
    OBVIOUS
  <2> HIDE DEF b, Fav
  <2> QED
    BY <2>1, <2>2, RowFavorite
<1>4. \A c \in DOMAIN db.contacts : table[c] = Fav(db.contacts[c])
  OBVIOUS
<1>5. S \subseteq DOMAIN db.contacts
  BY DEF Members
<1>6. DOMAIN table = DOMAIN db.contacts
  OBVIOUS
<1> HIDE DEF Fav, table, S
<1>7. e = [db EXCEPT !.favorites = db.favorites \cup S, !.contacts = table]
  BY <1>1 DEF Shape
<1> HIDE DEF e
<1>8. /\ e.contacts = table
      /\ e.persons = db.persons
      /\ e.favorites = db.favorites \cup S
      /\ e.groups = db.groups
      /\ e.relations = db.relations
      /\ SameRest(db, e)
      /\ Shape(e)
  BY <1>1, <1>7 DEF Shape, SameRest
<1>9. /\ DOMAIN e.contacts = DOMAIN db.contacts
      /\ \A c \in DOMAIN db.contacts :
           /\ e.contacts[c] \in ContactUpTo(db.ver)
           /\ e.contacts[c].person = db.contacts[c].person
           /\ e.contacts[c].book = db.contacts[c].book
  BY <1>1, <1>3, <1>4, <1>6, <1>8 DEF Sane, Typed
<1>10. Typed(e, db.ver)
  BY <1>1, <1>5, <1>8, <1>9 DEF Sane, Typed, SameRest
<1>11. Consistent(e)
  BY <1>1, <1>5, <1>8, <1>9 DEF Sane, Consistent, SameRest
<1>12. /\ Kept(db, e) /\ SamePersons(db, e)
       /\ e.ver = db.ver /\ e.contact_seq = db.contact_seq
  BY <1>8, <1>9 DEF Kept, SamePersons, SameRest
<1>13. Primary(db) => Primary(e)
  BY <1>8, <1>9, <1>12, SamePrimary
<1> QED
  BY <1>2, <1>10, <1>11, <1>12, <1>13, UnversionedLegal, DoesKeeps DEF Sane

\* Favorites are unmarked, of a person or one by one.
LEMMA DeleteFavoritesKeeps ==
  ASSUME IInv, NEW p \in Procs, NEW S, Does(p, "favorite", DeleteFavorites(db, S))
  PROVE  IInv'
<1> DEFINE e == DeleteFavorites(db, S)
<1>1. Sane(db, db.ver)
  BY Start
<1>2. /\ Sane(e, db.ver) /\ Kept(db, e) /\ SamePersons(db, e) /\ SameRest(db, e)
      /\ DOMAIN e.contacts = DOMAIN db.contacts
      /\ e.persons = db.persons
  BY <1>1, DeleteFavoritesSane
<1> HIDE DEF e
<1>3. e.ver = db.ver /\ e.contact_seq = db.contact_seq
  BY <1>2 DEF SameRest
<1>4. Primary(db) => Primary(e)
  BY <1>2, SamePrimary
<1>5. Legal(db, e)
  BY <1>2, <1>3, UnversionedLegal
<1> QED
  BY <1>4, <1>5, DoesKeeps DEF e

\* ... of all contacts of a person.
LEMMA UnsetFavoriteKeeps ==
  ASSUME IInv, NEW p \in Procs, NEW person, UnsetFavorite(p, person)
  PROVE  IInv'
BY DeleteFavoritesKeeps DEF UnsetFavorite

\* ... of a contact.
LEMMA DeleteFavoriteKeeps ==
  ASSUME IInv, NEW p \in Procs, NEW c, DeleteFavorite(p, c)
  PROVE  IInv'
BY DeleteFavoritesKeeps DEF DeleteFavorite

\* A group is inserted.
LEMMA InsertGroupKeeps ==
  ASSUME IInv, NEW p \in Procs, NEW b \in LiveBooks, InsertGroup(p, b)
  PROVE  IInv'
<1> DEFINE g == db.group_seq + 1
           row == [book |-> b, created |-> db.ver + 1, changed |-> db.ver + 1]
           table == With(db.groups, g, row)
           e == [db EXCEPT !.groups = table, !.group_seq = g]
<1>1. /\ Sane(db, db.ver + 1) /\ Shape(db) /\ db.ver \in Nat
      /\ db.group_seq \in 0..MaxGroups
  BY Start
<1>2. db.group_seq < MaxGroups /\ Does(p, "insert_group", Versioned(e))
  <2>1. [db EXCEPT !.groups = With(@, g, row), !.group_seq = g] = e
    BY <1>1 DEF Shape
  <2> QED
    BY <2>1 DEF InsertGroup, Stamp
<1>3. b \in Books
  BY <1>1, Bounds DEF LiveBooks, Internal, Books, Sane, Typed
<1>4. row \in GroupUpTo(db.ver + 1)
  BY <1>1, <1>3 DEF GroupUpTo
<1>5. /\ g \in 1..g /\ g \in 0..MaxGroups /\ g \notin 1..db.group_seq
      /\ 1..db.group_seq \subseteq 1..g
  BY <1>1, <1>2, Bounds
<1>6. /\ DOMAIN table = DOMAIN db.groups \cup {g}
      /\ table[g] = row
      /\ \A x \in DOMAIN db.groups : x # g => table[x] = db.groups[x]
  BY DEF With
<1> HIDE DEF table, row, g
<1>7. e = [db EXCEPT !.groups = table, !.group_seq = g]
  OBVIOUS
<1> HIDE DEF e
<1>8. /\ e.contacts = db.contacts
      /\ e.persons = db.persons
      /\ e.favorites = db.favorites
      /\ e.groups = table
      /\ e.relations = db.relations
      /\ e.books = db.books
      /\ e.deleteds = db.deleteds
      /\ e.group_deleteds = db.group_deleteds
      /\ e.ver = db.ver
      /\ e.contact_seq = db.contact_seq
      /\ e.group_seq = g
      /\ e.book_seq = db.book_seq
      /\ Shape(e)
  BY <1>1, <1>7 DEF Shape
<1>9. Typed(e, db.ver + 1)
  <2>1. DOMAIN e.groups \subseteq 1..g /\ DOMAIN e.group_deleteds \subseteq 1..g
    BY <1>1, <1>5, <1>6, <1>8 DEF Sane, Typed
  <2>2. e.relations \subseteq (1..g) \X (1..e.contact_seq)
    BY <1>1, <1>5, <1>8 DEF Sane, Typed
  <2>3. \A x \in DOMAIN e.groups : e.groups[x] \in GroupUpTo(db.ver + 1)
    BY <1>1, <1>4, <1>6, <1>8 DEF Sane, Typed
  <2> QED
    BY <1>1, <1>5, <1>8, <2>1, <2>2, <2>3 DEF Sane, Typed
<1>10. Consistent(e)
  <2>1. g \notin DOMAIN db.groups
    BY <1>1, <1>5 DEF Sane, Typed
  <2> QED
    BY <1>1, <1>6, <1>8, <2>1 DEF Sane, Consistent
<1>11. Kept(db, e) /\ (Primary(db) => Primary(e))
  BY <1>8 DEF Kept, Primary, PersonsOf, Members
<1> QED
  BY <1>2, <1>8, <1>9, <1>10, <1>11, VersionedLegal, DoesKeeps DEF Sane

\* A group is changed.
LEMMA UpdateGroupKeeps ==
  ASSUME IInv, NEW p \in Procs, NEW g \in DOMAIN db.groups, UpdateGroup(p, g)
  PROVE  IInv'
<1> DEFINE table == [db.groups EXCEPT ![g].changed = db.ver + 1]
           e == [db EXCEPT !.groups = table]
<1>1. Sane(db, db.ver + 1) /\ Shape(db) /\ db.ver \in Nat
  BY Start
<1>2. Does(p, "update_group", Versioned(e))
  <2>1. [db EXCEPT !.groups[g].changed = Stamp(db)] = e
    BY <1>1 DEF Shape, Stamp
  <2> QED
    BY <2>1 DEF UpdateGroup
<1>3. /\ DOMAIN table = DOMAIN db.groups
      /\ \A x \in DOMAIN db.groups :
           table[x] \in GroupUpTo(db.ver + 1) /\ table[x].book = db.groups[x].book
  BY <1>1 DEF Sane, Typed, GroupUpTo
<1> HIDE DEF table
<1>4. /\ e.contacts = db.contacts
      /\ e.persons = db.persons
      /\ e.favorites = db.favorites
      /\ e.groups = table
      /\ e.relations = db.relations
      /\ SameRest(db, e)
      /\ Shape(e)
  BY <1>1 DEF Shape, SameRest
<1> HIDE DEF e
<1>5. Typed(e, db.ver + 1)
  BY <1>1, <1>3, <1>4 DEF Sane, Typed, SameRest
<1>6. Consistent(e)
  BY <1>1, <1>3, <1>4 DEF Sane, Consistent, SameRest, Typed
<1>7. /\ Kept(db, e) /\ e.ver = db.ver /\ e.contact_seq = db.contact_seq
      /\ Primary(db) => Primary(e)
  BY <1>4 DEF Kept, Primary, PersonsOf, Members, SameRest
<1> QED
  BY <1>2, <1>5, <1>6, <1>7, VersionedLegal, DoesKeeps DEF Sane

\* A group and its relations are deleted.
LEMMA DeleteGroupKeeps ==
  ASSUME IInv, NEW p \in Procs, NEW g \in DOMAIN db.groups, DeleteGroup(p, g)
  PROVE  IInv'
<1> DEFINE f == DeleteGroups(db, {g})
           e == GroupRecorded(f, g)
<1>1. Sane(db, db.ver + 1)
  BY Start
<1>2. /\ Sane(f, db.ver + 1) /\ SameRest(db, f)
      /\ f.contacts = db.contacts
      /\ f.persons = db.persons
  BY <1>1, DeleteGroupsSane
<1>3. f.ver = db.ver /\ g \in 1..f.group_seq
  BY <1>1, <1>2 DEF SameRest, Sane, Typed
<1>4. Does(p, "delete_group", Versioned(e))
  BY DEF DeleteGroup
<1> HIDE DEF f
<1>5. /\ Sane(e, db.ver + 1) /\ e.contacts = db.contacts /\ e.persons = db.persons
      /\ e.ver = db.ver /\ e.contact_seq = db.contact_seq
  BY <1>2, <1>3, GroupRecordedSane DEF SameRest
<1> HIDE DEF e
<1>6. Kept(db, e) /\ (Primary(db) => Primary(e))
  BY <1>5 DEF Kept, Primary, PersonsOf, Members
<1> QED
  BY <1>4, <1>5, <1>6, VersionedLegal, DoesKeeps

\* A group is deleted with the contacts that are in no other, and the persons
\* that lost their primary contact get another one.
LEMMA DeleteGroupWithMembersKeeps ==
  ASSUME IInv, NEW p \in Procs, NEW g \in DOMAIN db.groups, DeleteGroupWithMembers(p, g)
  PROVE  IInv'
<1> DEFINE S == {c \in ContactIds : {r \in db.relations : r[2] = c} = {<<g, c>>}}
           d1 == DeleteContacts(db, S)
           d2 == Collected(d1)
           d3 == DeleteGroups(d2, {g})
           e == GroupRecorded(d3, g)
<1>1. Sane(db, db.ver + 1) /\ g \in 1..db.group_seq
  BY Start DEF Sane, Typed
<1>2. Does(p, "delete_group_with_members", Versioned(e))
  BY DEF DeleteGroupWithMembers
<1> HIDE DEF S
<1>3. /\ Sane(d1, db.ver + 1) /\ Kept(db, d1) /\ SamePersons(db, d1) /\ SameRest(db, d1)
      /\ d1.persons = db.persons
  BY <1>1, DeleteContactsSane
<1> HIDE DEF d1
<1>4. /\ Sane(d2, db.ver + 1) /\ Kept(d1, d2) /\ SameRest(d1, d2)
      /\ PersonsOf(d1) \subseteq d1.persons => Primary(d2)
  BY <1>3, CollectedSane
<1> HIDE DEF d2
<1>5. /\ Sane(d3, db.ver + 1) /\ SameRest(d2, d3)
      /\ d3.contacts = d2.contacts
      /\ d3.persons = d2.persons
  BY <1>4, DeleteGroupsSane
<1> HIDE DEF d3
<1>6. d3.ver = db.ver /\ g \in 1..d3.group_seq /\ d3.contact_seq = db.contact_seq
  BY <1>1, <1>3, <1>4, <1>5 DEF SameRest
<1>7. /\ Sane(e, db.ver + 1) /\ e.contacts = d2.contacts /\ e.persons = d2.persons
      /\ e.ver = db.ver /\ e.contact_seq = db.contact_seq
  BY <1>5, <1>6, GroupRecordedSane
<1> HIDE DEF e
<1>8. Kept(db, e)
  BY <1>3, <1>4, <1>7 DEF Kept
<1>9. Primary(db) => Primary(e)
  <2> SUFFICES ASSUME Primary(db)
               PROVE  Primary(e)
    OBVIOUS
  <2>1. PersonsOf(d1) \subseteq d1.persons
    BY <1>3 DEF Primary, PersonsOf, SamePersons, Kept
  <2> QED
    BY <1>4, <1>7, <2>1 DEF Primary, PersonsOf, Members
<1> QED
  BY <1>2, <1>7, <1>8, <1>9, VersionedLegal, DoesKeeps

\* A contact leaves a group.
LEMMA UnsetRelationKeeps ==
  ASSUME IInv, NEW p \in Procs, NEW g, NEW c, UnsetRelation(p, g, c)
  PROVE  IInv'
<1> DEFINE S == {<<g, c>>}
           f == [db EXCEPT !.relations = @ \ S]
           e == Touched(f, c)
<1>1. Sane(db, db.ver + 1)
  BY Start
<1>2. Does(p, "unset_relation", Versioned(e))
  BY DEF UnsetRelation
<1> HIDE DEF S
<1>3. /\ Sane(f, db.ver + 1) /\ SameRest(db, f)
      /\ f.contacts = db.contacts
      /\ f.persons = db.persons
  BY <1>1, UnrelatedSane
<1> HIDE DEF f
<1>4. f.ver = db.ver
  BY <1>3 DEF SameRest
<1>5. /\ Sane(e, db.ver + 1) /\ Kept(f, e) /\ SamePersons(f, e) /\ SameRest(f, e)
      /\ DOMAIN e.contacts = DOMAIN f.contacts
      /\ e.persons = f.persons
  BY <1>3, <1>4, TouchedSane
<1> HIDE DEF e
<1>6. Kept(db, e) /\ SamePersons(db, e) /\ e.ver = db.ver /\ e.contact_seq = db.contact_seq
  BY <1>3, <1>5 DEF Kept, SamePersons, SameRest
<1>7. Primary(db) => Primary(e)
  BY <1>3, <1>5, <1>6, SamePrimary
<1> QED
  BY <1>2, <1>5, <1>6, <1>7, VersionedLegal, DoesKeeps

\* An address book is inserted.
LEMMA InsertAddressbookKeeps ==
  ASSUME IInv, NEW p \in Procs, InsertAddressbook(p)
  PROVE  IInv'
<1> DEFINE b == db.book_seq + 1
           e == [db EXCEPT !.book_seq = b, !.books = db.books \cup {b}]
<1>1. /\ Sane(db, db.ver) /\ Shape(db) /\ db.book_seq \in 0..MaxBooks
  BY Start
<1>2. db.book_seq < MaxBooks /\ Does(p, "insert_addressbook", e)
  <2>1. [db EXCEPT !.book_seq = @ + 1, !.books = @ \cup {db.book_seq + 1}] = e
    BY <1>1 DEF Shape
  <2> QED
    BY <2>1 DEF InsertAddressbook
<1>3. b \in 1..b /\ b \in 0..MaxBooks /\ 1..db.book_seq \subseteq 1..b
  BY <1>1, <1>2, Bounds
<1> HIDE DEF b
<1>4. e = [db EXCEPT !.book_seq = b, !.books = db.books \cup {b}]
  OBVIOUS
<1> HIDE DEF e
<1>5. /\ e.contacts = db.contacts
      /\ e.persons = db.persons
      /\ e.favorites = db.favorites
      /\ e.groups = db.groups
      /\ e.relations = db.relations
      /\ e.books = db.books \cup {b}
      /\ e.deleteds = db.deleteds
      /\ e.group_deleteds = db.group_deleteds
      /\ e.ver = db.ver
      /\ e.contact_seq = db.contact_seq
      /\ e.group_seq = db.group_seq
      /\ e.book_seq = b
      /\ Shape(e)
  BY <1>1, <1>4 DEF Shape
<1>6. Typed(e, db.ver)
  BY <1>1, <1>3, <1>5 DEF Sane, Typed
<1>7. Consistent(e)
  BY <1>1, <1>5 DEF Sane, Consistent
<1>8. Kept(db, e) /\ (Primary(db) => Primary(e))
  BY <1>5 DEF Kept, Primary, PersonsOf, Members
<1> QED
  BY <1>2, <1>5, <1>6, <1>7, <1>8, UnversionedLegal, DoesKeeps DEF Sane

\* The internal address book is emptied.  This one leaves persons without
\* their primary contact.
LEMMA ResetInternalKeeps ==
  ASSUME IInv, NEW p \in Procs, ResetInternal(p)
  PROVE  IInv'
<1> DEFINE contacts == BookOf(db, Internal)
           groups == {g \in DOMAIN db.groups : db.groups[g].book = Internal}
           f == DeleteContacts(db, contacts)
           e == DeleteGroups(f, groups)
<1>1. Sane(db, db.ver)
  BY Start
<1>2. Does(p, "reset_internal", e)
  BY DEF ResetInternal
<1> HIDE DEF contacts, groups
<1>3. /\ Sane(f, db.ver) /\ Kept(db, f) /\ SameRest(db, f)
  BY <1>1, DeleteContactsSane
<1> HIDE DEF f
<1>4. /\ Sane(e, db.ver) /\ SameRest(f, e) /\ e.contacts = f.contacts
  BY <1>3, DeleteGroupsSane
<1> HIDE DEF e
<1>5. Kept(db, e) /\ e.ver = db.ver /\ e.contact_seq = db.contact_seq
  BY <1>3, <1>4 DEF Kept, SameRest
<1> QED
  BY <1>2, <1>4, <1>5, UnversionedLegal, DoesKeeps

\* An address book is deleted with all that is in it.
LEMMA AddressbookDeletedSane ==
  ASSUME NEW d, NEW v, Sane(d, v), NEW b, NEW e, e = AddressbookDeleted(d, b)
  PROVE  /\ Sane(e, v) /\ Kept(d, e) /\ SamePersons(d, e)
         /\ e.persons = d.persons
         /\ e.ver = d.ver
         /\ e.contact_seq = d.contact_seq
<1> DEFINE groups == {g \in DOMAIN d.groups : d.groups[g].book = b}
           contacts == BookOf(d, b)
           d1 == DeleteGroups(d, groups)
           d2 == DeleteContacts(d1, contacts)
           dels == Without(d.deleteds, {c \in DOMAIN d.deleteds : d.deleteds[c].book = b})
           gdels == Without(d.group_deleteds,
                      {g \in DOMAIN d.group_deleteds : d.group_deleteds[g].book = b})
<1> HIDE DEF groups, contacts
<1>1. /\ Sane(d1, v) /\ SameRest(d, d1)
      /\ d1.contacts = d.contacts
      /\ d1.persons = d.persons
  BY DeleteGroupsSane
<1> HIDE DEF d1
<1>2. /\ Sane(d2, v) /\ Kept(d1, d2) /\ SamePersons(d1, d2) /\ SameRest(d1, d2)
      /\ d2.persons = d1.persons
  BY <1>1, DeleteContactsSane
<1> HIDE DEF d2
<1>3. e = [d2 EXCEPT !.books = d.books \ {b}, !.deleteds = dels, !.group_deleteds = gdels]
  <2>1. e = [d2 EXCEPT
               !.books = @ \ {b},
               !.deleteds = Without(@, {c \in DOMAIN @ : @[c].book = b}),
               !.group_deleteds = Without(@, {g \in DOMAIN @ : @[g].book = b})]
    BY DEF AddressbookDeleted, d2, d1, groups, contacts
  <2>2. d2.books = d.books /\ d2.deleteds = d.deleteds /\ d2.group_deleteds = d.group_deleteds
    BY <1>1, <1>2 DEF SameRest
  <2> QED
    BY <1>2, <2>1, <2>2 DEF Sane, Typed, Shape
<1>4. /\ DOMAIN dels \subseteq DOMAIN d.deleteds
      /\ \A c \in DOMAIN dels : dels[c] = d.deleteds[c]
      /\ DOMAIN gdels \subseteq DOMAIN d.group_deleteds
      /\ \A g \in DOMAIN gdels : gdels[g] = d.group_deleteds[g]
  BY DEF Without
<1> HIDE DEF dels, gdels
<1>5. /\ e.contacts = d2.contacts
      /\ e.persons = d2.persons
      /\ e.favorites = d2.favorites
      /\ e.groups = d2.groups
      /\ e.relations = d2.relations
      /\ e.books = d.books \ {b}
      /\ e.deleteds = dels
      /\ e.group_deleteds = gdels
      /\ e.ver = d2.ver
      /\ e.contact_seq = d2.contact_seq
      /\ e.group_seq = d2.group_seq
      /\ e.book_seq = d2.book_seq
      /\ Shape(e)
  BY <1>2, <1>3 DEF Sane, Typed, Shape
<1>6. Typed(e, v)
  BY <1>1, <1>2, <1>4, <1>5 DEF Sane, Typed, SameRest
<1>7. Consistent(e)
  BY <1>1, <1>2, <1>4, <1>5 DEF Sane, Consistent, SameRest
<1> QED
  BY <1>1, <1>2, <1>5, <1>6, <1>7 DEF Sane, Kept, SamePersons, SameRest

\* ... and the persons left without a primary contact get another one.
LEMMA DeleteAddressbookKeeps ==
  ASSUME IInv, NEW p \in Procs, NEW b, DeleteAddressbook(p, b)
  PROVE  IInv'
<1> DEFINE f == AddressbookDeleted(db, b)
           e == Collected(f)
<1>1. Sane(db, db.ver)
  BY Start
<1>2. Does(p, "delete_addressbook", e)
  BY DEF DeleteAddressbook
<1>3. /\ Sane(f, db.ver) /\ Kept(db, f) /\ SamePersons(db, f)
      /\ f.persons = db.persons /\ f.ver = db.ver /\ f.contact_seq = db.contact_seq
  BY <1>1, AddressbookDeletedSane
<1> HIDE DEF f
<1>4. /\ Sane(e, db.ver) /\ Kept(f, e) /\ SameRest(f, e)
      /\ PersonsOf(f) \subseteq f.persons => Primary(e)
  BY <1>3, CollectedSane
<1> HIDE DEF e
<1>5. Kept(db, e) /\ e.ver = db.ver /\ e.contact_seq = db.contact_seq
  BY <1>3, <1>4 DEF Kept, SameRest
<1>6. Primary(db) => PersonsOf(f) \subseteq f.persons
  BY <1>3 DEF Primary, PersonsOf, SamePersons, Kept
<1> QED
  BY <1>2, <1>4, <1>5, <1>6, UnversionedLegal, DoesKeeps

-----------------------------------------------------------------------------
(* The calls of two steps. *)

\* A pending call is about a contact that has been given out.
LEMMA Pending ==
  ASSUME IInv, NEW p \in Procs, pending[p] # None
  PROVE  /\ pending[p].contact \in 1..db.contact_seq
         /\ pending[p].contact \in ContactIds
         /\ pending[p].name # "unlink" =>
              /\ pending[p].book \in Books
              /\ pending[p].contact \in DOMAIN db.contacts =>
                   db.contacts[pending[p].contact].book = pending[p].book
<1>1. db.contact_seq \in 0..MaxContacts
  BY Start
<1> QED
  BY <1>1, Bounds DEF IInv, PendingOK, ContactIds

\* A transaction that fails leaves the database alone.
LEMMA FailedKeeps ==
  ASSUME IInv, NEW p \in Procs, Ends(p, db)
  PROVE  IInv'
<1>1. Sane(db, db.ver) /\ Kept(db, db)
  BY Start DEF Kept
<1> QED
  BY <1>1, UnversionedLegal, EndsKeeps

\* A contact becomes a person of its own.
LEMMA RunUnlinkKeeps ==
  ASSUME IInv, NEW p \in Procs, RunUnlink(p)
  PROVE  IInv'
<1> DEFINE c == pending[p].contact
           table == [x \in DOMAIN db.contacts |->
                       IF x = c THEN [db.contacts[x] EXCEPT !.person = c] ELSE db.contacts[x]]
           e == [db EXCEPT !.persons = db.persons \cup {c}, !.contacts = table]
<1>1. Sane(db, db.ver) /\ Shape(db)
  BY Start
<1>2. c \in ContactIds
  BY Pending DEF RunUnlink, Is
<1>3. CASE pending[p].person = c \/ c \in db.persons
  BY <1>3, FailedKeeps DEF RunUnlink
<1>4. CASE c \notin db.persons /\ pending[p].person # c
  <2>1. Ends(p, e)
    <3>1. [db EXCEPT !.persons = @ \cup {c},
                     !.contacts = [x \in DOMAIN @ |->
                        IF x = c THEN [@[x] EXCEPT !.person = c] ELSE @[x]]] = e
      BY <1>1 DEF Shape
    <3> QED
      BY <1>4, <3>1 DEF RunUnlink
  <2>2. /\ DOMAIN table = DOMAIN db.contacts
        /\ \A x \in DOMAIN db.contacts :
             /\ table[x] \in ContactUpTo(db.ver)
             /\ table[x].book = db.contacts[x].book
             /\ table[x].person = IF x = c THEN c ELSE db.contacts[x].person
    BY <1>1, <1>2 DEF Sane, Typed, ContactUpTo
  <2> HIDE DEF table, c
  <2>3. e = [db EXCEPT !.persons = db.persons \cup {c}, !.contacts = table]
    OBVIOUS
  <2> HIDE DEF e
  <2>4. /\ e.contacts = table
        /\ e.persons = db.persons \cup {c}
        /\ e.favorites = db.favorites
        /\ e.groups = db.groups
        /\ e.relations = db.relations
        /\ SameRest(db, e)
        /\ Shape(e)
    BY <1>1, <2>3 DEF Shape, SameRest
  <2>5. Typed(e, db.ver)
    BY <1>1, <1>2, <2>2, <2>4 DEF Sane, Typed, SameRest
  <2>6. Consistent(e)
    BY <1>1, <2>2, <2>4 DEF Sane, Consistent, SameRest
  <2>7. Kept(db, e) /\ e.ver = db.ver /\ e.contact_seq = db.contact_seq
    BY <2>2, <2>4 DEF Kept, SameRest
  <2>8. Primary(db) => Primary(e)
    BY <1>4, <2>2, <2>4, PrimaryIs
  <2> QED
    BY <2>1, <2>5, <2>6, <2>7, <2>8, UnversionedLegal, EndsKeeps DEF Sane
<1> QED
  BY <1>3, <1>4

\* A relation is added to a group of the contact's address book, and the
\* contact is stamped.
LEMMA RelatedTouchedKeeps ==
  ASSUME IInv, NEW p \in Procs, NEW g, pending[p] # None, pending[p].name # "unlink",
         Relates(db, g, pending[p].book), NEW c, c = pending[p].contact,
         Ends(p, Versioned(Touched(Related(db, g, c), c)))
  PROVE  IInv'
<1> DEFINE f == Related(db, g, c)
           e == Touched(f, c)
<1>1. Sane(db, db.ver + 1)
  BY Start
<1>2. /\ g \in DOMAIN db.groups /\ c \in 1..db.contact_seq
      /\ c \in DOMAIN db.contacts => db.groups[g].book = db.contacts[c].book
  BY Pending DEF Relates
<1>3. /\ Sane(f, db.ver + 1) /\ SameRest(db, f)
      /\ f.contacts = db.contacts
      /\ f.persons = db.persons
  BY <1>1, <1>2, RelatedSane
<1> HIDE DEF f
<1>4. f.ver = db.ver
  BY <1>3 DEF SameRest
<1>5. /\ Sane(e, db.ver + 1) /\ Kept(f, e) /\ SamePersons(f, e) /\ SameRest(f, e)
      /\ DOMAIN e.contacts = DOMAIN f.contacts
      /\ e.persons = f.persons
  BY <1>3, <1>4, TouchedSane
<1>6. Kept(db, e) /\ SamePersons(db, e) /\ e.ver = db.ver /\ e.contact_seq = db.contact_seq
  BY <1>3, <1>5 DEF Kept, SamePersons, SameRest
<1>7. Primary(db) => Primary(e)
  BY <1>3, <1>5, <1>6, SamePrimary
<1>8. Legal(db, Versioned(e)) /\ (Primary(e) => Primary(Versioned(e)))
  BY <1>5, <1>6, VersionedLegal
<1> QED
  BY <1>7, <1>8, EndsKeeps DEF e, f

\* A contact joins a group.
LEMMA RunSetRelationKeeps ==
  ASSUME IInv, NEW p \in Procs, RunSetRelation(p)
  PROVE  IInv'
<1>1. Is(p, "relate") /\ pending[p] # None /\ pending[p].name # "unlink"
  BY DEF RunSetRelation, Is
<1>2. CASE ~Relates(db, pending[p].group, pending[p].book)
  BY <1>2, FailedKeeps DEF RunSetRelation
<1>3. CASE Relates(db, pending[p].group, pending[p].book)
  BY <1>1, <1>3, RelatedTouchedKeeps DEF RunSetRelation
<1> QED
  BY <1>2, <1>3

\* A contact is changed, and joins or leaves a group.
LEMMA RunUpdateKeeps ==
  ASSUME IInv, NEW p \in Procs, RunUpdate(p)
  PROVE  IInv'
<1> DEFINE c == pending[p].contact
           g == pending[p].group
           sets == pending[p].sets
<1>1. pending[p] # None /\ pending[p].name # "unlink"
  BY DEF RunUpdate, Is
<1>2. CASE g # None /\ sets /\ ~Relates(db, g, pending[p].book)
  BY <1>2, FailedKeeps DEF RunUpdate
<1>3. CASE g # None /\ sets /\ Relates(db, g, pending[p].book)
  <2>1. Ends(p, Versioned(Touched(Related(db, g, c), c)))
    BY <1>3 DEF RunUpdate
  <2> QED
    BY <1>1, <1>3, <2>1, RelatedTouchedKeeps
<1>4. CASE g = None \/ ~sets
  <2> DEFINE S == IF g = None THEN {} ELSE {<<g, c>>}
             f == [db EXCEPT !.relations = db.relations \ S]
             e == Touched(f, c)
  <2>1. Sane(db, db.ver + 1) /\ Shape(db)
    BY Start
  <2>2. Ends(p, Versioned(e))
    <3>1. CASE g = None
      <4>1. f = db
        BY <2>1, <3>1 DEF Shape
      <4>2. Ends(p, Versioned(Touched(db, c)))
        BY <3>1 DEF RunUpdate
      <4> QED
        BY <4>1, <4>2
    <3>2. CASE g # None
      <4>1. f = [db EXCEPT !.relations = @ \ {<<g, c>>}]
        BY <2>1, <3>2 DEF Shape
      <4>2. Ends(p, Versioned(Touched([db EXCEPT !.relations = @ \ {<<g, c>>}], c)))
        BY <1>4, <3>2 DEF RunUpdate
      <4> QED
        BY <4>1, <4>2
    <3> QED
      BY <3>1, <3>2
  <2> HIDE DEF S, c
  <2>3. /\ Sane(f, db.ver + 1) /\ SameRest(db, f)
        /\ f.contacts = db.contacts
        /\ f.persons = db.persons
    <3>1. f = [db EXCEPT !.relations = @ \ S]
      BY <2>1 DEF Shape
    <3> QED
      BY <2>1, <3>1, UnrelatedSane
  <2> HIDE DEF f
  <2>4. f.ver = db.ver
    BY <2>3 DEF SameRest
  <2>5. /\ Sane(e, db.ver + 1) /\ Kept(f, e) /\ SamePersons(f, e) /\ SameRest(f, e)
        /\ DOMAIN e.contacts = DOMAIN f.contacts
        /\ e.persons = f.persons
    BY <2>3, <2>4, TouchedSane
  <2> HIDE DEF e
  <2>6. Kept(db, e) /\ SamePersons(db, e) /\ e.ver = db.ver /\ e.contact_seq = db.contact_seq
    BY <2>3, <2>5 DEF Kept, SamePersons, SameRest
  <2>7. Primary(db) => Primary(e)
    BY <2>3, <2>5, <2>6, SamePrimary
  <2> QED
    BY <2>2, <2>5, <2>6, <2>7, VersionedLegal, EndsKeeps
<1> QED
  BY <1>2, <1>3, <1>4

\* The person of a contact's id goes to the heir, or is gone when nobody is
\* linked to the contact: then the other contacts have primary ones, and none
\* of them is this contact.
LEMMA UnlinkedSane ==
  ASSUME NEW d, NEW v, Sane(d, v),
         NEW c \in ContactIds, NEW heir,
         Cardinality(Members(d, c)) > 1 => heir \in Members(d, c) \ {c},
         NEW e, e = Unlinked(d, c, heir)
  PROVE  /\ Sane(e, v) /\ Kept(d, e) /\ SameRest(d, e)
         /\ DOMAIN e.contacts = DOMAIN d.contacts
         /\ Primary(d) =>
              \A x \in DOMAIN d.contacts \ {c} :
                /\ e.contacts[x].person \in e.persons
                /\ e.contacts[x].person \in DOMAIN d.contacts \ {c}
                /\ e.contacts[e.contacts[x].person].person = e.contacts[x].person
<1> DEFINE S == Members(d, c)
<1>1. IsFiniteSet(S) /\ Cardinality(S) \in Nat
  <2>1. IsFiniteSet(1..d.contact_seq)
    <3>1. 1 \in Int /\ d.contact_seq \in Int
      BY Bounds DEF Sane, Typed
    <3> QED
      BY <3>1, FS_Interval
  <2>2. S \subseteq 1..d.contact_seq
    BY DEF Members, Sane, Typed
  <2>3. IsFiniteSet(S)
    BY <2>1, <2>2, FS_Subset
  <2> QED
    BY <2>3, FS_CardinalityType
<1>2. Primary(d) => \A x \in DOMAIN d.contacts :
        /\ d.contacts[x].person \in d.persons
        /\ d.contacts[x].person \in DOMAIN d.contacts
        /\ d.contacts[d.contacts[x].person].person = d.contacts[x].person
  BY PrimaryIs
<1>3. CASE Cardinality(S) = 0
  <2>1. S = {}
    BY <1>1, <1>3, FS_EmptySet
  <2>2. e = d
    BY <1>3 DEF Unlinked
  <2>3. \A x \in DOMAIN d.contacts : d.contacts[x].person # c
    BY <2>1 DEF Members
  <2> QED
    BY <1>2, <2>2, <2>3 DEF Kept, SameRest
<1>4. CASE Cardinality(S) = 1
  <2>1. PICK y : S = {y}
    BY <1>1, <1>4, FS_Singleton
  <2>2. e = [d EXCEPT !.persons = d.persons \ {c}]
    BY <1>4 DEF Unlinked, Sane, Typed, Shape
  <2>3. /\ e.contacts = d.contacts
        /\ e.persons = d.persons \ {c}
        /\ e.favorites = d.favorites
        /\ e.groups = d.groups
        /\ e.relations = d.relations
        /\ SameRest(d, e)
        /\ Shape(e)
    BY <2>2 DEF Sane, Typed, Shape, SameRest
  <2>4. Sane(e, v)
    BY <2>3 DEF Sane, Typed, Consistent, SameRest
  <2>5. ASSUME Primary(d), NEW x \in DOMAIN d.contacts \ {c}
        PROVE  d.contacts[x].person # c
    <3> SUFFICES ASSUME d.contacts[x].person = c
                 PROVE  FALSE
      OBVIOUS
    <3>1. x \in S /\ c \in S
      BY <1>2, <2>5 DEF Members
    <3> QED
      BY <2>1, <3>1
  <2> QED
    BY <1>2, <2>3, <2>4, <2>5 DEF Kept
<1>5. CASE Cardinality(S) # 0 /\ Cardinality(S) # 1
  <2> DEFINE to == [x \in {c} |-> heir]
  <2>1. heir \in S /\ heir # c
    BY <1>1, <1>5
  <2>2. e = MovePersons(d, to)
    BY <1>5 DEF Unlinked
  <2>3. DOMAIN to = {c} /\ to[c] = heir /\ heir \in ContactIds
    BY <2>1, Bounds DEF Members, Sane, Typed, ContactIds
  <2> HIDE DEF to
  <2>4. /\ Sane(e, v) /\ Kept(d, e) /\ SameRest(d, e)
        /\ DOMAIN e.contacts = DOMAIN d.contacts
        /\ \A x \in DOMAIN d.contacts :
             e.contacts[x].person = IF d.contacts[x].person = c
                                    THEN heir ELSE d.contacts[x].person
        /\ e.persons = (d.persons \ {c}) \cup {to[p] : p \in {c} \cap d.persons}
    BY <2>2, <2>3, MovePersonsSane
  <2>5. ASSUME Primary(d), NEW x \in DOMAIN d.contacts \ {c}
        PROVE  /\ e.contacts[x].person \in e.persons
               /\ e.contacts[x].person \in DOMAIN d.contacts \ {c}
               /\ e.contacts[e.contacts[x].person].person = e.contacts[x].person
    <3>1. CASE d.contacts[x].person = c
      <4>1. e.contacts[x].person = heir /\ heir \in DOMAIN d.contacts \ {c}
        BY <2>1, <2>4, <3>1 DEF Members
      <4>2. e.contacts[heir].person = heir
        BY <2>1, <2>4 DEF Members
      <4>3. heir \in e.persons
        BY <1>2, <2>3, <2>4, <2>5, <3>1
      <4> QED
        BY <4>1, <4>2, <4>3
    <3>2. CASE d.contacts[x].person # c
      BY <1>2, <2>4, <2>5, <3>2
    <3> QED
      BY <3>1, <3>2
  <2> QED
    BY <2>4, <2>5
<1> QED
  BY <1>3, <1>4, <1>5

\* A contact is deleted and recorded with the address book it was read with.
LEMMA RunDeleteKeeps ==
  ASSUME IInv, NEW p \in Procs, NEW heir, RunDelete(p, heir)
  PROVE  IInv'
<1> DEFINE c == pending[p].contact
           many == Cardinality(Members(db, c)) > 1
           fails == c \in DOMAIN db.deleteds \/ (many /\ heir \in db.persons \cup {None})
           d1 == Unlinked(db, c, heir)
           d2 == DeleteContacts(d1, {c})
           row == [book |-> pending[p].book, ver |-> db.ver + 1]
           dels == With(db.deleteds, c, row)
           e == [d2 EXCEPT !.deleteds = dels]
<1>1. Sane(db, db.ver + 1) /\ Shape(db) /\ db.ver \in Nat
  BY Start
<1>2. pending[p] # None /\ pending[p].name # "unlink"
  BY DEF RunDelete, Is
<1>3. /\ c \in ContactIds /\ c \in 1..db.contact_seq
      /\ row \in [book : Books, ver : 1..(db.ver + 1)]
  BY <1>1, <1>2, Pending
<1>4. CASE fails
  BY <1>4, FailedKeeps DEF RunDelete
<1>5. CASE ~fails
  <2>1. many => heir \in Members(db, c) \ {c}
    BY <1>5 DEF RunDelete
  <2>2. Ends(p, Versioned([d2 EXCEPT !.deleteds = With(@, c, row)]))
    BY <1>5 DEF RunDelete, Stamp
  <2>3. /\ Sane(d1, db.ver + 1) /\ Kept(db, d1) /\ SameRest(db, d1)
        /\ DOMAIN d1.contacts = DOMAIN db.contacts
        /\ Primary(db) =>
             \A x \in DOMAIN db.contacts \ {c} :
               /\ d1.contacts[x].person \in d1.persons
               /\ d1.contacts[x].person \in DOMAIN db.contacts \ {c}
               /\ d1.contacts[d1.contacts[x].person].person = d1.contacts[x].person
    BY <1>1, <1>3, <2>1, UnlinkedSane
  <2> HIDE DEF d1
  <2>4. /\ Sane(d2, db.ver + 1) /\ Kept(d1, d2) /\ SamePersons(d1, d2) /\ SameRest(d1, d2)
        /\ DOMAIN d2.contacts = DOMAIN db.contacts \ {c}
        /\ d2.persons = d1.persons
    BY <2>3, DeleteContactsSane
  <2> HIDE DEF d2, row, c
  <2>5. /\ DOMAIN dels = DOMAIN db.deleteds \cup {c}
        /\ \A x \in DOMAIN dels : dels[x] \in [book : Books, ver : 1..(db.ver + 1)]
    BY <1>1, <1>3 DEF With, Sane, Typed
  <2>6. Ends(p, Versioned(e))
    <3>1. [d2 EXCEPT !.deleteds = With(@, c, row)] = e
      BY <2>3, <2>4 DEF SameRest, Sane, Typed, Shape
    <3> QED
      BY <2>2, <3>1
  <2> HIDE DEF dels
  <2>7. e = [d2 EXCEPT !.deleteds = dels]
    OBVIOUS
  <2> HIDE DEF e
  <2>8. /\ e.contacts = d2.contacts
        /\ e.persons = d2.persons
        /\ e.favorites = d2.favorites
        /\ e.groups = d2.groups
        /\ e.relations = d2.relations
        /\ e.books = d2.books
        /\ e.deleteds = dels
        /\ e.group_deleteds = d2.group_deleteds
        /\ e.ver = d2.ver
        /\ e.contact_seq = d2.contact_seq
        /\ e.group_seq = d2.group_seq
        /\ e.book_seq = d2.book_seq
        /\ Shape(e)
    BY <2>4, <2>7 DEF Sane, Typed, Shape
  <2>9. Typed(e, db.ver + 1)
    BY <1>1, <1>3, <2>3, <2>4, <2>5, <2>8 DEF Sane, Typed, SameRest
  <2>10. Consistent(e)
    BY <1>1, <2>3, <2>4, <2>5, <2>8 DEF Sane, Consistent, SameRest
  <2>11. Kept(db, e) /\ e.ver = db.ver /\ e.contact_seq = db.contact_seq
    BY <2>3, <2>4, <2>8 DEF Kept, SameRest
  <2>12. Primary(db) => Primary(e)
    BY <2>3, <2>4, <2>8, PrimaryIs, SMTT(60) DEF SamePersons
  <2> QED
    BY <2>6, <2>9, <2>10, <2>11, <2>12, VersionedLegal, EndsKeeps DEF Sane
<1> QED
  BY <1>4, <1>5

\* The first steps of the calls of two: they remember what they read.
LEMMA ReadsKeep ==
  ASSUME IInv, NEW p \in Procs, NEW c \in DOMAIN db.contacts, NEW g,
         \/ ReadDelete(p, c)
         \/ \E person : ReadUnlink(p, person, c)
         \/ \E sets : ReadUpdate(p, c, g, sets)
         \/ ReadSetRelation(p, g, c)
  PROVE  IInv'
<1>1. CASE ReadDelete(p, c)
  BY <1>1, ReadsKeeps DEF ReadDelete
<1>2. CASE \E person : ReadUnlink(p, person, c)
  BY <1>2, ReadsKeeps DEF ReadUnlink
<1>3. CASE \E sets : ReadUpdate(p, c, g, sets)
  BY <1>3, ReadsKeeps DEF ReadUpdate
<1>4. CASE ReadSetRelation(p, g, c)
  BY <1>4, ReadsKeeps DEF ReadSetRelation
<1> QED
  BY <1>1, <1>2, <1>3, <1>4

\* The synchronising program changes nothing in the database.
LEMMA SyncKeeps ==
  ASSUME IInv, Sync
  PROVE  IInv'
<1>1. db' = db /\ pending' = pending /\ seen' = db.ver
  BY DEF Sync
<1>2. db.ver \in 0..db.ver
  BY Start
<1> QED
  BY <1>1, <1>2 DEF IInv, PendingOK

\* A step of something else.
LEMMA StutterKeeps ==
  ASSUME IInv, UNCHANGED vars
  PROVE  IInv'
BY DEF IInv, PendingOK, vars

\* The empty database.
LEMMA InitIInv ==
  ASSUME Init
  PROVE  IInv
<1>1. /\ db = EmptyDb /\ pending = [p \in Procs |-> None] /\ seen = 0
  BY DEF Init
<1>2. /\ DOMAIN db.contacts = {} /\ DOMAIN db.groups = {}
      /\ DOMAIN db.deleteds = {} /\ DOMAIN db.group_deleteds = {}
      /\ db.persons = {} /\ db.favorites = {} /\ db.relations = {} /\ db.books = {}
      /\ db.ver = 0 /\ db.contact_seq = 0 /\ db.group_seq = 0 /\ db.book_seq = 0
      /\ Shape(db)
  BY <1>1 DEF EmptyDb, Shape
<1>3. Sane(db, db.ver)
  BY <1>2, Bounds DEF Sane, Typed, Consistent
<1>4. Primary(db)
  BY <1>2, PrimaryIs
<1>5. PendingOK
  BY <1>1 DEF PendingOK
<1> QED
  BY <1>1, <1>2, <1>3, <1>4, <1>5, Bounds DEF IInv

\* Every step keeps the invariant.
LEMMA NextIInv ==
  ASSUME IInv, [Next]_vars
  PROVE  IInv'
<1>1. CASE UNCHANGED vars
  BY <1>1, StutterKeeps
<1>2. CASE Sync
  BY <1>2, SyncKeeps
<1>3. ASSUME NEW p \in Procs, ContactCalls(p)
      PROVE  IInv'
  BY <1>3, InsertContactKeeps, ReadsKeep DEF ContactCalls
<1>4. ASSUME NEW p \in Procs, PersonCalls(p)
      PROVE  IInv'
  <2>1. CASE \E base, sub \in PersonsOf(db) : LinkPerson(p, base, sub)
    BY <2>1, LinkPersonKeeps
  <2>2. CASE \E person \in PersonsOf(db) :
               \/ DeletePerson(p, person)
               \/ SetFavorite(p, person)
               \/ UnsetFavorite(p, person)
    BY <2>2, DeletePersonKeeps, SetFavoriteKeeps, UnsetFavoriteKeeps
  <2>3. CASE \E person \in PersonsOf(db) : \E c \in Members(db, person) : ReadUnlink(p, person, c)
    BY <2>3, ReadsKeep DEF Members
  <2>4. CASE \E c \in db.favorites : DeleteFavorite(p, c)
    BY <2>4, DeleteFavoriteKeeps
  <2> QED
    BY <1>4, <2>1, <2>2, <2>3, <2>4 DEF PersonCalls
<1>5. ASSUME NEW p \in Procs, GroupCalls(p)
      PROVE  IInv'
  <2>1. CASE \E b \in LiveBooks : InsertGroup(p, b)
    BY <2>1, InsertGroupKeeps
  <2>2. CASE \E g \in DOMAIN db.groups :
               UpdateGroup(p, g) \/ DeleteGroup(p, g) \/ DeleteGroupWithMembers(p, g)
    BY <2>2, UpdateGroupKeeps, DeleteGroupKeeps, DeleteGroupWithMembersKeeps
  <2>3. CASE \E g \in DOMAIN db.groups, c \in DOMAIN db.contacts :
               UnsetRelation(p, g, c) \/ ReadSetRelation(p, g, c)
    BY <2>3, UnsetRelationKeeps, ReadsKeep
  <2> QED
    BY <1>5, <2>1, <2>2, <2>3 DEF GroupCalls
<1>6. ASSUME NEW p \in Procs, BookCalls(p)
      PROVE  IInv'
  BY <1>6, InsertAddressbookKeeps, ResetInternalKeeps, DeleteAddressbookKeeps DEF BookCalls
<1>7. ASSUME NEW p \in Procs, Runs(p)
      PROVE  IInv'
  BY <1>7, RunDeleteKeeps, RunUnlinkKeeps, RunUpdateKeeps, RunSetRelationKeeps DEF Runs
<1> QED
  BY <1>1, <1>2, <1>3, <1>4, <1>5, <1>6, <1>7 DEF Next

-----------------------------------------------------------------------------
(* Relations without their contact. *)

\* From d to e no relation is left without its contact.
Tidy(d, e) == Shape(e) /\ Dangling(e) \subseteq Dangling(d)

LEMMA TidyTrans ==
  ASSUME NEW d, NEW e, NEW f, Tidy(d, e), Tidy(e, f)
  PROVE  Tidy(d, f)
BY DEF Tidy

\* Statements that neither relate nor delete contacts.
LEMMA TidyOthers ==
  ASSUME NEW d, Shape(d), NEW e, Shape(e),
         DOMAIN d.contacts \subseteq DOMAIN e.contacts, e.relations \subseteq d.relations
  PROVE  Tidy(d, e)
BY DEF Tidy, Dangling

LEMMA TidyDeleteFavorites ==
  ASSUME NEW d, Shape(d), NEW S
  PROVE  /\ Tidy(d, DeleteFavorites(d, S))
         /\ DOMAIN DeleteFavorites(d, S).contacts = DOMAIN d.contacts
         /\ DeleteFavorites(d, S).relations = d.relations
<1> SUFFICES ASSUME NEW e, e = DeleteFavorites(d, S)
             PROVE  /\ Tidy(d, e)
                    /\ DOMAIN e.contacts = DOMAIN d.contacts
                    /\ e.relations = d.relations
  OBVIOUS
<1>1. Shape(e) /\ DOMAIN e.contacts = DOMAIN d.contacts /\ e.relations = d.relations
  BY DEF DeleteFavorites, Shape
<1>2. Tidy(d, e)
  BY <1>1, TidyOthers
<1> QED
  BY <1>1, <1>2

LEMMA TidyDeleteContacts ==
  ASSUME NEW d, Shape(d), NEW S
  PROVE  Tidy(d, DeleteContacts(d, S))
<1> DEFINE f == DeleteFavorites(d, S)
           e == DeleteContacts(d, S)
<1>1. /\ Shape(f) /\ DOMAIN f.contacts = DOMAIN d.contacts
      /\ f.relations = d.relations
  BY TidyDeleteFavorites DEF Tidy
<1>2. e = [f EXCEPT !.contacts = Without(@, S), !.relations = {r \in @ : r[2] \notin S}]
  BY DEF DeleteContacts
<1> HIDE DEF e, f
<1>3. /\ Shape(e) /\ e.contacts = Without(f.contacts, S)
      /\ e.relations = {r \in f.relations : r[2] \notin S}
  BY <1>1, <1>2 DEF Shape
<1>4. DOMAIN e.contacts = DOMAIN d.contacts \ S
  BY <1>1, <1>3 DEF Without
<1> QED
  BY <1>1, <1>3, <1>4 DEF Tidy, Dangling, e

LEMMA TidyDeleteGroups ==
  ASSUME NEW d, Shape(d), NEW S
  PROVE  Tidy(d, DeleteGroups(d, S))
<1> SUFFICES ASSUME NEW e, e = DeleteGroups(d, S)
             PROVE  Tidy(d, e)
  OBVIOUS
<1>1. Shape(e) /\ e.contacts = d.contacts /\ e.relations \subseteq d.relations
  BY DEF DeleteGroups, Shape
<1> QED
  BY <1>1, TidyOthers

LEMMA TidyMovePersons ==
  ASSUME NEW d, Shape(d), NEW to
  PROVE  Tidy(d, MovePersons(d, to))
<1> SUFFICES ASSUME NEW e, e = MovePersons(d, to)
             PROVE  Tidy(d, e)
  OBVIOUS
<1>1. Shape(e) /\ DOMAIN e.contacts = DOMAIN d.contacts /\ e.relations = d.relations
  BY DEF MovePersons, Shape
<1> QED
  BY <1>1, TidyOthers

LEMMA TidyTouched ==
  ASSUME NEW d, Shape(d), NEW c
  PROVE  Tidy(d, Touched(d, c)) /\ DOMAIN Touched(d, c).contacts = DOMAIN d.contacts
                               /\ Touched(d, c).relations = d.relations
<1> DEFINE e == Touched(d, c)
<1>1. Shape(e) /\ DOMAIN e.contacts = DOMAIN d.contacts /\ e.relations = d.relations
  <2>1. CASE c \in DOMAIN d.contacts
    BY <2>1 DEF Touched, Shape
  <2>2. CASE c \notin DOMAIN d.contacts
    BY <2>2 DEF Touched
  <2> QED
    BY <2>1, <2>2
<1> HIDE DEF e
<1>2. Tidy(d, e)
  BY <1>1, TidyOthers
<1> QED
  BY <1>1, <1>2 DEF e

LEMMA TidyVersioned ==
  ASSUME NEW d, Shape(d)
  PROVE  /\ Tidy(d, Versioned(d))
         /\ Versioned(d).contacts = d.contacts
         /\ Versioned(d).relations = d.relations
<1> DEFINE e == Versioned(d)
<1>1. Shape(e) /\ e.contacts = d.contacts /\ e.relations = d.relations
  BY DEF Versioned, Shape
<1> HIDE DEF e
<1>2. Tidy(d, e)
  BY <1>1, TidyOthers
<1> QED
  BY <1>1, <1>2 DEF e

LEMMA TidyGroupRecorded ==
  ASSUME NEW d, Shape(d), NEW g
  PROVE  Tidy(d, GroupRecorded(d, g))
<1> DEFINE e == GroupRecorded(d, g)
<1>1. Shape(e) /\ e.contacts = d.contacts /\ e.relations = d.relations
  BY DEF GroupRecorded, Shape
<1> HIDE DEF e
<1>2. Tidy(d, e)
  BY <1>1, TidyOthers
<1> QED
  BY <1>2 DEF e

\* Statements that leave contacts and relations alone, whatever else they set.
LEMMA TidyTables ==
  ASSUME NEW d, Shape(d), NEW persons, NEW deleteds, NEW e,
         \/ e = [d EXCEPT !.persons = persons]
         \/ e = [d EXCEPT !.persons = persons, !.deleteds = deleteds]
         \/ e = [d EXCEPT !.deleteds = deleteds]
  PROVE  Tidy(d, e)
<1>1. Shape(e) /\ e.contacts = d.contacts /\ e.relations = d.relations
  BY DEF Shape
<1> QED
  BY <1>1, TidyOthers

-----------------------------------------------------------------------------
(* The theorems. *)

\* The invariant holds in every state of every run.
THEOREM Invariant == Spec => []IInv
<1>1. Init => IInv
  BY InitIInv
<1>2. IInv /\ [Next]_vars => IInv'
  BY NextIInv
<1> QED
  BY <1>1, <1>2, PTL DEF Spec

\* Every column has values of its type, and no stamp is newer than the
\* committed version.
THEOREM TypeCorrect == Spec => []TypeOK
<1>1. IInv => TypeOK
  <2> SUFFICES ASSUME IInv PROVE TypeOK
    OBVIOUS
  <2>1. Typed(db, db.ver) /\ db.ver \in 0..MaxVer /\ seen \in 0..db.ver
    BY DEF IInv, Sane
  <2>2. /\ 1..db.contact_seq \subseteq ContactIds
        /\ 1..db.group_seq \subseteq GroupIds
        /\ 1..db.book_seq \subseteq 1..MaxBooks
    BY <2>1, Bounds DEF Typed, ContactIds, GroupIds
  <2>3. ContactUpTo(db.ver) = Contact /\ GroupUpTo(db.ver) = Group
    BY DEF ContactUpTo, GroupUpTo, Contact, Group, Stamps
  <2>4. /\ IsTable(db.contacts, ContactIds, Contact)
        /\ IsTable(db.groups, GroupIds, Group)
        /\ IsTable(db.deleteds, ContactIds, [book : Books, ver : Stamps])
        /\ IsTable(db.group_deleteds, GroupIds, [book : Books \cup {None}, ver : Stamps])
    BY <2>1, <2>2, <2>3 DEF IsTable, Typed, Stamps
  <2>5. db.relations \subseteq GroupIds \X ContactIds
    BY <2>1, <2>2 DEF Typed
  <2> QED
    BY <2>1, <2>2, <2>4, <2>5 DEF TypeOK, Typed
<1> QED
  BY <1>1, Invariant, PTL

\* No sequence of links, unlinks and deletions leaves a favorite without its
\* contact.
THEOREM FavoritesCorrect == Spec => []FavoritesExist
<1>1. IInv => FavoritesExist
  BY DEF IInv, Sane, Consistent, FavoritesExist
<1> QED
  BY <1>1, Invariant, PTL

\* A step leaves a relation without its contact only when it is the end of a
\* call that read the contact before it was deleted.
LEMMA OneStepTidy ==
  ASSUME NEW p \in Procs, Shape(db),
         ContactCalls(p) \/ PersonCalls(p) \/ GroupCalls(p) \/ BookCalls(p)
  PROVE  Tidy(db, db')
<1> USE DEF Does, Reads
<1>0. Tidy(db, db)
  BY DEF Tidy
<1>1. ASSUME NEW b, NEW g, InsertContact(p, b, g)
      PROVE  Tidy(db, db')
  <2> DEFINE c == NextContact(db)
             row == [person |-> c, book |-> b, fav |-> FALSE, created |-> Stamp(db),
                     changed |-> Stamp(db), content |-> Stamp(db)]
             e == [db EXCEPT !.contacts = With(@, c, row),
                             !.persons = @ \cup {c},
                             !.contact_seq = Max({@, c})]
             f == IF g = None THEN e ELSE Related(e, g, c)
  <2>1. db' = Versioned(f)
    BY <1>1 DEF InsertContact
  <2> DEFINE contacts == With(db.contacts, c, row)
             seq == Max({db.contact_seq, c})
  <2>6. e = [db EXCEPT !.contacts = contacts, !.persons = @ \cup {c}, !.contact_seq = seq]
    OBVIOUS
  <2> HIDE DEF e, seq, contacts
  <2>2. Shape(e) /\ e.contacts = With(db.contacts, c, row) /\ e.relations = db.relations
    BY <2>6 DEF Shape, contacts
  <2> HIDE DEF row, c
  <2>3. Shape(f) /\ f.contacts = e.contacts /\ f.relations \subseteq e.relations \cup {<<g, c>>}
    BY <2>2 DEF Shape, Related
  <2>4. DOMAIN f.contacts = DOMAIN db.contacts \cup {c}
    BY <2>2, <2>3 DEF With
  <2> HIDE DEF f
  <2>5. Tidy(db, f)
    BY <2>2, <2>3, <2>4 DEF Tidy, Dangling
  <2> QED
    BY <2>1, <2>3, <2>5, TidyVersioned, TidyTrans
<1>2. ASSUME NEW base, NEW sub, LinkPerson(p, base, sub)
      PROVE  Tidy(db, db')
  <2> DEFINE f == MovePersons(db, [x \in {sub} |-> base])
  <2>1. db' = [f EXCEPT !.persons = db.persons \ {sub}]
    BY <1>2 DEF LinkPerson
  <2>2. Tidy(db, f)
    BY TidyMovePersons
  <2> HIDE DEF f
  <2>3. Tidy(f, db')
    BY <2>1, <2>2, TidyTables DEF Tidy
  <2> QED
    BY <2>2, <2>3, TidyTrans
<1>3. ASSUME NEW person, DeletePerson(p, person)
      PROVE  Tidy(db, db')
  <2> DEFINE S == Members(db, person)
             f == DeleteContacts(db, S)
             gone == [c \in DOMAIN f.deleteds \cup S |->
                 IF c \in S THEN [book |-> db.contacts[c].book, ver |-> Stamp(db)]
                            ELSE f.deleteds[c]]
             e == [f EXCEPT !.persons = f.persons \ {person}, !.deleteds = gone]
  <2>1. db' = Versioned(e)
    BY <1>3 DEF DeletePerson
  <2>2. Tidy(db, f)
    BY TidyDeleteContacts
  <2> HIDE DEF f, gone
  <2>3. Tidy(f, e)
    BY <2>2, TidyTables DEF Tidy
  <2> QED
    BY <2>1, <2>2, <2>3, TidyVersioned, TidyTrans DEF Tidy
<1>4. ASSUME NEW person, SetFavorite(p, person)
      PROVE  Tidy(db, db')
  <2>1. /\ Shape(db') /\ DOMAIN db'.contacts = DOMAIN db.contacts
        /\ db'.relations = db.relations
    BY <1>4 DEF SetFavorite, Shape
  <2> QED
    BY <2>1, TidyOthers
<1>5. ASSUME NEW x, UnsetFavorite(p, x) \/ DeleteFavorite(p, x)
      PROVE  Tidy(db, db')
  BY <1>5, TidyDeleteFavorites DEF UnsetFavorite, DeleteFavorite
<1>6. ASSUME NEW x, InsertGroup(p, x) \/ UpdateGroup(p, x)
      PROVE  Tidy(db, db')
  <2>1. Shape(db') /\ db'.contacts = db.contacts /\ db'.relations = db.relations
    BY <1>6 DEF InsertGroup, UpdateGroup, Versioned, Shape
  <2> QED
    BY <2>1, TidyOthers
<1>7. ASSUME NEW g, DeleteGroup(p, g)
      PROVE  Tidy(db, db')
  <2>1. Tidy(db, DeleteGroups(db, {g}))
    BY TidyDeleteGroups
  <2>2. Tidy(DeleteGroups(db, {g}), GroupRecorded(DeleteGroups(db, {g}), g))
    BY <2>1, TidyGroupRecorded DEF Tidy
  <2> QED
    BY <1>7, <2>1, <2>2, TidyVersioned, TidyTrans DEF DeleteGroup, Tidy
<1>8. ASSUME NEW g, DeleteGroupWithMembers(p, g)
      PROVE  Tidy(db, db')
  <2> DEFINE S == {c \in ContactIds : {r \in db.relations : r[2] = c} = {<<g, c>>}}
             e == DeleteContacts(db, S)
             f == Collected(e)
             h == DeleteGroups(f, {g})
  <2>1. db' = Versioned(GroupRecorded(h, g))
    BY <1>8 DEF DeleteGroupWithMembers
  <2>2. Tidy(db, e)
    BY TidyDeleteContacts
  <2> HIDE DEF e
  <2>3. Tidy(e, f)
    BY <2>2, TidyMovePersons DEF Tidy, Collected
  <2> HIDE DEF f
  <2>4. Tidy(f, h)
    BY <2>3, TidyDeleteGroups DEF Tidy
  <2> HIDE DEF h
  <2>5. Tidy(h, GroupRecorded(h, g))
    BY <2>4, TidyGroupRecorded DEF Tidy
  <2>6. Tidy(GroupRecorded(h, g), db')
    BY <2>1, <2>5, TidyVersioned DEF Tidy
  <2> QED
    BY <2>2, <2>3, <2>4, <2>5, <2>6, TidyTrans
<1>9. ASSUME NEW g, NEW c, UnsetRelation(p, g, c)
      PROVE  Tidy(db, db')
  <2> DEFINE e == [db EXCEPT !.relations = @ \ {<<g, c>>}]
  <2>1. Shape(e) /\ e.contacts = db.contacts /\ e.relations \subseteq db.relations
    BY DEF Shape
  <2>2. db' = Versioned(Touched(e, c))
    BY <1>9 DEF UnsetRelation
  <2> HIDE DEF e
  <2>3. Tidy(db, e)
    BY <2>1, TidyOthers
  <2> QED
    BY <2>1, <2>2, <2>3, TidyTouched, TidyVersioned, TidyTrans DEF Tidy
<1>10. CASE InsertAddressbook(p)
  <2>1. Shape(db') /\ db'.contacts = db.contacts /\ db'.relations = db.relations
    BY <1>10 DEF InsertAddressbook, Shape
  <2> QED
    BY <2>1, TidyOthers
<1>11. CASE ResetInternal(p)
  BY <1>11, TidyDeleteContacts, TidyDeleteGroups, TidyTrans DEF ResetInternal, Tidy
<1>12. ASSUME NEW b, DeleteAddressbook(p, b)
      PROVE  Tidy(db, db')
  <2> DEFINE groups == {g \in DOMAIN db.groups : db.groups[g].book = b}
             f == DeleteGroups(db, groups)
             e == DeleteContacts(f, BookOf(db, b))
             h == AddressbookDeleted(db, b)
  <2>1. Tidy(db, f)
    BY TidyDeleteGroups
  <2>2. Tidy(f, e)
    BY <2>1, TidyDeleteContacts DEF Tidy
  <2>3. h = [e EXCEPT !.books = @ \ {b},
               !.deleteds = Without(@, {c \in DOMAIN @ : @[c].book = b}),
               !.group_deleteds = Without(@, {g \in DOMAIN @ : @[g].book = b})]
    BY DEF AddressbookDeleted
  <2> HIDE DEF e, f, h
  <2>4. Shape(h) /\ h.contacts = e.contacts /\ h.relations = e.relations
    BY <2>2, <2>3 DEF Tidy, Shape
  <2>5. Tidy(e, h)
    BY <2>2, <2>4, TidyOthers DEF Tidy
  <2>6. Tidy(h, db')
    BY <1>12, <2>4, TidyMovePersons DEF DeleteAddressbook, Collected, h
  <2> QED
    BY <2>1, <2>2, <2>5, <2>6, TidyTrans
<1>13. ASSUME NEW name, NEW call, Reads(p, name, call)
      PROVE  Tidy(db, db')
  BY <1>0, <1>13
<1>14. CASE ContactCalls(p)
  BY <1>14, <1>1, <1>13 DEF ContactCalls, ReadDelete, ReadUpdate
<1>15. CASE PersonCalls(p)
  BY <1>15, <1>2, <1>3, <1>4, <1>5, <1>13 DEF PersonCalls, ReadUnlink
<1>16. CASE GroupCalls(p)
  BY <1>16, <1>6, <1>7, <1>8, <1>9, <1>13 DEF GroupCalls, ReadSetRelation
<1>17. CASE BookCalls(p)
  BY <1>17, <1>10, <1>11, <1>12 DEF BookCalls
<1> QED
  BY <1>14, <1>15, <1>16, <1>17

\* The calls of two steps that do not relate.
LEMMA EndsTidy ==
  ASSUME NEW p \in Procs, Shape(db), RunUnlink(p) \/ \E heir : RunDelete(p, heir)
  PROVE  Tidy(db, db')
<1>0. Tidy(db, db)
  BY DEF Tidy
<1>1. CASE RunUnlink(p)
  <2>1. CASE db' = db
    BY <1>0, <2>1
  <2>2. CASE db' # db
    <3>1. /\ Shape(db') /\ DOMAIN db'.contacts = DOMAIN db.contacts
          /\ db'.relations = db.relations
      BY <1>1, <2>2 DEF RunUnlink, Ends, Shape
    <3> QED
      BY <3>1, TidyOthers
  <2> QED
    BY <2>1, <2>2
<1>2. ASSUME NEW heir, RunDelete(p, heir)
      PROVE  Tidy(db, db')
  <2> DEFINE c == pending[p].contact
             u == Unlinked(db, c, heir)
             e == DeleteContacts(u, {c})
             gone == With(e.deleteds, c, [book |-> pending[p].book, ver |-> Stamp(db)])
             h == [e EXCEPT !.deleteds = gone]
  <2>1. db' = db \/ db' = Versioned(h)
    BY <1>2 DEF RunDelete, Ends
  <2>2. Tidy(db, u)
    <3>1. CASE Cardinality(Members(db, c)) = 0
      BY <1>0, <3>1 DEF Unlinked
    <3>2. CASE Cardinality(Members(db, c)) = 1
      <4>1. u = [db EXCEPT !.persons = db.persons \ {c}]
        BY <3>2 DEF Unlinked
      <4> HIDE DEF u
      <4> QED
        BY <4>1, TidyTables
    <3>3. CASE Cardinality(Members(db, c)) \notin {0, 1}
      <4>1. u = MovePersons(db, [x \in {c} |-> heir])
        BY <3>3 DEF Unlinked
      <4> QED
        BY <4>1, TidyMovePersons
    <3> QED
      BY <3>1, <3>2, <3>3
  <2> HIDE DEF u
  <2>3. Tidy(u, e)
    BY <2>2, TidyDeleteContacts DEF Tidy
  <2> HIDE DEF e, gone
  <2>4. Tidy(e, h)
    BY <2>3, TidyTables DEF Tidy
  <2> HIDE DEF h
  <2>5. Tidy(h, Versioned(h))
    BY <2>4, TidyVersioned DEF Tidy
  <2> QED
    BY <1>0, <2>1, <2>2, <2>3, <2>4, <2>5, TidyTrans
<1> QED
  BY <1>1, <1>2

\* The calls that relate what they read before their transaction.
LEMMA LateRelation ==
  ASSUME IInv, NEW p \in Procs, RunUpdate(p) \/ RunSetRelation(p),
         NEW r, r \in Dangling(db') \ Dangling(db)
  PROVE  RelatesLate(p, r)
<1> DEFINE c == pending[p].contact
           g == pending[p].group
           d == Related(db, g, c)
           e == [db EXCEPT !.relations = @ \ {<<g, c>>}]
<1>1. Shape(db) /\ DOMAIN pending = Procs
  BY Start DEF IInv
<1>2. /\ Shape(d) /\ d.contacts = db.contacts /\ d.relations = db.relations \cup {<<g, c>>}
      /\ Shape(e) /\ e.contacts = db.contacts /\ e.relations \subseteq db.relations
  BY <1>1 DEF Related, Shape
<1>3. \/ db' = db
      \/ \E f \in {db, d, e} : db' = Versioned(Touched(f, c))
  BY DEF RunUpdate, RunSetRelation, Ends
<1>4. db' # db
  OBVIOUS
<1>5. PICK f \in {db, d, e} : db' = Versioned(Touched(f, c))
  BY <1>3, <1>4
<1>6. /\ pending[p] # None /\ pending[p].name \in {"relate", "update"}
      /\ pending'[p] = None
  BY <1>1 DEF RunUpdate, RunSetRelation, Is, Ends
<1> HIDE DEF d, e
<1>7. Shape(f) /\ f.contacts = db.contacts /\ f.relations \subseteq db.relations \cup {<<g, c>>}
  BY <1>1, <1>2, <1>5
<1>8. DOMAIN db'.contacts = DOMAIN db.contacts /\ db'.relations = f.relations
  BY <1>5, <1>7, TidyTouched, TidyVersioned DEF Tidy
<1>9. r[2] \notin DOMAIN db.contacts /\ r \in f.relations /\ r \notin db.relations
  BY <1>8 DEF Dangling
<1>10. r = <<g, c>>
  BY <1>7, <1>9
<1> QED
  BY <1>6, <1>9, <1>10 DEF RelatesLate

\* No interleaving of calls, although the address books are compared with
\* what was read before the transaction, makes a relation of two of them; and
\* no step leaves a relation without its contact but a call that was late.
THEOREM RelationsCorrect == Spec => GroupsMatchBooks
<1> DEFINE Late == \A r \in Dangling(db') \ Dangling(db) : \E p \in Procs : RelatesLate(p, r)
<1>1. ASSUME IInv, IInv', [Next]_vars
      PROVE  [RelationsMatch' /\ Late]_vars
  <2>1. Shape(db)
    BY <1>1, Start
  <2>2. ASSUME NEW p \in Procs,
               ContactCalls(p) \/ PersonCalls(p) \/ GroupCalls(p) \/ BookCalls(p)
        PROVE  Late
    BY <2>1, <2>2, OneStepTidy DEF Tidy
  <2>3. ASSUME NEW p \in Procs, Runs(p)
        PROVE  Late
    <3>1. CASE RunUnlink(p) \/ \E heir : RunDelete(p, heir)
      BY <2>1, <3>1, EndsTidy DEF Tidy
    <3>2. CASE RunUpdate(p) \/ RunSetRelation(p)
      BY <1>1, <3>2, LateRelation
    <3> QED
      BY <2>3, <3>1, <3>2 DEF Runs
  <2>4. ASSUME Sync PROVE Late
    BY <2>4 DEF Sync
  <2>5. RelationsMatch'
    BY <1>1 DEF IInv, Sane, Consistent, RelationsMatch
  <2> QED
    BY <1>1, <2>2, <2>3, <2>4, <2>5 DEF Next
<1> QED
  BY <1>1, Invariant, PTL DEF Spec, GroupsMatchBooks

\* No contact is both there and recorded as deleted.
THEOREM DeletionsCorrect == Spec => []DeletedIsGone
<1>1. IInv => DeletedIsGone
  BY DEF IInv, Sane, Consistent, DeletedIsGone
<1> QED
  BY <1>1, Invariant, PTL

\* As long as nobody resets the internal address book, every contact's person
\* is a contact that exists and is its own person.
THEOREM PersonsArePrimary ==
  ASSUME "reset_internal" \notin Calls
  PROVE  Spec => []PrimaryExists
<1>1. IInv => PrimaryExists
  BY DEF IInv, Primary, PrimaryExists
<1> QED
  BY <1>1, Invariant, PTL

=============================================================================
