--------------------------- MODULE CtsStoreProps ---------------------------
(***************************************************************************)
(* What the calls of CtsStore have to keep true of the database.           *)
(***************************************************************************)
EXTENDS CtsStore

\* "If contact is not linked, the related person is same with contact"
\* (cts-person.h:48), and in general a person is one of its contacts: the
\* lists join a contact with the name of the contact its person_id names, so
\* a contact whose person is gone disappears from all of them.
PrimaryExists ==
  \A p \in PersonsOf(db) : p \in db.persons /\ p \in Members(db, p)

\* Every favorite is a contact that exists: no sequence of links, unlinks and
\* deletions leaves one behind ("clears up all the info of these
\* contacts(group relation info, favorites info and etc.)", cts-contact.h:130).
FavoritesExist == db.favorites \subseteq DOMAIN db.contacts

\* A group relation belongs to a group that exists, and a contact it joins to
\* the group is of the same address book.
RelationsMatch ==
  \A r \in db.relations :
    /\ r[1] \in DOMAIN db.groups
    /\ r[2] \in DOMAIN db.contacts => db.groups[r[1]].book = db.contacts[r[2]].book

\* The relations whose contact does not exist.
Dangling(d) == {r \in d.relations : r[2] \notin DOMAIN d.contacts}

\* The call of process p ends in this step, and it relates r, whose contact it
\* read before its transaction and another process has deleted since
\* (set_relation, cts-group.c:384; update_contact, cts-contact-write.c:1931).
RelatesLate(p, r) ==
  /\ pending[p] # None /\ pending'[p] = None
  /\ pending[p].name \in {"relate", "update"}
  /\ r = <<pending[p].group, pending[p].contact>>
  /\ r[2] \notin DOMAIN db.contacts

\* A relation never joins two address books, although they are compared with
\* what was read before the transaction; and a relation is left without its
\* contact by no deletion, single or bulk, but only by a call that was late.
GroupsMatchBooks ==
  [][/\ RelationsMatch'
     /\ \A r \in Dangling(db') \ Dangling(db) : \E p \in Procs : RelatesLate(p, r)]_vars

\* No contact is both there and recorded as deleted: an id that was deleted is
\* not given out again (cts_db_get_next_id).
DeletedIsGone == DOMAIN db.deleteds \cap DOMAIN db.contacts = {}

\* A program that asks for the contacts "updated since the version" its last
\* transaction returned has afterwards exactly the contacts there are.
ContactsSynced == ContactsAfterSync = ContactsNow

\* The same of the groups.
GroupsSynced == GroupsAfterSync = GroupsNow
=============================================================================
