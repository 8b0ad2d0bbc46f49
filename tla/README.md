# Contacts service: a TLA+ verification project

The contacts service is the address book of a phone: a C library
(`src/src`) that every program links, one SQLite database all of them open, and
a helper daemon (`src/helper`) that normalises names and imports SIM contacts.
There is no server between the programs and the database.  What keeps the data
right is a transaction counter shared by the threads of a process, SQLite's write
lock between processes, a version number stamped on every changed row, the
triggers of `schema.sql`, and empty files that are opened to tell others that
something changed.

This directory models those parts in TLA+, checks them with TLC on small
instances and proves with TLAPS, for all values of the constants, the main
invariants of the transaction layer, the database and a program that synchronises
with it, the contacts that are written, the change subscription, the helper's
protocol and SIM import, and the phone log.

## Running it

    tlc -workers 2 -config TransNested.cfg MCTransaction.tla
    tlc -workers 2 -config Helper.cfg      MCHelper.tla
    tlapm CtsStoreProofs.tla

Every run with its module and configuration, the properties it checks, a faulty
variant of a definition that each property catches, and the source lines of each
definition are listed in `PROJECT.json`.

## Inventory

Paths are relative to `src/`.

| Component | State it keeps | Operations | What makes it correct |
|---|---|---|---|
| Transactions, stamps, notifications: `src/cts-utils.c`, `src/cts-pthread.c` | `transaction_count`, `transaction_ver`, `version_up`, nine `*_change` flags, `CTS_MUTEX_TRANSACTION` | `contacts_svc_begin_trans`, `contacts_svc_end_trans`, `cts_get_next_ver`, `cts_set_*_noti`, `cts_noti_publish_*` | counter = open calls; never a statement outside the transaction; the write lock is stranded by no failure but that of ROLLBACK; batches are atomic and freshly stamped; each committed change is announced, and nothing else |
| Connection: `src/cts-service.c`, `src/cts-sqlite.c`, `src/cts-restriction.c` | `cts_conn_refcnt`, the database handle, the socket, the permission file | `contacts_svc_connect`, `_disconnect` and their `_on_thread` forms | one count for all threads: while it is positive socket, database and view are open, and the last disconnect closes everything; a connect that fails half way undoes what it did (it does, but for the database) |
| Change subscription: `src/cts-inotify.c` | list of (watch, callback, data), one inotify descriptor | subscribe, unsubscribe, the GIOChannel handler | each event reaches each subscriber, whatever its callbacks do to the list; a change is missed only inside a call about the same file |
| Socket client: `src/cts-socket.c` | one descriptor under `CTS_MUTEX_SOCKET_FD` | init, final, normalisation and collation requests, SIM import and export | request and answer stay in step on the byte stream |
| Helper daemon: `helper/helper-socket.c`, `helper/sim.c`, `helper/sqlite.c`, `helper/utils.c` | GIOChannels of its clients, `helper_sim_data`, the TAPI registration count | request handlers, TAPI callbacks, the collation update | one answer per request that can be read; a SIM import appears all at once; the library is open exactly while it is needed |
| Persons and links: `src/cts-person.c` | `persons`, `contacts.person_id` | link, unlink, delete_person, change of the primary contact, garbage collection | a person is one of the contacts it groups |
| Contacts: `src/cts-contact-write.c`, `src/cts-contact-read.c` | `contacts`, `data`, `deleteds`, image files | insert, update, delete, default number and e-mail | a contact is there or recorded as deleted; stamps are newer than any version given out before |
| Groups: `src/cts-group.c` | `groups`, `group_relations`, `group_relations_log`, `group_deleteds` | insert, update, delete, delete with members, set and unset relation | relations do not join a group and a contact of two address books, and are not left behind by deletions |
| Favorites, speed dials: `src/cts-favorite.c` | `favorites`, `speeddials`, `contacts.is_favorite` | set, unset, delete, move; set and delete a speed dial | no favorite without its contact; the order of favorites is a strict order |
| Address books: `src/cts-addressbook.c` | `addressbooks` | insert, update, delete, reset of the internal one | the contents go with the book |
| Phone log: `src/cts-phonelog.c`, its lists in `src/cts-list.c` | `phonelogs`, `phonelog_accumulation`, `persons.outgoing_count` | insert, delete, set_seen, the lists joined with contacts | no outgoing call is lost or counted twice; a caller is shown with the contact that has the number, under the key the row still has; missed calls are announced |
| Lists and synchronisation: `src/cts-list.c`, `src/cts-list-filter.c`, `src/cts-list-info.c` | none (iterators) | lists, filters, `get_updated_contacts`, `get_updated_groups` | the changes since a version are complete |
| Schema: `schema.sql`, `helper/schema-recovery.c` | keys and triggers | - | the triggers keep the tables consistent with each other |
| Normalisation: `src/cts-normalize.c`, `helper/normalize.c`, `helper/localize.c` | none | clean a number, its key, search keys of names | two ways to write a number have one key |
| vCard: `src/cts-vcard.c`, `src/cts-vcard-file.c` | none | make, fold, parse, foreach, count | what was exported is read back; as many cards as were counted |
| Structs and values: `src/cts-struct.c`, `src/cts-struct-ext.c`, `src/cts-im.c` | values, lists of pointers to them | get, store, merge, duplicate, free | every value a struct has taken is in one list and is freed once |

How they interact:

- An API call that changes rows is `begin_trans`, SQL statements,
  `cts_set_*_noti`, `end_trans`.  A program may open a transaction of its own
  around many calls, so these pairs nest.  All threads of a process share one
  counter and one connection.
- `end_trans` commits, releases the mutex and then opens the file of each topic
  whose flag is set; inotify hands that event to the subscribers of every
  process, which read the database.
- A program that keeps a copy stores the version that `end_trans` returned and
  asks later for the rows with a larger stamp and for the deletion records with
  a larger stamp.
- Inserting or updating a contact sends its name to the helper over the socket,
  and waits for the answer, in the middle of the transaction.  The helper has a
  connection of its own and, for a SIM import, keeps a transaction open from one
  TAPI callback to the next.

The hard behaviours: two threads in `end_trans` at once, because the flags and
the version are read after the mutex is released; a locked database, where a
thread sleeps and retries with the mutex held; failures after the counter was
decremented; reads made before `begin_trans` (deleting, unlinking, updating a
contact, setting a relation) that another process invalidates; bulk deletions
that run triggers instead of the code that deletes one contact; answers that get
out of step on the socket; an import that spans callbacks while requests of
others are served; a subscription list that its own callbacks change while it is
walked; structs whose items are moved, merged and freed; an update that inserts,
changes and deletes rows item by item and picks a default on the way.
`PROJECT.json` lists each one under `hazards` with its line.

## Modules

| Module | What it models |
|---|---|
| `CtsAtomicStore` | abstract specification: what readers of the database may rely on - atomic batches, the version moves by at most one, and stamps are the version the batch creates |
| `CtsTransaction` | `cts-utils.c`: threads of one process over one connection, other processes competing for the write lock |
| `CtsStore` | the tables of the database with their triggers, the API calls that change them, and a program that synchronises |
| `CtsContact` | structs and values in a program's memory, and the rows of `data` and `contacts` that insertion, update and reading exchange with them |
| `CtsHelper` | threads of several processes, the helper's single thread, the byte streams between them, TAPI, and the database's write lock |
| `CtsClient` | connect, disconnect, name order and change subscription of one process |
| `CtsNumber`, `CtsPhonelog` | the key of a number; the phone log, its accumulation and its lists |
| `CtsVcard` | contact to vCard text and back, through a file read in chunks |

Each has its properties in `...Props`, its instances for TLC in `MC...`, and the
proved ones a module `...Proofs`; those about the synchronising program are in
`CtsSyncProofs`, those about what is stored of a struct in `CtsStoredProofs`.

### CtsTransaction

The variables `transaction_count`, `transaction_ver`, `version_up` and `changes`
are the statics of `cts-utils.c:54-66` (`changes` is the set of the nine flags
that are true, abstracted to `NTopics` flags tested in a fixed order); `holder`
is the owner of `CTS_MUTEX_TRANSACTION`; `lock`, `rows`, `ver` and `work` are the
database file: who has the write lock, the committed rows and version, and the
rows as the open transaction sees them.  `nextId`, `dirty`, `owed` and `synced`
are history.

A code path becomes one action per stretch that no other thread can observe half
done.  `begin_trans` is `CallBegin`, then `BeginJoin` (counter positive: 236-241)
or `BeginLock` (take the mutex and go for the lock), `BeginExec` (BEGIN IMMEDIATE
succeeds, the version is read), `BeginRetry` (sleep 100 ms, 200 ms, ... while the
mutex is held) and `BeginFail`.  `end_trans` is `CallEnd`, then `EndInner`
(count down and return success, whatever was asked), `EndAbort` (cancel the flags,
ROLLBACK) or `EndLock` (count down, raise the version), `Commit`, `CommitRetry`,
`CommitFail`; after the mutex is released each flag is tested (`PublishTopic` or
`SkipTopic`) and cleared (`ClearTopic`) in two steps, because
`cts_noti_publish_*` clears it only after it opened the file, and `EndReturn`
reads `transaction_ver` last.  `Write` and `SetNoti` are what an API call does in
between: they are two steps, as `cts_set_*_noti` follows the statement.
`OtherBegin` and `OtherEnd` are other processes; `Crash` loses everything that is
not in the file.  `Faults` says what may fail: `"io"` (BEGIN or COMMIT returns an
error other than busy), `"version"` (the SELECT of the version in `begin_trans`
fails and leaves the error code in `transaction_ver`; the call succeeds,
`cts-utils.c:235`), `"update"` (the UPDATE of the version fails, which is only
logged, 284), `"rollback"` (the ROLLBACK fails, which is ignored or logged, 276 and
300), `"noti"` (a topic's file cannot be opened) and `"crash"`.

The variable `failed` is the set of those of the last three statements that failed
in the present transaction.  After a failing ROLLBACK the transaction stays open
with a count of zero: the process keeps the write lock and every later BEGIN fails,
until the process ends.  A ROLLBACK that fails because SQLite has rolled back by
itself is the outcome in which it succeeds.  After a failing SELECT the stamps of
the batch are what the error code makes of them.

### CtsStore

`db` is a record with one field per table: `contacts`, `groups`, `deleteds` and
`group_deleteds` are functions from ids to rows, `persons`, `favorites`,
`relations` and `books` are sets, `ver` is `cts_version.ver` and the three `_seq`
fields are rows of `sqlite_sequence`.  Each SQL statement that fires triggers is an
operator from databases to databases (`DeleteContacts` with `trg_contacts_del` and
`trg_favorite_del`, `AddressbookDeleted` with `trg_addressbook_del`, ...), and a
call composes them in the order of the code.

A call is one transaction, so one step: `CtsTransaction` justifies this for
processes (`AtomicCommits`), and BEGIN IMMEDIATE serialises writers.  Calls that
read the database *before* they begin are two steps, and `pending` holds what they
read: `delete_contact` (the address book), `unlink_person` (the outgoing count,
which fails for an unknown person), `update_contact` (whether the contact exists)
and `group_set_relation` (the contact's address book).  The last two may find the
contact deleted when they begin; their relation is then inserted all the same
(`cts-group.c:384`) and joins nothing.  `GroupsMatchBooks` says that this is the only
way a relation comes to be without its contact.

`Sync` is the program described at `cts-list.h:387-451`: it reads both change
lists in a transaction and applies them to its copy.  `replica` is that copy and
`seen` the version it stored.  A contact's `content` is the version at which a
program last changed it; the code has no such column.  It is what `changed_ver`
ought to be, and the copy compares it.

### CtsContact

A pointer is the number of a value and NULL in a list is 0, so that a double free,
a leak and a dangling item are visible.  `value` and `struct` are the heap, `row`
and `contact` the tables.  `Insert` and `Update` follow `cts-contact-write.c` list
by list: `UpdateList` deletes, inserts and updates items in the two passes of the
code and threads the rows, the ids written back into the struct and the default
through them; `NamedForUpdate` is the display name of a nameless contact;
`ImagesBound` is the hand-counted binding of the UPDATE of `contacts`;
`UpdateRefused` includes the update that adds a company and is rolled back because
of a result nobody set (`cts-contact-write.c:515`).  `Get`
is `cts-contact-read.c`, `Merge`, `Duplicate` are `cts-struct-ext.c` with the
NULLs a merge leaves.  "web" stands for the lists without a default (events,
messengers, postal and web addresses, nicknames, extended values), which are
copies of one piece of code.  `Habits` are uses beyond the documented ones:
`"again"` retries an insertion that failed with the same struct, `"clear"` sets
the text of a stored number or e-mail to NULL instead of deleting the item.

### CtsHelper

A request takes `CTS_MUTEX_SOCKET_FD` (`holder`) and puts a header and its
attachments on `down`; the helper puts headers and texts on `up`; all bytes of a
text are alike, so only framing matters.  `HandleName` leaves unread exactly what
`helper_handle_normalize_name` leaves unread for each part that fails.
A request whose attachments cannot be
read is not answered at all (`helper-socket.c:112`), and `unread` holds the process
that waits for ever.
`StartInsert` takes the database's write lock before it normalises, as
`contacts_svc_insert_contact` does.  The SIM operations are the statics of
`sim.c` (`sim`) and one action per TAPI callback; `BeginImport`, `ReadRecord` and
`EndTrans` carry the transaction of the import from callback to callback; a record
whose insertion fails goes to `refused` and the import goes on (`sim.c:313-319`).
`RegionChanged` and `UpdateCollation` are the helper's own connection, which waits
for the write lock as long as it takes.

A scenario says which card is in, how many records it has, what programs ask and
which `faults` happen.  Two of them are kept apart on purpose: a collation update
(`"region"`) together with insertions makes everybody wait on everybody, see
*Divergences*.

### CtsClient

`refcnt`, `opened` and `permitted` are the connection of `cts-service.c`;
`ConnectFails` undoes step by step what the code undoes; `inotify` and `vconf` may
fail without failing the call, and `Registrations` and
`OrdersRead` are what is left of them then.  Subscribing and
unsubscribing are two steps each, because `inotify_add_watch` replaces the mask of
a path that is watched already before the second call restores it, and other
processes close files in between (`Change`).  `ReadEvent` and `NextEntry` walk the
list entry by entry; the main thread may call from its callbacks, so
`Subscribe` and `Unsubscribe` are enabled during a walk.  Unsubscribing with the
callback NULL removes every entry of the path.  The exceptions are
guards named in the module: a callback does not remove its own entry and the
main thread that still subscribes is the last to disconnect.  A worker that
disconnects last would free the list under the walk.

### CtsNumber and CtsPhonelog

`CtsNumber` translates `cts_clean_number`, `cts_clean_country_code` and
`cts_normalize_number` digit by digit, with what lies behind a number that ends
inside its country code as an input (`beyond`).  `CtsPhonelog` has the tables of
the log, the two running totals and `trg_phonelogs_del` row by row, set_seen with
all its combinations of index and type, and the LEFT JOINs of the lists as set
comprehensions over contacts that are written, linked and deleted meanwhile.  A
number is looked up by the key beside it, and that column, `data3`, also says whether
the number is a favorite: `SetFavorite` and `UnsetFavorite` are what
`trg_favorite_insert` and `trg_favorite_del` do to it (`schema.sql:208, 213`).  The
rows of `favorites` and the ids of `data` are not kept, so which row a trigger hits
is left open.

### CtsVcard

A text is a sequence of characters in which the words of the format are one
character each.  `cts_vcard_make` writes every field in the code's order and folds
the whole card; `ReadLine` is a turn of `contacts_svc_vcard_foreach` over chunks of
`LineSize` characters; `cts_vcard_parse` finds the end of each value, removes its
folding, decodes and splits it.  A card that is longer than `MaxSize` when it is
folded is not made, the callback may stop the reading after any card, and a foreign
line longer than a chunk is cut.

## Runs

| Run | Instance | Distinct states | Shows |
|---|---|---|---|
| `trans_nested` | 1 thread, nesting 2, 2 topics, 3 rows, other processes, a failing ROLLBACK | 23 620 | flags and announcements match the commits, the version returned is safe to synchronise from, the mutex is always given back |
| `trans_threads` | 2 threads, nesting 2, 1 topic, 2 rows, all six faults | 883 224 | the counter is the number of open calls, no statement runs outside the transaction, the lock is stranded by a failing ROLLBACK only, batches refine `CtsAtomicStore` |
| `trans_lost_noti` | 2 threads | - | violation: a rollback of another thread clears the flag of a committed change before it is tested |
| `store_links` | 2 processes, 3 contacts, 1 further address book, 5 versions | 765 010 | every person is one of its contacts; every favorite exists |
| `store_groups` | 2 processes, 2 contacts, 2 groups, 1 further address book, 5 versions | 522 337 | relations match address books and outlive a contact only by a late call; ids are not reused |
| `store_sync` | 2 processes, 2 contacts, 1 group, 5 versions | 261 377 | the copy is exact after every synchronisation |
| `contact` | 2 structs, 3 kinds of lists, 4 values, 3 databases to start from, 5 calls | 253 227 | who owns a value, that what was written is stored, which default and display name a contact gets |
| `contact_images` | 1 struct, both images | - | violation: an update that clears the thumbnail stores the full image as the thumbnail |
| `helper` | 3 threads of 2 processes, 5 scenarios | 100 049 | one answer per request that can be read, streams in step, an import is one transaction and ends |
| `client` | 2 threads, 2 files, 1 callback with 2 data, 2 changes, every failure of connect | 693 157 | the connection is whole, subscriptions are watched, every subscriber is called, what may be missed |
| `logs` | 2 entries of 7 kinds, 2 contacts, a window of 1 day, number favorites | 544 482 | outgoing calls are accounted for, callers are shown, missed calls are announced |
| `vcard` | 2 cards of 8 contacts and foreign ones, lines of 8 characters, chunks of 11, cards of at most 150 | 125 004 | what was exported is read, and as many as were counted |

Bounds.  Two threads are what every hazard of the transaction layer needs: one
that publishes and one that rolls back, increments or counts; depth two has an
inner end.  Two topics distinguish "the flag of this topic" from "all flags".
Three contacts make a person that keeps two contacts after it loses its primary
one; two groups make a contact whose deletion with a group is spared.  Two
processes are enough for a pending call and another call that invalidates it.
Five calls on structs reach: read, change or clear an item, add one, update, read
again.  Two threads of one process contend for the socket and the third is another
process, so that one imports while another inserts; a buffer shorter than a text
makes it truncated.  Four calls of the main thread reach: subscribe twice,
unsubscribe one from a callback of the other.  Two log entries and two contacts
make a number that two contacts have and one entry relates to, and a favorite whose
mark hides the number of one of them.  The vCard run was repeated with lines of 5,
6, 7 and 9 characters, which moves the breaks over every position.

The store's runs use `SYMMETRY` over the processes, `trans_threads` over the threads
and the struct's run over the structs; they check invariants and what a step may not
do, no liveness.  `CHECK_DEADLOCK FALSE` is set where the
programs may stop calling, as they must when the bounds are used up.

Fairness.  `CtsTransaction`: weak fairness of `BeginStep(t) \/ EndStep(t)` for
each thread - the scheduler keeps running a thread that is inside the library -
and none for calls nor for other processes, which may keep the database locked for
ever; `MutexReleased` holds because the retries are bounded by
`CTS_COMMIT_TRY_MAX`.  Its run is without `"io"`, because an error that is sure to
come would end any number of retries.  `CtsHelper`: a call that was begun goes on, the GLib main
loop serves every event source, TAPI answers, and a lock that is free is taken.
`CtsClient`: the main loop goes on while it has something to do.

## Proofs

All eight proof modules hold for every value of the constants that satisfies the
named assumptions of the modules they extend.  TLC found each inductive invariant
or its parts to hold on the runs' instances before it was proved.

`CtsTransactionProofs` proves for any number of threads, topics and rows:
`TypeCorrect`, `CountCorrect`, `AlwaysInside`, `LockNeverStranded` and
`CommitsAreAtomic`, which says that the transaction layer implements
`CtsAtomicStore`, whatever fails: a batch whose SELECT or UPDATE of the version
failed is atomic but not `sound`, and promises nothing of its stamps.  None of
these is inductive: the counter is right only because the thread that holds the
mutex is the only one between its test and its assignment.  The inductive invariant
`IInv` adds to `TypeOK`

- `PcOK`: where a thread may be, given its nesting depth and the mutex,
- `CountOK`: the open calls are finitely many, and the counter is their number,
- `MutexOK`: the mutex has an owner exactly while that thread waits in BEGIN or COMMIT,
- `LockOK`: this process has the write lock while a call is open or a COMMIT is
  tried, and otherwise only in a transaction whose ROLLBACK failed,
- `WorkOK`: the open transaction extends the committed rows; if nothing in it failed,
  its stamps are the version it will create, and `version_up` is set as soon as one
  row has a stamp.

There is one lemma per action, and the lemmas `OpenUp` and `OpenDown` count open
calls when a thread begins or ends one.

Three more theorems are about a process with one thread, which is what the code
gets right: `AloneNotificationsKept` and `AloneAnnouncesCommitted` (without crashes
and without files that cannot be opened: the flags are only in memory, and a flag
that stays set for want of a file is cancelled by the next rollback), and
`AloneSyncNeverMisses` (with both, but with a SELECT and an UPDATE of the version
that work).
`FlagsOK` adds to `IInv` that the flags are exactly the changes of the open
transaction and the committed ones not announced yet, but for the flag about to be
set and the one about to be cleared, and that those before the flag being tested are
announced; `ReturnedOK` that no version returned is newer than the committed one.
`trans_lost_noti` shows that the first needs its assumption.

`CtsStoreProofs` proves for any number of processes and any bounds on contacts,
groups, address books and versions: `TypeCorrect`, `FavoritesCorrect`,
`RelationsCorrect` (no relation joins two address books, and only a call that read
the contact before another process deleted it leaves a relation without a contact),
`DeletionsCorrect`, and, under the assumption that no program
calls `reset_internal`, `PersonsArePrimary`; the assumption is needed (see
*Divergences*).  Its `IInv` consists of

- `Sane`, the tables: rows of their types, with ids that were given out
  (`Typed`: without it a fresh id might already have a deletion record, a relation
  or linked contacts) and tables that agree (`Consistent`),
- `PendingOK`: what a call has read before its transaction.  The contact of a
  pending call has been given out, and *if it still exists* it is in the address
  book that was read.  This is why a relation set on a stale read is right: no call
  moves a contact to another address book, and no id is given out twice,
- `Primary`, without the reset: every person is one of its contacts, and has its row.

The proof goes in three layers.  One lemma per SQL statement with its triggers
(`DeleteContactsSane`, `MovePersonsSane`, `CollectedSane`, ...) says that it takes
a sane database to a sane one and what it leaves alone.  `DoesKeeps`, `EndsKeeps`
and `ReadsKeeps` say that a step keeps `IInv` if the database it leaves is `Legal`:
sane, and with every contact new or in the address book it was in.  One lemma per
call then composes its statements.  `CollectedSane` is the reason the bulk
deletions are right: every orphaned person moves, contacts and row together, to the
smallest of its own contacts.

`CtsPhonelogProofs` proves `MissedCallsAnnounced` (the property
`MissedCallAnnounced`) for any log, contacts and inputs.  Its invariant is only
`LogsNumbered`, the ids are below the sequence, because an insertion that reused an
id could replace a missed call without saying so; the work is in the steps.
The list of unseen missed calls is a join, and
`ListIsUnseenCalls` shows that its domain depends on the log alone; deletions by
message id publish no missed-call notification, and need none because messages
are not calls.

`CtsHelperProofs` proves `CallsAreCounted`, `ImportHasItsTransaction` and
`ImportsAreAtomic` for any processes, threads, cards and number of records, under
the assumption `Quiet`: the service numbers are not read and the SIM is ready.
Without it two chains of TAPI calls share the statics of `sim.c`, or an operation
waits for a call that was never made, and the shape of the invariant is lost; the
run `helper` covers a scenario with service numbers.  `SimInv` says in which of
three situations the helper is:

- `Free`: no operation, no registration, no call;
- `Busy(op, i)` with an `op` of an export or of an import before its first record:
  one registration, one call, and the helper has no transaction;
- `Busy("read", i)` and `Importing(i)`: before its transaction with `i = 1`, or in
  it with each of the records `1..(i-1)` inserted or refused.

`LockInv` (a thread that inserts owns the write lock) is what keeps a caller's end
of insertion from releasing the import's lock.

`CtsSyncProofs` proves `ContactsSyncCorrect` and `GroupsSyncCorrect`: what a
program that asks for the changes since the version of its last transaction then
has is what the database holds, for any history of any processes.  "Equal after an
answer" is not inductive, since everybody writes in between.  What holds in every
state is that the copy and the database differ only in what the next answer tells:
`ContactsTold` says that a contact that differs has a newer stamp, and
`ContactsDropped` that one that is gone has a newer deletion record under the
address book the copy knows, or has lost that book.  `ContactsStep` and its like
for the groups turn this into a condition on one step of the tables; every call is
shown to meet it, and the bulk deletions are where it is work.  The hypotheses are
those *Divergences* shows to be needed: no reset of the internal address book and,
for contacts, no `delete_group_with_members`; for groups, a program that asks for
those of any book (`ByBook = FALSE`).

`CtsHelperProofs` also proves `HelperIsTyped` and, unless a collation key fails,
`RepliesStayInStep`.  The invariant `Protocol` gives each process at most one request,
which is in exactly one place: on its way down (`Asked`), with the SIM (`AtSim`), or
answered and not read (`Told`), unless it is one the helper could not read
(`Dropped`), which stays unanswered; one thread, the owner of `CTS_MUTEX_SOCKET_FD`, waits
for it, and with no such thread both streams are empty (`Silent`).  The lengths that
the texts are cut to are what makes a reader take a whole message and no more.
`CollationWorks` is the only hypothesis: the helper answers a request twice when
`cts_collation_str` fails (see *Divergences*).

`CtsClientProofs` proves `ClientIsTyped`, `ConnectionIsWhole` (what is open while the
count is positive and when it is zero; not that a failed connect leaves nothing:
it may leave the database),
`SubscriptionsAreWatched`, `ChangesAreQueued` and `SubscribersAreCalled`, each
property of the run `client` but the liveness one.  The invariant adds to the types
`Counted` (the reference count is the number of connections, and the handles follow
it), `Numbered` (two files never share a descriptor), `Subscribed` (an entry's file is
watched, or is the one of the call in progress) and `Walking`: the walk of
`handle_callback` has called every entry of its file that it has passed, and the
entry it stands on is not one an unsubscription in its callback removes.  Removing
entries moves those behind them, so `EndUnsubscribe` says which positions are
kept and `InOrder` that they keep their order.

`CtsPhonelogProofs` also proves `LogIsTyped` and `CallersAreShown`: however a
number is written in the log and in the contacts, the lists show its entries with
a contact that has it in a row whose key no favorite has overwritten, and with
none when there is no such row.  The invariant says that the key of every entry is
made from the number beside it, that of every row too unless it is a favorite's
mark, and that every person goes by the id of a contact it has, so that the joins
find it.  `SubscribersAssumption` is what is asked of the numbers: those of a
subscriber have one key that no other number has and that is no mark.  The numbers
*Divergences* names do not meet it.

Its fourth theorem is `CallsAreAccounted`, for any number of calls and any window.
`AInv` says the totals are those of the history, and of every time and length that
the calls in the log and among the deleted ones are as many as were ever made
(`Balanced`), or that a call more than the window newer was made (`Late`).  What
makes it inductive is `Dialled`: an outgoing entry has a call of its time in the
history, so that when the trigger drops old rows a newer call is there to excuse it.
A DELETE of many rows runs the trigger for each, and `Balanced` holds after every
one of them (`VisitedAccounts`).  This and the sums are inductions over a recursive
function: that it exists is proved (`SumsExist`, `VisitsExist`), and the
induction is the least counterexample of a well-founded order (`Induction`), whose
theorem takes a set where those on the naturals take an operator.

`CtsContactProofs` proves `ContactIsTyped` and `ValuesAreOwnedOnce` for any program,
habits included, any values and any database it finds.  The
invariant `CInv` says that the lists of the structs divide the values that structs
have taken (`OwnedBy`): no list has an item twice, no two lists share one, and every
value that is embedded is in a list.  It also says that NULL items are left only in a
struct that was merged (`NoNulls`), without which an insertion would write through
a NULL, and that rows have ids the sequence has passed.  `Owning` shows when new
lists divide the values again; merging (items move and leave a NULL), copying
(`Places`: an injection into the free values) and freeing each provide its
premises.  The lists are functions from positions, and what is kept of one is given by
its positions (`Sublist`, `Nth`), so that no step needs an induction over a sequence.

`CtsStoredProofs` proves `DefaultsAreOwn`, `WrittenIsWhatIsStored`,
`MarkedIsDefault` and `NamesAreShown` for any program without `Habits`: it writes
a struct once and does not set the text of a value that has a row to
NULL.  *Divergences* shows what each of the two habits breaks; the runs have the
same hypothesis.  `CInv` does not suffice, because an update works by the ids in
the struct and trusts them. `EInv` adds `DInv`, what a struct that was read knows
of its contact, and `Stores`, what the last call left:

- `Told`: until it is written or merged, the ids of a struct's items, name and
  company are exactly the rows of its contact, each in one item (`Fits`).  It is
  why a call that edits the rows has to spend every other struct of the contact:
  the model's `Overtaken`.  A struct with a default has an item with a row in that
  list (`Owed`), so an update never finds a default in an empty list.  The items
  are also in the order of their rows (`Ordered`: those with ids first, and the ids
  grow), and the name is the contact's first name row or was changed (`NameKnown`);
- `RowsKnown`: rows belong to contacts that were given an id, and a contact has at
  most one company; `DefaultsOwn` is the property;
- `Stores`: the rows of the contact are the items that are written, one each
  (`Placed`), and the default is kept by the rule of the marks (`MarkKept`); a name
  row without a name has its display name from the naming rule (`NamedRight`).

What one list becomes is stated without a recursion: the parts of a list are
sublists (`PartItems`), the new rows are an interval of ids (`RowsGiven`,
`IdsGiven`), and `ListDone` says of an insertion (`InsertListDone`) and of the passes
of an update (`UpdateListDone`, over the partition `UpdateParts`) that the rows of
the kind are now the written items and nothing else changed.  `KindDone` puts the
lists one after the other, in the order of the code, and shows that a later one
leaves the rows and the default of an earlier one alone.

The naming rule needs an order as well: the code names a contact after the first
*item* it writes (`cts_contact_get_valid_first_number_or_email`), and the property
speaks of the first *row*.  A read gives the items in the order of their ids (`Nth`),
and storing or merging values only takes items out of a list or adds new ones at its
end (`Extends`), so lists stay `Ordered`.  Writing such a list, or any list of a
contact that had no rows of the kind (`Ready`), leaves ids that grow along it
(`Rising`): the first row is that of the first written item (`FirstShown`,
`RuleIsShown`).  A name that is not written keeps its row, which is why `NameKnown`
says what an unchanged name knows of it.

A rolled back insertion
leaves ids without rows in the values, which `Told` survives because the struct is
spent.

Only model-checked: every liveness property (`MutexReleased`,
`RequestsAnswered`, `MainLoopServes`), which the provers cannot state, and the two
properties of `CtsVcard`: what its recursive functions make of a text of any length
needs an induction over texts.  `ImagesStored` of `CtsContact` has no theorem
because the code violates it.

## Divergences

Two runs show where the code does something else than its documentation says;
`PROJECT.json` quotes the lines under `findings`:

- `trans_lost_noti`: a committed change may never be announced (`cts-utils.c:307`).
- `contact_images`: clearing the thumbnail while setting the full image stores the
  full image as the thumbnail (`cts-contact-write.c:2041`).

The others were met while modelling.  Where a constant is named in parentheses the
passing runs leave the case out, and changing it shows it; the others are in the runs,
whose properties say what stays true (a failing ROLLBACK, a late relation, a request
that cannot be read, a refused record, a favorite number, texts with separators), or
are listed under *Abstractions* or *Not modelled*:

- With two threads, `contacts_svc_end_trans(false)` that is not the last one open is
  forgotten, and the rest commits (`cts-utils.c:268`; `cts-utils.h:102`); and
  `end_trans` may return a version that another thread has not committed yet
  (`SyncNeverMisses` with `Threads = {t1, t2}`).
- A ROLLBACK that fails leaves the transaction open with a count of zero: the process
  keeps the write lock, and none of its transactions begins any more
  (`cts-utils.c:276, 300`).  A SELECT of the version that fails is not noticed: the
  batch is stamped from the error code, and `end_trans` returns a negative number of a
  transaction it committed (`cts-utils.c:235`; `"version"` in `Faults` of
  `TransNested.cfg`: `SyncNeverMisses`).
- A group relation set by a call that read the contact before another process deleted
  it stays without a contact (`cts-group.c:384`) until its group is deleted.
- `contacts_svc_delete_group_with_members` leaves no deletion records of the
  contacts (`Calls` of `StoreSync.cfg`); the deletion record of a group selects its
  address book after the group is gone (`ByBook = TRUE`, `GroupsSynced`); the reset
  of the internal address book leaves contacts of other books without their person
  (`"reset_internal"` in `StoreLinks.cfg`, `PrimaryExists`).
- A request whose attachments the helper cannot read gets no reply
  (`helper-socket.c:112, 153, 181, 206`): the thread that asked waits for ever with
  `CTS_MUTEX_SOCKET_FD`, and if it inserts a contact, with the write lock.
- A record whose insertion fails is missing in an import that commits and reports
  success (`sim.c:313-319`), and what its nested transaction had inserted commits too,
  because an inner `end_trans(false)` is forgotten.
- The service numbers and an import at the same time share the statics of `sim.c`
  (`"sdn"` with `"import"`: `CallbacksCounted`, `ImportTransaction` and
  `ImportIsAtomic` fail, `RepliesInStep` and `RequestsAnswered` hold).
- A SIM import whose record cannot be read is rolled back and answered
  CTS_SUCCESS (`sim.c:355`).  A collation update waits for a writer that waits for
  the helper to normalise its name (`"region"` with `"insert"`: `RequestsAnswered`).
  An import for a SIM that is not ready is never answered (`"not_ready"`), a
  collation key that fails is answered twice (`"collate"`: `RepliesInStep`), and a
  card that is busy keeps the library open (`"card_busy"`: `CallbacksCounted`).
- A stored number whose text is set to NULL stays the contact's default although
  its row is deleted
  (`Habits = {"clear"}`: `DefaultIsOwn`, `cts-contact-write.c:626`); an insertion
  that failed leaves ids in the struct, and its retry loses the items
  (`Habits = {"again"}`: `WrittenIsStored`).  An added number that is marked but
  has no text is not stored, yet counts as a marked one: the first new mobile number
  becomes the default although an item with a row is marked
  (`cts-contact-write.c:1107-1193`; `DefaultChosen` excepts it, its second conjunct
  without the condition on `marked` fails with `MaxCalls = 8`).  An image that replaces another is
  unlinked before the copy (`cts-utils.c:669`).
- An incoming e-mail with a related person raises the person's outgoing count
  (`cts-phonelog.c:186-189`; `cts-list.h:280`), and `related_id` is a contact's id
  in `cts-struct.h:630` but is compared with a person's in `cts-list.h:118`.  A
  number that ends inside its country code is read past its end; `+39 0...` does
  not match the same number without the code; a person who has a number twice gets
  its entries twice; set_seen with an index does not look at the type the entry has.
- A number that is a favorite has `data3 = 1`, and 0 when it is none any more: the
  triggers of `favorites` overwrite the key of the number (`schema.sql:208, 213`), and
  the lists of the log no longer find the contact by it.  `contacts_svc_set_favorite`
  with `CTS_FAVOR_NUMBER` inserts the ids of the person's contacts where the trigger
  expects that of a number (`cts-favorite.c:60-62`; `cts-favorite.h:50`), so the row it
  marks need not even be a number of that person.
- vCard (`Plain` and `AllPlain` of `CtsVcardProps` are the condition): nothing but the
  breaks of a note is escaped, so `;`, `,`, a break or a leading blank inside a text is
  read as the format's own, and in N, FN, TEL, EMAIL, ORG, NOTE, ADR and URL what
  precedes the first colon is lost (`cts-vcard-file.c:407-421`).  A day below 10 is
  written with `%d` and read as a date of seven digits.  `contacts_svc_vcard_count`
  counts every END, `contacts_svc_vcard_foreach` only one that closes a card.  Types
  of web addresses are not written, postal types are searched in the text of the
  first component, TITLE, ROLE and UID keep their parameters, and
  `contacts_svc_vcard_get_content` does not advance past a type it finds inside a
  line (`cts-vcard.c:380`).
- An update that adds a company tests a result that was never set, and a failing INSERT
  of the company is not noticed (`cts-contact-write.c:514`).
- Two threads that disconnect last at once both see a count of one
  (`cts-service.c:88`).

## Abstractions

- `CtsStore`: names, data rows, images and times are left out.  Which contact
  becomes the new primary one is "first by name" in the code and any one in the
  model; that no contact of the person has a name, so that the deletion fails, is
  possible too.  A call that fails leaves the database as it was; where the guard
  of an action is the condition under which a statement violates a key, the failing
  call is a stutter.  Programs pass ids they find in the database when they call.
  One update changes at most one group relation.  `group_relations_log` is written
  but left out: only its own list reads it.
- `CtsTransaction`: programs end each transaction they begin, one thread running
  both ends.
- `CtsContact`: one program writes at a time; other callers' deletions and
  `put_contact_value` fall between its calls.  Images are paths, their files are
  not modelled.  The copy of a number shares its `added_type` with the original
  (`cts-struct-ext.c:477-491`), which no code ever sets.  An INSERT or UPDATE of `data`
  does not fail.
- `CtsHelper`: the helper does not die; `read()` of a closed socket returns 0 and
  the reader's loop would spin for ever (`cts-socket.c:52`).  `tel_deinit` does not
  fail (if it does, `sim.c:69-71` returns before the count goes down), and a record of
  TAPI carries its data (a NULL is used at `sim.c:352`).
- `CtsClient`: a failure of the second `inotify_add_watch` of a call
  (`cts-inotify.c:144-146, 186`) is left out, and so is one of the name settings that
  comes after another has succeeded (`cts-utils.c:366-374`).
- `CtsPhonelog`: the lists are functions from entries to the contact shown; their
  order by time is left out.
- `CtsVcard`: texts are short and of one letter, blanks, colons, semicolons, commas and
  breaks; a backslash in a note, which `g_strcompress` would interpret, is left out.  A
  card that exceeds CTS_VCARD_FILE_MAX_SIZE before it is folded (the test at
  `cts-vcard-file.c:1777` is of an unsigned difference, true only when it is zero) is
  left out; one that exceeds it folded is refused.

## Not modelled

- The recovery of the schema, language change and hash of the helper
  (`helper/schema-recovery.c`, `helper/localize.c`): scripts over ICU and SQLite.
- ICU normalisation and collation keys: a choice of the helper in `CtsHelper`.
- Speed dials, the order of favorites, and number favorites but for what they do to
  the keys of numbers; my profile;
  `group_relations_log`; the grouping lists of the phone log (SQLite chooses the
  bare columns), `get_phonelog`, `get_last_number`, `get_all_number`.
- vCard charsets (iconv), the photo's bytes, REV, group relations,
  `put_content` and `get_content`; `contacts_svc_replace_by_vcard` is the merge of
  `CtsContact`.
- Getters, messenger tables (`cts-im.c`), iterators over lists and filters that
  only build SQL text; the handles of SQLite and of thread-local storage.

## Plan

Done: the modules above.  What would add most next:

1. Favorites: the rows of `favorites`, speed dials and the order of favorites
   (`cts-favorite.c`), with the triggers on `data`.
2. A composition of `CtsHelper` and `CtsTransaction` in which the import's
   transaction is the helper's own nested one.
3. A helper that dies and is restarted.
