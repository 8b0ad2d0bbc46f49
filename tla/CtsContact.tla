---------------------------- MODULE CtsContact ----------------------------
(***************************************************************************)
(* The contact structs of a program and the rows they are written to and   *)
(* read from: values and lists (cts-struct.c), merge and duplicate         *)
(* (cts-struct-ext.c), insertion and update (cts-contact-write.c), reading *)
(* (cts-contact-read.c).  A pointer is the number of a value, NULL in a    *)
(* list is 0.  "web" stands for the lists without a default: events,       *)
(* messengers, postal and web addresses, nicknames and extended values     *)
(* are each a copy of the same code.                                       *)
(***************************************************************************)
EXTENDS Integers, Sequences, FiniteSets, FiniteSetsExt, Functions

CONSTANTS
  Structs,      \* structs the program may hold at a time
  Kinds,        \* kinds of lists, of "number", "email", "web"
  Inputs,       \* values the program makes: [kind, text, cell, def]
  Names,        \* names it stores: [given, display]
  Stored,       \* databases it may find: [row, contact], both sequences
  Texts,        \* texts, companies and paths
  Paths,        \* image paths it stores
  Habits,       \* what it does beyond the documented use of a struct
  MaxValues, MaxRows, MaxContacts, MaxCalls, \* bounds
  Null

VARIABLES
  value,   \* [pointer -> value, or Null when it is not allocated]
  struct,  \* [struct -> contents, or Null]; use is how it relates to its contact:
           \* not stored, as read, changed since or merged into another
  row,     \* rows of data: id -> [contact, kind, text, cell, display]
  contact, \* rows of contacts: id -> [def, image]
  lastrow, lastcontact, \* sqlite_sequence
  last,    \* the last insertion or update: [what, struct, ok], or an edit
  calls

objects == <<value, struct>>
database == <<row, contact, lastrow, lastcontact>>
vars == <<objects, database, last, calls>>

Pointers == 1..MaxValues
Images == {0, 1}                \* CTS_IMG_NORMAL, CTS_IMG_FULL
Defaults == {"number", "email"} \* default_num, default_email
NoDefault == [k \in Defaults |-> 0]
NoImage == [i \in Images |-> Null]

\* A value, the contents of a struct, a row of data and a row of contacts.
Values ==
  [kind : Kinds, id : 0..MaxRows, text : Texts \cup {Null}, cell : BOOLEAN, def : BOOLEAN,
   deleted : BOOLEAN, embedded : BOOLEAN]
Contents ==
  [base : 0..MaxContacts,
   name : {Null} \cup [id : 0..MaxRows, given : BOOLEAN, display : Texts \cup {Null}, changed : BOOLEAN],
   company : {Null} \cup [id : 0..MaxRows, text : Texts \cup {Null}],
   list : [Kinds -> Seq(0..MaxValues)], def : [Defaults -> 0..MaxRows],
   image : [Images -> Paths \cup {Null}], changed : SUBSET Images,
   use : {"new", "read", "spent", "merged"}]
DataRows ==
  [contact : 1..MaxContacts, kind : {"name"}, text : Texts \cup {"given", Null}, cell : BOOLEAN,
   display : Texts \cup {Null}]
  \cup [contact : 1..MaxContacts, kind : {"company"} \cup Kinds, text : Texts, cell : BOOLEAN,
        display : Texts \cup {Null}]
ContactRows == [def : [Defaults -> 0..MaxRows], image : [Images -> Paths \cup {Null}]]

ASSUME ConstantsAssumption ==
  /\ MaxValues \in Nat /\ MaxRows \in Nat /\ MaxContacts \in Nat
  /\ Kinds \subseteq {"number", "email", "web"} /\ Habits \subseteq {"again", "clear"}
  /\ Inputs \subseteq [kind : Kinds, text : Texts, cell : BOOLEAN, def : BOOLEAN]
  /\ Names \subseteq [given : BOOLEAN, display : Texts \cup {Null}]
  /\ Null \notin Values \cup Contents \cup Texts \cup Structs
  /\ Null \notin [id : 0..MaxRows, given : BOOLEAN, display : Texts \cup {Null}, changed : BOOLEAN]
  /\ Null \notin [id : 0..MaxRows, text : Texts \cup {Null}] /\ Null # "given"

\* What a program finds: each contact with its name and at most one company, and
\* its defaults are rows of it.
ASSUME StoredAssumption ==
  \A found \in Stored :
    LET rows == found.row
        contacts == found.contact
        of(c, k) == {i \in DOMAIN rows : rows[i].contact = c /\ rows[i].kind = k} IN
    /\ \E n \in 0..MaxRows : rows \in [1..n -> DataRows]
    /\ \E n \in 0..MaxContacts : contacts \in [1..n -> ContactRows]
    /\ \A i \in DOMAIN rows : rows[i].contact \in DOMAIN contacts
    /\ \A c \in DOMAIN contacts :
         /\ of(c, "name") # {} /\ \A i, j \in of(c, "company") : i = j
         /\ \A k \in Defaults : contacts[c].def[k] \in of(c, k) \cup {0}

TypeOK ==
  /\ value \in [Pointers -> {Null} \cup {v \in Values : v.deleted => v.embedded}]
  /\ struct \in [Structs -> {Null} \cup Contents]
  /\ lastrow <= MaxRows /\ DOMAIN row \subseteq 1..lastrow
  /\ \A i \in DOMAIN row : row[i] \in DataRows
  /\ lastcontact <= MaxContacts /\ DOMAIN contact \subseteq 1..lastcontact
  /\ \A c \in DOMAIN contact : contact[c] \in ContactRows

Init ==
  /\ value = [p \in Pointers |-> Null] /\ struct = [s \in Structs |-> Null]
  /\ \E found \in Stored :
       /\ row = found.row /\ contact = found.contact
       /\ lastrow = Len(found.row) /\ lastcontact = Len(found.contact)
  /\ last = [what |-> "edit"]
  /\ calls = 0

Calling == calls < MaxCalls /\ calls' = calls + 1
Edited == Calling /\ last' = [what |-> "edit"]
Called(what, s, ok) == last' = [what |-> what, struct |-> s, ok |-> ok]

\* The n-th of a set of numbers, and the items of a list at some positions.
Nth(numbers, n) == CHOOSE i \in numbers : Cardinality({j \in numbers : j <= i}) = n
Sublist(list, positions) == [n \in 1..Cardinality(positions) |-> list[Nth(positions, n)]]

-----------------------------------------------------------------------------
(* cts-struct.c.                                                            *)

\* calloc and free of a value.
Free == {p \in Pointers : value[p] = Null}
Freed(val, ps) == [p \in Pointers |-> IF p \in ps THEN Null ELSE val[p]]

Embed(val, ps) ==
  [p \in Pointers |-> IF p \in ps THEN [val[p] EXCEPT !.embedded = TRUE] ELSE val[p]]

\* contacts_svc_value_new and the set calls that fill it in.
NewValue(in) ==
  /\ Edited
  /\ Free # {}
  /\ value' = [value EXCEPT ![Nth(Free, 1)] =
       [kind |-> in.kind, id |-> 0, text |-> in.text, cell |-> in.cell, def |-> in.def,
        deleted |-> FALSE, embedded |-> FALSE]]
  /\ UNCHANGED <<struct, database>>

\* contacts_svc_value_free: the value of a struct is not freed.
FreeValue(p) ==
  /\ Edited
  /\ value[p] # Null /\ ~value[p].embedded
  /\ value' = Freed(value, {p})
  /\ UNCHANGED <<struct, database>>

\* contacts_svc_struct_new.
Empty == [base |-> 0, name |-> Null, company |-> Null, list |-> [k \in Kinds |-> <<>>],
          def |-> NoDefault, image |-> NoImage, changed |-> {}, use |-> "new"]

NewStruct(s) ==
  /\ Edited
  /\ struct[s] = Null
  /\ struct' = [struct EXCEPT ![s] = Empty]
  /\ UNCHANGED <<value, database>>

\* cts_contact_free: the items that cts_number_free and its like free.
ItemsOf(s) == (UNION {Range(struct[s].list[k]) : k \in Kinds}) \ {0}

FreeStruct(s) ==
  /\ Edited
  /\ struct[s] # Null
  /\ value' = Freed(value, {p \in ItemsOf(s) : value[p] # Null /\ value[p].embedded})
  /\ struct' = [struct EXCEPT ![s] = Null]
  /\ UNCHANGED database

Usable(s) == struct[s] # Null /\ struct[s].use # "merged"

\* contacts_svc_struct_get_list, a new value appended to the list it returns,
\* and contacts_svc_struct_store_list of that list: items that were never
\* written and are deleted leave it.
Dropped(s, k) == {p \in Range(struct[s].list[k]) : p # 0 /\ value[p].id = 0 /\ value[p].deleted}

StoreOwn(s, k, added) ==
  /\ Edited
  /\ Usable(s) /\ struct[s].list[k] # <<>>
  /\ LET dropped == Dropped(s, k) IN
     /\ value' = Freed(Embed(value, Range(added)), dropped)
     /\ struct' = [struct EXCEPT ![s].list[k] =
          Sublist(@, {i \in DOMAIN @ : @[i] \notin dropped}) \o added]
  /\ UNCHANGED database

\* Mutant: values of another struct are stored too.
MutNotStored(list) == list

\* contacts_svc_struct_store_list of a list the program made: values that
\* belong to a struct are skipped, the others are appended.
NotStored(list) == Sublist(list, {i \in DOMAIN list : ~value[list[i]].embedded})

StoreList(s, k, list) ==
  /\ Edited
  /\ Usable(s)
  /\ LET new == NotStored(list) IN
     /\ value' = Embed(value, Range(new))
     /\ struct' = [struct EXCEPT ![s].list[k] = @ \o new]
  /\ UNCHANGED database

\* contacts_svc_struct_store_value of a name that was just made and filled in:
\* the struct takes it, or the name it has copies its strings.
StoreName(s, n) ==
  /\ Edited
  /\ Usable(s)
  /\ struct' = [struct EXCEPT ![s].name =
       [id |-> IF @ = Null THEN 0 ELSE @.id, given |-> n.given, display |-> n.display,
        changed |-> TRUE]]
  /\ UNCHANGED <<value, database>>

StoreCompany(s, t) ==
  /\ Edited
  /\ Usable(s)
  /\ struct' = [struct EXCEPT ![s].company = [id |-> IF @ = Null THEN 0 ELSE @.id, text |-> t]]
  /\ UNCHANGED <<value, database>>

\* The same of the base information, with one image set.
StoreImage(s, i, path) ==
  /\ Edited
  /\ Usable(s)
  /\ struct' = [struct EXCEPT ![s].image[i] = path, ![s].changed = @ \cup {i}]
  /\ UNCHANGED <<value, database>>

\* contacts_svc_value_set_str; "" is stored as NULL.
SetStr(p, t) ==
  /\ Edited
  /\ value[p] # Null /\ t # value[p].text
  /\ t = Null /\ value[p].id # 0 => "clear" \in Habits
  /\ value' = [value EXCEPT ![p].text = t]
  /\ UNCHANGED <<struct, database>>

\* contacts_svc_value_steal_str: the string is the program's.
StealStr(p) == value[p] # Null /\ value[p].text # Null /\ SetStr(p, Null)

\* contacts_svc_value_set_bool of the default field.
SetDefault(p, b) ==
  /\ Edited
  /\ value[p] # Null /\ value[p].kind \in Defaults /\ value[p].def # b
  /\ value' = [value EXCEPT ![p].def = b]
  /\ UNCHANGED <<struct, database>>

\* The same of the delete field, which only the values of a struct have.
SetDeleted(p, b) ==
  /\ Edited
  /\ value[p] # Null /\ value[p].embedded /\ value[p].deleted # b
  /\ value' = [value EXCEPT ![p].deleted = b]
  /\ UNCHANGED <<struct, database>>

-----------------------------------------------------------------------------
(* cts-struct-ext.c.                                                        *)

\* cts_merge_vcard_numbers: the positions of the items that are moved, those
\* with a text that no item of the list has, nor one before them.
Moves(orig, addition) ==
  {j \in DOMAIN addition :
     LET text == value[addition[j]].text
         before == Range(orig) \cup {addition[i] : i \in 1..(j - 1)}
     IN text # Null /\ \A q \in before \ {0} : value[q].deleted \/ value[q].text # text}

\* Mutant: the item stays in the list it came from as well.
MutRest(addition, moved) == addition

\* An item that is moved leaves a NULL behind.
Rest(addition, moved) == [j \in DOMAIN addition |-> IF j \in moved THEN 0 ELSE addition[j]]

MergeList(orig, addition) ==
  LET moved == Moves(orig, addition) IN
  IF orig = <<>> THEN [orig |-> addition, rest |-> <<>>]
  ELSE [orig |-> orig \o Sublist(addition, moved), rest |-> Rest(addition, moved)]

\* cts_merge_vcard_name.
MergeName(n, m) ==
  IF n = Null \/ m = Null THEN IF n = Null THEN m ELSE n
  ELSE [n EXCEPT !.given = @ \/ m.given,
                 !.display = IF @ = Null THEN m.display ELSE @,
                 !.changed = @ \/ (~n.given /\ m.given) \/ (n.display = Null /\ m.display # Null)]

\* cts_merge_vcard_company.
MergeCompany(c, d) ==
  IF c = Null \/ d = Null THEN IF c = Null THEN d ELSE c
  ELSE [c EXCEPT !.text = IF @ = Null THEN d.text ELSE @]

\* cts_merge_vcard_base: an image is marked changed although there was none to
\* take.
MergeImages(a, b) == [i \in Images |-> IF a.image[i] = Null THEN b.image[i] ELSE a.image[i]]
MergeChanged(a, b) ==
  IF a.base = 0 THEN b.changed ELSE a.changed \cup {i \in Images : a.image[i] = Null}

\* contacts_svc_struct_merge: s takes what it lacks from t, which the program
\* may only free.  A struct that got rows of another contact is not updated.
Merge(s, t) ==
  /\ Edited
  /\ Usable(s) /\ Usable(t) /\ s # t
  /\ LET a == struct[s]
         b == struct[t]
         merged == [k \in Kinds |-> MergeList(a.list[k], b.list[k])]
     IN struct' = [struct EXCEPT
          ![s] = [base |-> IF a.base = 0 THEN b.base ELSE a.base,
                  name |-> MergeName(a.name, b.name), company |-> MergeCompany(a.company, b.company),
                  list |-> [k \in Kinds |-> merged[k].orig], def |-> a.def,
                  image |-> MergeImages(a, b), changed |-> MergeChanged(a, b),
                  use |-> IF b.use = "new" THEN a.use ELSE "spent"],
          ![t].list = [k \in Kinds |-> merged[k].rest], ![t].use = "merged"]
  /\ UNCHANGED <<value, database>>

\* cts_struct_dup_list and the lists of contacts_svc_get_contact: every item
\* is a new value.
Slots(made) == UNION {{k} \X DOMAIN made[k] : k \in Kinds}
Places(made) == {f \in [Slots(made) -> Free] : IsInjective(f)}

Allocate(made) ==
  LET at == CHOOSE f \in Places(made) : TRUE
  IN [list |-> [k \in Kinds |-> [i \in DOMAIN made[k] |-> at[<<k, i>>]]],
      value |-> [p \in Pointers |->
        IF p \in Range(at)
        THEN LET slot == CHOOSE x \in Slots(made) : at[x] = p IN made[slot[1]][slot[2]]
        ELSE value[p]]]

\* The copies keep the ids of the rows.
Copies(list) == [i \in DOMAIN list |-> value[list[i]]]

\* contacts_svc_struct_duplicate.
Duplicate(s, t) ==
  /\ Edited
  /\ Usable(s) /\ struct[t] = Null
  /\ LET made == [k \in Kinds |-> Copies(struct[s].list[k])]
     IN /\ Places(made) # {}
        /\ value' = Allocate(made).value
        /\ struct' = [struct EXCEPT ![t] = [struct[s] EXCEPT !.list = Allocate(made).list]]
  /\ UNCHANGED database

-----------------------------------------------------------------------------
(* cts-contact-write.c.  A data state is [row, last, value, def] while the  *)
(* rows of a struct are written.                                            *)

Row(c, k, t, cell, display) ==
  [contact |-> c, kind |-> k, text |-> t, cell |-> cell, display |-> display]
NameRow(c, n) == Row(c, "name", IF n.given THEN "given" ELSE Null, FALSE, n.display)
CompanyRows(c, company) ==
  IF company = Null \/ company.text = Null THEN <<>>
  ELSE <<Row(c, "company", company.text, FALSE, Null)>>

\* Mutant: only one id is taken.
MutTaken(new) == 1

\* The ids of the table that new rows take.
Taken(new) == Len(new)

Added(D, new) ==
  [D EXCEPT !.row = [i \in DOMAIN @ \cup (D.last + 1 .. D.last + Len(new)) |->
                       IF i \in DOMAIN @ THEN @[i] ELSE new[i - D.last]],
            !.last = @ + Taken(new)]
Data == [row |-> row, last |-> lastrow, value |-> value, def |-> NoDefault]

Live(val, list) ==
  Sublist(list, {i \in DOMAIN list : list[i] # 0 /\ ~val[list[i]].deleted})
Written(val, list) ==
  Sublist(list, {i \in DOMAIN list :
                   list[i] # 0 /\ ~val[list[i]].deleted /\ val[list[i]].text # Null})

\* Mutant: the last mobile number.
MutNewDefault(val, k, new, n) ==
  LET cell == {i \in DOMAIN new : k = "number" /\ val[new[i]].cell}
  IN IF cell # {} THEN n + Max(cell) ELSE 0

\* What cts_insert_contact_data_number and cts_insert_contact_data_email
\* return: the last row marked as the default, else the first mobile number.
NewDefault(val, k, new, n) ==
  LET marked == {i \in DOMAIN new : val[new[i]].def}
      cell == {i \in DOMAIN new : k = "number" /\ val[new[i]].cell}
  IN IF marked # {} THEN n + Max(marked) ELSE IF cell # {} THEN n + Min(cell) ELSE 0

\* cts_insert_contact_data for one list: only numbers and e-mails learn the id
\* of their row.
InsertList(D, c, k, list) ==
  LET new == Written(D.value, list)
      rows == [i \in DOMAIN new |-> Row(c, k, D.value[new[i]].text, D.value[new[i]].cell, Null)]
      id(p) == D.last + (CHOOSE i \in DOMAIN new : new[i] = p)
      learned == IF k \in Defaults THEN Range(new) ELSE {}
  IN [Added(D, rows) EXCEPT
        !.value = [p \in Pointers |-> IF p \in learned THEN [D.value[p] EXCEPT !.id = id(p)]
                                      ELSE D.value[p]],
        !.def = IF k \in Defaults /\ list # <<>>
                THEN [@ EXCEPT ![k] = NewDefault(D.value, k, new, D.last)] ELSE @]

\* cts_contact_get_valid_first_number_or_email, after the company.
FirstText(list) ==
  LET w == Written(value, list) IN IF w = <<>> THEN Null ELSE value[w[1]].text
Listed(x, k) == IF k \in Kinds THEN x.list[k] ELSE <<>>
Shown(x) ==
  IF x.company # Null /\ x.company.text # Null THEN x.company.text
  ELSE IF FirstText(Listed(x, "number")) # Null THEN FirstText(Listed(x, "number"))
  ELSE FirstText(Listed(x, "email"))

\* cts_insert_contact_handle_no_name.
NamedForInsert(x) ==
  IF x.name = Null THEN [id |-> 0, given |-> FALSE, display |-> Shown(x), changed |-> FALSE]
  ELSE IF x.name.given \/ x.name.display # Null THEN x.name
  ELSE [x.name EXCEPT !.display = Shown(x)]

\* Mutant: a display name that is there is kept.
MutNamedForUpdate(x) ==
  IF x.name = Null THEN [id |-> 0, given |-> FALSE, display |-> Shown(x), changed |-> TRUE]
  ELSE IF x.name.given \/ x.name.display # Null THEN x.name
  ELSE [x.name EXCEPT !.display = Shown(x), !.changed = TRUE]

\* cts_update_contact_handle_no_name: the display name is made again.
NamedForUpdate(x) ==
  IF x.name = Null THEN [id |-> 0, given |-> FALSE, display |-> Shown(x), changed |-> TRUE]
  ELSE IF x.name.given THEN x.name
  ELSE [x.name EXCEPT !.display = Shown(x), !.changed = TRUE]

\* The items that have a row, and those that need one.
WithRow(val, list) ==
  Sublist(list, {i \in DOMAIN list : list[i] # 0 /\ val[list[i]].id # 0})
WithoutRow(val, list) ==
  Sublist(list, {i \in DOMAIN list : list[i] # 0 /\ val[list[i]].id = 0})

\* Mutant: an item that was deleted still has its id.
MutFirstOfAll(val, x, def) ==
  [k \in Defaults |->
     LET l == WithRow(val, Listed(x, k))
     IN IF def[k] # 0 \/ l = <<>> THEN def[k] ELSE val[l[1]].id]

\* Mutant: only when the contact has neither default.
MutFirstForDefault(val, x, def) ==
  IF \E k \in Defaults : def[k] # 0 THEN def
  ELSE [k \in Defaults |-> LET l == WithRow(val, Live(val, Listed(x, k)))
                           IN IF l = <<>> THEN 0 ELSE val[l[1]].id]

\* cts_set_first_id_for_default: the first item that has a row, whether or not
\* it still has a text.
FirstForDefault(val, x, def) ==
  [k \in Defaults |->
     LET l == WithRow(val, Live(val, Listed(x, k)))
     IN IF def[k] # 0 \/ l = <<>> THEN def[k] ELSE val[l[1]].id]

\* cts_insert_contact_data takes the lists in this order.
InsertKind(D, c, k, x) == IF k \in Kinds THEN InsertList(D, c, k, x.list[k]) ELSE D
InsertLists(D, c, x) ==
  InsertKind(InsertKind(InsertKind(D, c, "web", x), c, "number", x), c, "email", x)

\* The other structs that hold contact c no longer match it.
Overtaken(st, s, c) ==
  [t \in Structs |->
     IF t # s /\ st[t] # Null /\ st[t].base = c /\ st[t].use = "read"
     THEN [st[t] EXCEPT !.use = "spent"] ELSE st[t]]

\* A full image that cannot be copied is left out.
Copied(image) == {image, [image EXCEPT ![1] = Null]}

\* contacts_svc_insert_contact: when the thumbnail cannot be copied the rows are
\* rolled back, and the struct keeps the ids it was given.
Insert(s) ==
  /\ Calling
  /\ Usable(s) /\ lastcontact < MaxContacts
  /\ LET x == struct[s]
         c == lastcontact + 1
         n == NamedForInsert(x)
         D == InsertLists(Added([Data EXCEPT !.def = x.def],
                                <<NameRow(c, n)>> \o CompanyRows(c, x.company)), c, x)
         def == FirstForDefault(D.value, x, D.def)
     IN /\ D.last <= MaxRows
        /\ value' = D.value
        /\ struct' = [struct EXCEPT ![s] =
             [x EXCEPT !.base = c, !.name = n, !.def = def, !.use = "spent"]]
        /\ \/ /\ row' = D.row /\ lastrow' = D.last /\ lastcontact' = c
              /\ \E image \in Copied(x.image) :
                   contact' = [i \in DOMAIN contact \cup {c} |->
                     IF i = c THEN [def |-> def, image |-> image] ELSE contact[i]]
              /\ Called("insert", s, TRUE)
           \/ /\ x.image[0] # Null
              /\ UNCHANGED database
              /\ Called("insert", s, FALSE)

-----------------------------------------------------------------------------
(* Update.                                                                  *)

\* Mutant: only an item without a text leaves its row.
MutGone(val, old) == {val[old[n]].id : n \in {m \in DOMAIN old : val[old[m]].text = Null}}

\* The ids of the rows that items leave.
Gone(val, old) ==
  {val[old[n]].id : n \in {m \in DOMAIN old : val[old[m]].deleted \/ val[old[m]].text = Null}}

\* An UPDATE or DELETE of a row that is gone changes nothing, and the last
\* UPDATE of a row counts.
UpdateItems(D, old) ==
  LET gone == Gone(D.value, old)
      of(i) == {n \in DOMAIN old : D.value[old[n]].id = i}
      v(i) == D.value[old[Max(of(i))]]
  IN [D EXCEPT !.row = [i \in DOMAIN @ \ gone |->
        IF of(i) = {} THEN @[i] ELSE [@[i] EXCEPT !.text = v(i).text, !.cell = v(i).cell]]]

\* What cts_update_contact_data_number and its like choose as the default: an
\* item marked as such, the last one added before those that had rows; else
\* the mobile number, an added one before the others.
Chosen(val, k, kept, added, new) ==
  LET marked == {i \in DOMAIN kept : val[kept[i]].def}
      cell == {i \in DOMAIN kept : k = "number" /\ val[kept[i]].cell}
      isAddedMarked == \E i \in DOMAIN added : val[added[i]].def
  IN IF new # 0 /\ (isAddedMarked \/ (marked = {} /\ k = "number")) THEN new
     ELSE IF marked # {} THEN val[kept[Max(marked)]].id
     ELSE IF cell # {} THEN val[kept[Min(cell)]].id ELSE 0

\* cts_update_contact_data_number, _email, _web and so on.
UpdateList(D, c, k, list) ==
  LET old == WithRow(D.value, list)
      added == WithoutRow(D.value, Live(D.value, list))
      E == InsertList([UpdateItems(D, old) EXCEPT !.def = NoDefault], c, k, added)
      def == Chosen(D.value, k, Written(D.value, old), added, IF k \in Defaults THEN E.def[k] ELSE 0)
  IN [E EXCEPT !.def = IF k \in Defaults /\ list # <<>> THEN [D.def EXCEPT ![k] = def] ELSE D.def]

\* cts_update_contact_data, in the same order.
UpdateKind(D, c, k, x) == IF k \in Kinds THEN UpdateList(D, c, k, x.list[k]) ELSE D
UpdateLists(D, c, x) ==
  UpdateKind(UpdateKind(UpdateKind(D, c, "web", x), c, "number", x), c, "email", x)

UpdateName(D, n) ==
  IF n.changed /\ n.id \in DOMAIN D.row
  THEN [D EXCEPT !.row[n.id] = NameRow(@.contact, n)] ELSE D

\* The company: a new one is inserted, an empty one deleted.
UpdateCompany(D, c, company) ==
  IF company = Null THEN D
  ELSE IF company.id = 0 THEN Added(D, CompanyRows(c, company))
  ELSE IF company.text = Null THEN [D EXCEPT !.row = Restrict(@, DOMAIN @ \ {company.id})]
  ELSE IF company.id \notin DOMAIN D.row THEN D
  ELSE [D EXCEPT !.row[company.id].text = company.text]

\* The parameters of the UPDATE of contacts: after a thumbnail that is cleared
\* the index does not move on, and the full image is bound in its place.
ImagesBound(x, old) ==
  IF x.changed = Images /\ x.image[0] = Null THEN [NoImage EXCEPT ![0] = x.image[1]]
  ELSE [i \in Images |-> IF i \in x.changed THEN x.image[i] ELSE old[i]]

\* contacts_svc_update_contact of a contact that is gone, of one whose name has
\* no row, or of one that gets a company: cts_insert_contact_data then tests a
\* result that was never set, and the update may be rolled back.
UpdateRefused(s) ==
  /\ Calling
  /\ Usable(s) /\ struct[s].base # 0
  /\ LET x == struct[s]
         n == NamedForUpdate(x)
     IN \/ /\ x.base \notin DOMAIN contact
           /\ UNCHANGED struct
        \/ /\ x.base \in DOMAIN contact
           /\ (n.changed /\ n.id = 0) \/ (x.company # Null /\ x.company.id = 0)
           /\ struct' = [struct EXCEPT ![s].name = n, ![s].use = "spent"]
  /\ Called("update", s, FALSE)
  /\ UNCHANGED <<value, database>>

\* contacts_svc_update_contact: when the thumbnail cannot be copied the rows are
\* rolled back, and the struct keeps the ids it was given.
Update(s) ==
  /\ Calling
  /\ Usable(s) /\ struct[s].base \in DOMAIN contact
  /\ struct[s].use = "read" \/ "again" \in Habits
  /\ LET x == struct[s]
         c == x.base
         n == NamedForUpdate(x)
         D == UpdateLists(UpdateCompany(UpdateName([Data EXCEPT !.def = x.def], n), c, x.company),
                          c, x)
         def == FirstForDefault(D.value, x, D.def)
         written == [struct EXCEPT ![s] = [x EXCEPT !.name = n, !.def = def, !.use = "spent"]]
     IN /\ n.changed => n.id # 0
        /\ D.last <= MaxRows
        /\ value' = D.value
        /\ \/ /\ struct' = Overtaken(written, s, c)
              /\ row' = D.row /\ lastrow' = D.last /\ UNCHANGED lastcontact
              /\ \E image \in Copied(ImagesBound(x, contact[c].image)) :
                   contact' = [contact EXCEPT ![c] = [def |-> def, image |-> image]]
              /\ Called("update", s, TRUE)
           \/ /\ 0 \in x.changed /\ x.image[0] # Null
              /\ struct' = written
              /\ UNCHANGED database
              /\ Called("update", s, FALSE)

\* contacts_svc_put_contact_value: the row is added even if the contact is gone.
Put(c, p) ==
  /\ Edited
  /\ value[p] # Null /\ value[p].kind \in Defaults /\ value[p].text # Null
  /\ lastrow < MaxRows
  /\ LET v == value[p]
         D == Added(Data, <<Row(c, v.kind, v.text, v.cell, Null)>>)
     IN /\ row' = D.row /\ lastrow' = D.last
        /\ contact' = IF v.def /\ c \in DOMAIN contact
                      THEN [contact EXCEPT ![c].def[v.kind] = D.last] ELSE contact
  /\ struct' = Overtaken(struct, Null, c)
  /\ UNCHANGED <<value, lastcontact>>

\* contacts_svc_delete_contact and its trigger.
Delete(c) ==
  /\ Edited
  /\ contact' = Restrict(contact, DOMAIN contact \ {c})
  /\ row' = Restrict(row, {i \in DOMAIN row : row[i].contact # c})
  /\ struct' = Overtaken(struct, Null, c)
  /\ UNCHANGED <<value, lastrow, lastcontact>>

-----------------------------------------------------------------------------
(* cts-contact-read.c.                                                      *)

RowsOf(c, k) == {i \in DOMAIN row : row[i].contact = c /\ row[i].kind = k}

\* cts_get_data_info_number, _email and _web.
Item(c, k, i) ==
  [kind |-> k, id |-> i, text |-> row[i].text, cell |-> row[i].cell,
   def |-> k \in Defaults /\ contact[c].def[k] = i, deleted |-> FALSE, embedded |-> TRUE]

ReadName(c) ==
  IF RowsOf(c, "name") = {} THEN Null
  ELSE LET i == Min(RowsOf(c, "name"))
       IN [id |-> i, given |-> row[i].text # Null, display |-> row[i].display, changed |-> FALSE]
ReadCompany(c) ==
  IF RowsOf(c, "company") = {} THEN Null
  ELSE LET i == Min(RowsOf(c, "company")) IN [id |-> i, text |-> row[i].text]

\* contacts_svc_get_contact.
Get(s, c) ==
  /\ Edited
  /\ struct[s] = Null /\ c \in DOMAIN contact
  /\ LET made == [k \in Kinds |-> [j \in 1..Cardinality(RowsOf(c, k)) |->
                    Item(c, k, Nth(RowsOf(c, k), j))]]
     IN /\ Places(made) # {}
        /\ value' = Allocate(made).value
        /\ struct' = [struct EXCEPT ![s] =
             [base |-> c, name |-> ReadName(c), company |-> ReadCompany(c),
              list |-> Allocate(made).list, def |-> contact[c].def, image |-> contact[c].image,
              changed |-> {}, use |-> "read"]]
  /\ UNCHANGED database

-----------------------------------------------------------------------------
Loose(k) == {p \in Pointers : value[p] # Null /\ value[p].kind = k /\ ~value[p].embedded}
OfKind(k) == {p \in Pointers : value[p] # Null /\ value[p].kind = k}

StoreNext(s) ==
  \/ \E n \in Names : StoreName(s, n)
  \/ \E t \in Texts \cup {Null} : StoreCompany(s, t)
  \/ \E i \in Images, path \in Paths \cup {Null} : StoreImage(s, i, path)
  \/ \E k \in Kinds : \E added \in {<<>>} \cup {<<p>> : p \in Loose(k)} : StoreOwn(s, k, added)
  \/ \E k \in Kinds : \E p, q \in OfKind(k) : StoreList(s, k, IF p = q THEN <<p>> ELSE <<p, q>>)

ValueNext ==
  \/ \E in \in Inputs : NewValue(in)
  \/ \E p \in Pointers :
       \/ FreeValue(p)
       \/ StealStr(p)
       \/ \E t \in Texts \cup {Null} : SetStr(p, t)
       \/ \E b \in BOOLEAN : SetDefault(p, b) \/ SetDeleted(p, b)

StructNext(s) ==
  \/ NewStruct(s) \/ FreeStruct(s)
  \/ \E t \in Structs : Merge(s, t) \/ Duplicate(s, t)
  \/ Update(s) \/ UpdateRefused(s) \/ Insert(s)
  \/ \E c \in DOMAIN contact : Get(s, c)

Next ==
  \/ ValueNext
  \/ \E s \in Structs : StoreNext(s) \/ StructNext(s)
  \/ \E c \in 1..lastcontact, p \in Pointers : Put(c, p)
  \/ \E c \in DOMAIN contact : Delete(c)

Spec == Init /\ [][Next]_vars
=============================================================================
