-------------------------- MODULE CtsContactProps --------------------------
(***************************************************************************)
(* What a program may rely on about its structs and what is stored.        *)
(***************************************************************************)
EXTENDS CtsContact

\* Where a value is an item: of which struct, of which list, and at which
\* position of it.
HeldBy(p) ==
  UNION {{s} \X {x \in Slots(struct[s].list) : struct[s].list[x[1]][x[2]] = p} :
         s \in {t \in Structs : struct[t] # Null}}

\* A value that a struct has taken is an item of one list of one struct, and
\* every item is allocated: no legal sequence of calls of cts-struct.c and
\* cts-struct-ext.c frees a value twice, leaks it or leaves it dangling.
OwnedOnce ==
  \A p \in Pointers :
    Cardinality(HeldBy(p)) = IF value[p] # Null /\ value[p].embedded THEN 1 ELSE 0

Wrote(s) == last.what # "edit" /\ last.struct = s /\ last.ok
TextsOf(ids) == {row[i].text : i \in ids}

\* After contacts_svc_insert_contact or contacts_svc_update_contact succeeds,
\* the rows of the contact are the items of the struct that are not deleted.
WrittenIsStored ==
  \A s \in Structs : Wrote(s) =>
    LET x == struct[s] IN
    /\ \A k \in Kinds :
         LET live == Written(value, x.list[k])
             ids == RowsOf(x.base, k)
         IN /\ Cardinality(ids) = Len(live)
            /\ TextsOf(ids) = {value[p].text : p \in Range(live)}
            /\ k \in Defaults => \A p \in Range(live) :
                 value[p].id \in ids /\ row[value[p].id].text = value[p].text
    /\ TextsOf(RowsOf(x.base, "company"))
         = {x.company.text : u \in IF x.company = Null THEN {} ELSE {1}} \ {Null}

\* The default number and e-mail of a contact are rows of that contact, through
\* insertions, updates, merges, copies, put_contact_value and deletions.
DefaultIsOwn ==
  \A c \in DOMAIN contact, k \in Defaults :
    contact[c].def[k] # 0 => contact[c].def[k] \in RowsOf(c, k)

\* After a contact was written it has a default number if it has a number, and
\* the default is an item the program marked if it marked one.  A number that is
\* marked, added and has no text makes the first new mobile number the default.
DefaultChosen ==
  \A s \in Structs : Wrote(s) => \A k \in Kinds \cap Defaults :
    LET x == struct[s]
        def == contact[x.base].def[k]
        marked(list) == {p \in Range(list) : value[p].def}
        ids == {value[p].id : p \in marked(Written(value, x.list[k]))}
    IN /\ RowsOf(x.base, k) # {} => def # 0
       /\ ids # {} /\ marked(Live(value, x.list[k])) = marked(Written(value, x.list[k])) =>
            def \in ids

\* The naming rule of cts-contact.h: a contact that was written without a first
\* and last name shows its company, else its first number, else its first
\* e-mail address; an inserted one may have a display name of the program's.
DisplayShown ==
  \A s \in Structs : Wrote(s) =>
    LET c == struct[s].base
        name == row[Min(RowsOf(c, "name"))]
        first(k) == IF RowsOf(c, k) = {} THEN Null ELSE row[Min(RowsOf(c, k))].text
        rule == IF RowsOf(c, "company") # {} THEN first("company")
                ELSE IF first("number") # Null THEN first("number") ELSE first("email")
    IN name.text = Null =>
         name.display = rule \/ (last.what = "insert" /\ name.display # Null)

\* The thumbnail of a contact is never its full screen image.
ImagesStored ==
  \A s \in Structs : Wrote(s) =>
    \A i \in Images : contact[struct[s].base].image[i] \in {Null, struct[s].image[i]}
=============================================================================
