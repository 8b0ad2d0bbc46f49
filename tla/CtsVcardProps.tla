---------------------------- MODULE CtsVcardProps ----------------------------
(***************************************************************************)
(* What a program that exports and imports contacts may rely on.           *)
(***************************************************************************)
EXTENDS CtsVcard

\* What of a contact a card carries: the items that have a text, the name a
\* contact without a display name shows, no language, no types of web addresses.
Full(items) == SelectSeq(items, LAMBDA i : i.text # <<>>)
FullPostals(postals) == SelectSeq(postals, LAMBDA p : \E n \in 1..7 : p.text[n] # <<>>)
Carried(c) ==
  [c EXCEPT
     !.display = DisplayOf(c), !.lang = "default",
     !.postals = FullPostals(@), !.numbers = Full(@), !.emails = Full(@),
     !.webs = [i \in 1..Len(Full(@)) |-> [types |-> {}, text |-> Full(@)[i].text]],
     !.nicks = SelectSeq(@, LAMBDA n : n # <<>>),
     !.events = SelectSeq(@, LAMBDA e : e.date # <<>>)]

\* The text can be read back.  cts_vcard_make escapes nothing but the breaks of a
\* note: what separates the parts of a value, a break and a space or a colon at
\* its beginning are taken for the format's own.
Plain(text, separators) ==
  /\ ToSet(text) \cap (separators \cup {"CR", "LF"}) = {}
  /\ text # <<>> => Head(text) \notin {" ", ":"}

\* All of the contact can be: its texts, and its dates, of which the first nine
\* days of a month lose a digit.
AllPlain(c) ==
  /\ \A i \in 1..5 : Plain(c.name[i], {":", ";"})
  /\ Plain(c.display, {":"})
  /\ \A i \in DOMAIN c.company :
       /\ Plain(c.company[i].name, {":", ";"}) /\ Plain(c.company[i].department, {":"})
       /\ Plain(c.company[i].jot_title, {}) /\ Plain(c.company[i].role, {})
  /\ \A i \in DOMAIN c.postals :
       /\ \A n \in 1..7 : Plain(c.postals[i].text[n], {":", ";"})
       /\ ToSet(c.postals[i].text[1]) \cap (ToSet(PostalTypes) \cup {"PREF"}) = {}
  /\ \A i \in DOMAIN c.numbers : Plain(c.numbers[i].text, {":"})
  /\ \A i \in DOMAIN c.emails : Plain(c.emails[i].text, {":"})
  /\ \A i \in DOMAIN c.webs : Plain(c.webs[i].text, {":"})
  /\ \A i \in DOMAIN c.nicks : Plain(c.nicks[i], {","})
  /\ \A i \in DOMAIN c.events : c.events[i].date # <<>> => c.events[i].date[7] # "0"
  /\ Plain(Escaped(c.note), {":"})

\* The contacts that contacts_svc_vcard_foreach and cts_vcard_parse make of a
\* file are the ones that cts_vcard_make wrote into it and those that other
\* programs describe, in their order.  A contact whose texts hold no separators
\* has all a card carries, wherever its lines were folded; one whose texts do is
\* still one contact, and changes no other.  A card is delivered when its END is
\* read.
ExportedIsRead ==
  /\ Len(delivered) <= Len(written)
  /\ \A n \in 1..Len(delivered) :
       AllPlain(written[n]) => delivered[n] = Carried(written[n])
  /\ pos > Len(file) => Len(delivered) = Len(written) /\ stream = <<>>

\* contacts_svc_vcard_count announces as many cards as contacts_svc_vcard_foreach
\* then delivers, however far it has come, in a file in which each END closes a
\* card (has as many as there are cards); in any other it announces more.
CountIsDelivered ==
  pos > 0 =>
    LET announced == contacts_svc_vcard_count(file)
        expected == Len(delivered) + contacts_svc_vcard_count(SubSeq(file, pos, Len(file)))
    IN /\ expected <= announced
       /\ announced = Len(written) => expected = announced
==============================================================================
