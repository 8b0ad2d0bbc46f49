------------------------------ MODULE CtsVcard -------------------------------
(***************************************************************************)
(* Contacts are written to a vCard file (cts_vcard_make) and read back     *)
(* (contacts_svc_vcard_foreach, cts_vcard_parse).  A text is a sequence of *)
(* characters; the words of the format, "TEL" or "HOME", are one character *)
(* each, and so are "=x", a quoted-printable x, and "esc", an escaped line *)
(* break.  An absent text is empty.                                        *)
(***************************************************************************)
EXTENDS Integers, FiniteSets, FiniteSetsExt, SequencesExt

CONSTANTS
  Contacts,     \* what is written
  Foreign,      \* streams of other programs, with the contact they describe
  Junk,         \* other lines a file may hold between the cards
  Limit,        \* CTS_VCARD_FOLDING_LIMIT, 75
  LineSize,     \* the characters fgets takes at once, 1023
  MaxSize,      \* CTS_VCARD_FILE_MAX_SIZE
  FirstNameFirst, \* CTS_ORDER_OF_SORTING
  DefaultLanguage,
  MaxCards

VARIABLES
  file,       \* the file's text
  written,    \* the contacts whose cards are in it, in order
  pos,        \* the next character of the file to read, 0 while it is written,
              \* Stopped when the callback has ended the reading
  stream,     \* the buffer of contacts_svc_vcard_foreach
  delivered   \* the contacts its callback has made of the streams

vars == <<file, written, pos, stream, delivered>>

EOL == <<"CR", "LF">>
Stopped == -1
Digits == {"0", "1", "2", "3", "4", "5", "6", "7", "8", "9"}

------------------------------------------------------------------------------
(* Contact to vCard. *)

Line(name, text) == <<name, ":">> \o text \o EOL
LineOf(name, text) == IF text = <<>> THEN <<>> ELSE Line(name, text)

Separated(parts, sep) ==
  IF parts = <<>> THEN <<>>
  ELSE Head(parts) \o FlattenSeq([i \in 1..(Len(parts) - 1) |-> sep \o parts[i + 1]])

\* The positions of a text that satisfy P, in order.
Positions(s, P(_)) == SelectSeq([i \in 1..Len(s) |-> i], P)

\* One line for each item; W(item) is <<>> for one that is left out.
Lines(items, W(_)) == FlattenSeq([i \in 1..Len(items) |-> W(items[i])])

\* The words of a set in the order the code tests the bits.
Params(order, types, def) ==
  FlattenSeq([i \in 1..Len(order) |-> IF order[i] \in types THEN <<";", order[i]>> ELSE <<>>])
    \o (IF def THEN <<";", "PREF">> ELSE <<>>)

Language(c) == IF c.lang = "default" THEN DefaultLanguage ELSE c.lang

\* A name is <<last, first, addition, prefix, suffix>>.
DisplayOf(c) ==
  LET last == c.name[1]
      first == c.name[2]
  IN CASE c.display # <<>> -> c.display
       [] c.display = <<>> /\ <<>> \in {first, last} -> first \o last
       [] c.display = <<>> /\ <<>> \notin {first, last} ->
            IF FirstNameFirst THEN first \o <<" ">> \o last
            ELSE last \o (IF Language(c) = "english" THEN <<",">> ELSE <<>>) \o <<" ">> \o first

cts_vcard_append_name(c) ==
  Line("N", Separated(c.name, <<";">>)) \o Line("FN", DisplayOf(c))

cts_vcard_append_company(c) ==
  IF c.company = <<>> THEN <<>>
  ELSE LET org == c.company[1] IN
       Line("ORG", org.name \o (IF org.department = <<>> THEN <<>> ELSE <<";">> \o org.department))
         \o LineOf("TITLE", org.jot_title) \o LineOf("ROLE", org.role)

PostalTypes == <<"DOM", "INTL", "HOME", "WORK", "POSTAL", "PARCEL">>
NumberTypes == <<"HOME", "MSG", "WORK", "VOICE", "FAX", "VOICE", "CELL", "VIDEO", "PAGER",
                 "BBS", "MODEM", "CAR", "ISDN", "PCS">>
EmailTypes == <<"HOME", "WORK">>

Item(name, order, i, text) == <<name>> \o Params(order, i.types, i.def) \o <<":">> \o text \o EOL
cts_vcard_append_postals(p) == Item("ADR", PostalTypes, p, Separated(p.text, <<";">>))
cts_vcard_append_numbers(n) == IF n.text = <<>> THEN <<>> ELSE Item("TEL", NumberTypes, n, n.text)
cts_vcard_append_emails(e) == IF e.text = <<>> THEN <<>> ELSE Item("EMAIL", EmailTypes, e, e.text)
cts_vcard_append_nicks(c) ==
  IF c.nicks = <<>> THEN <<>>
  ELSE Line("NICKNAME", Separated(SelectSeq(c.nicks, LAMBDA n : n # <<>>), <<",">>))
cts_vcard_append_webs(w) == LineOf("URL", w.text)

\* A date is eight digits; the day loses its leading zero.
Dated(d) ==
  SubSeq(d, 1, 4) \o <<"-">> \o SubSeq(d, 5, 6) \o <<"-">>
    \o (IF d[7] = "0" THEN <<d[8]>> ELSE SubSeq(d, 7, 8))
cts_vcard_append_events(e) ==
  IF e.date = <<>> \/ e.kind \notin {"BDAY", "X-ANNIVERSARY"} THEN <<>> ELSE Line(e.kind, Dated(e.date))

Escaped(text) == [i \in 1..Len(text) |-> IF text[i] = "LF" THEN "esc" ELSE text[i]]
cts_vcard_append_base(c) ==
  (IF c.photo = <<>> THEN <<>>
   ELSE <<"PHOTO", ";", "BASE64", ";", "JPEG", ":">> \o c.photo \o EOL \o EOL)
    \o LineOf("UID", c.uid) \o LineOf("NOTE", Escaped(c.note))

cts_vcard_append_contact(c) ==
  cts_vcard_append_name(c) \o cts_vcard_append_company(c)
    \o Lines(c.postals, cts_vcard_append_postals) \o Lines(c.numbers, cts_vcard_append_numbers)
    \o Lines(c.emails, cts_vcard_append_emails) \o cts_vcard_append_nicks(c)
    \o Lines(c.webs, cts_vcard_append_webs) \o Lines(c.events, cts_vcard_append_events)
    \o cts_vcard_append_base(c)

\* The characters of a line before position i; line breaks are not broken.
ColumnOf(s, i) == i - 1 - Max({0} \cup {j \in 1..(i - 1) : s[j] = "LF"})

\* The space that continues a line counts in it.
BreaksBefore(s, i) ==
  LET past == ColumnOf(s, i) - Limit
  IN s[i] \notin {"CR", "LF"} /\ past >= 0 /\ past % (Limit - 1) = 0

cts_vcard_add_folding(src) ==
  LET cuts == <<1>> \o Positions(src, LAMBDA i : BreaksBefore(src, i)) \o <<Len(src) + 1>>
  IN Separated([n \in 1..(Len(cuts) - 1) |-> SubSeq(src, cuts[n], cuts[n + 1] - 1)],
               EOL \o <<" ">>)

cts_vcard_make(c) ==
  cts_vcard_add_folding(<<"BEGIN:VCARD">> \o EOL \o <<"VERSION:", "3.0">> \o EOL
                          \o cts_vcard_append_contact(c) \o <<"END", ":", "VCARD">> \o EOL)

------------------------------------------------------------------------------
(* vCard to contact. *)

At(s, i) == IF i \in 1..Len(s) THEN s[i] ELSE "NUL"

\* The first position from i on that satisfies P, or the end of the text.
FirstFrom(s, i, P(_)) == Min({j \in i..Len(s) : P(j)} \cup {Len(s) + 1})

Without(s, hidden) ==
  LET kept == Positions(s, LAMBDA i : i \notin hidden)
  IN [n \in 1..Len(kept) |-> s[kept[n]]]

\* The character after a fold is copied, whatever it is.
MutRemoveFolding(s) == SelectSeq(s, LAMBDA ch : ch \notin {"CR", "LF"})
cts_vcard_remove_folding(s) ==
  LET Size(i) == CASE At(s, i) = "CR" /\ At(s, i + 1) = "LF" /\ At(s, i + 2) = " " -> 3
                   [] At(s, i) = "LF" /\ At(s, i + 1) = " " -> 2
                   [] OTHER -> 0
      fold[i \in 1..Len(s)] ==
        Size(i) > 0 /\ ~\E j \in (i - 3)..(i - 1) : j > 0 /\ j + Size(j) >= i /\ fold[j]
  IN Without(s, UNION {i..(i + Size(i) - 1) : i \in {j \in 1..Len(s) : fold[j]}})

\* In a quoted value "=x" is the character x, and "=" hides a line break.
Quoted(s, i, k) ==
  \E n \in i..(k - 1) : s[n] = "QUOTED" /\ \A j \in i..n : s[j] # ":"
SoftBreak(s, i) == At(s, i) = "=" /\ At(s, i + 1) = "CR" /\ At(s, i + 2) = "LF"
cts_vcard_decode_quoted_val(val) ==
  LET hidden == {i \in 1..Len(val) : val[i] = "=" \/ \E n \in {i - 1, i - 2} : SoftBreak(val, n)}
      kept == Without(val, hidden)
  IN [n \in 1..Len(kept) |-> IF kept[n] = "=x" THEN "x" ELSE kept[n]]

\* The value runs to the first line break that is not followed by a space, nor,
\* in version 2.1, hidden.
EndsLine(s, i) == \/ At(s, i) = "CR" /\ At(s, i + 1) = "LF" /\ At(s, i + 2) # " "
                  \/ At(s, i) = "LF" /\ At(s, i + 1) # " "
cts_vcard_get_val(ver, s, i) ==
  LET start == FirstFrom(s, i, LAMBDA j : s[j] \notin {"CR", " ", ":"})
      Hidden(j) == \E n \in {j - 1, j - 2} : SoftBreak(s, n) /\ ver = "2.1" /\ Quoted(s, start, n)
      end == FirstFrom(s, start, LAMBDA j : EndsLine(s, j) /\ ~Hidden(j))
      raw == SubSeq(s, start, end - 1)
      val == IF ver = "2.1" THEN raw ELSE cts_vcard_remove_folding(raw)
  IN [found |-> At(s, start) # "LF" /\ start < end, next |-> end + 1,
      val |-> IF Quoted(val, 1, Len(val) + 1) THEN cts_vcard_decode_quoted_val(val) ELSE val]

ContentNames ==
  {"FN", "N", "NICKNAME", "PHOTO", "BDAY", "ADR", "LABEL", "TEL", "EMAIL", "TITLE", "ROLE",
   "ORG", "NOTE", "REV", "UID", "URL", "X-ANNIVERSARY", "X-SLP-GROUP", "END"}

\* Empty lines, then spaces and separators are passed over before a name.
WordAt(s, i) ==
  LET line == FirstFrom(s, i, LAMBDA j : s[j] \notin {"CR", "LF"})
  IN FirstFrom(s, line, LAMBDA j : s[j] \notin {" ", ":", ";"})
IsContent(s, j) == At(s, j) \in ContentNames /\ At(s, j + 1) \in {":", ";"}

\* The contents from i on, to END; a card without END is refused.
Contents(ver, s, begin) ==
  LET Refused == [ok |-> FALSE, list |-> <<>>]
      from[i \in 1..(Len(s) + 2)] ==
        LET w == WordAt(s, i)
            v == cts_vcard_get_val(ver, s, w + 1)
            next == FirstFrom(s, i, LAMBDA j : s[j] = "LF") + 1
        IN CASE ~IsContent(s, w) /\ next > Len(s) + 1 -> Refused
             [] ~IsContent(s, w) /\ next <= Len(s) + 1 -> from[next]
             [] IsContent(s, w) /\ ~v.found -> from[w + 1]
             [] IsContent(s, w) /\ v.found /\ s[w] = "END" -> [ok |-> TRUE, list |-> <<>>]
             [] IsContent(s, w) /\ v.found /\ s[w] # "END" ->
                  [from[v.next] EXCEPT !.list = <<[name |-> s[w], val |-> v.val]>> \o @]
  IN from[begin]

Colons(val) == {i \in 1..Len(val) : val[i] = ":"}
cts_get_content_value(val) ==
  IF Colons(val) = {} THEN val ELSE SubSeq(val, Min(Colons(val)) + 1, Len(val))
ParamsOf(val) == IF Colons(val) = {} THEN <<>> ELSE SubSeq(val, 1, Min(Colons(val)) - 1)
Words(params) == IF Contains(params, ";") THEN ToSet(params) ELSE {}

\* The parts of a text between the separators.
Split(text, sep) ==
  LET cuts == <<0>> \o Positions(text, LAMBDA i : text[i] = sep) \o <<Len(text) + 1>>
  IN [n \in 1..(Len(cuts) - 1) |-> SubSeq(text, cuts[n] + 1, cuts[n + 1] - 1)]
Components(text, n) ==
  LET parts == Split(text, ";") IN [i \in 1..n |-> IF i <= Len(parts) THEN parts[i] ELSE <<>>]

cts_vcard_get_name(c, val) ==
  IF cts_get_content_value(val) = <<>> THEN c
  ELSE [c EXCEPT !.name = Components(cts_get_content_value(val), 5)]

cts_vcard_get_number(c, val) ==
  IF cts_get_content_value(val) = <<>> THEN c
  ELSE [c EXCEPT !.numbers = Append(@,
         [types |-> Words(ParamsOf(val)) \cap ToSet(NumberTypes),
          def |-> "PREF" \in Words(ParamsOf(val)), text |-> cts_get_content_value(val)])]

cts_vcard_get_email(c, val) ==
  LET words == Words(ParamsOf(val)) \cap ToSet(EmailTypes) IN
  IF cts_get_content_value(val) = <<>> THEN c
  ELSE [c EXCEPT !.emails = Append(@,
         [types |-> IF "HOME" \in words THEN {"HOME"} ELSE words,
          def |-> "PREF" \in Words(ParamsOf(val)), text |-> cts_get_content_value(val)])]

cts_vcard_get_web(c, val) ==
  LET words == Words(ParamsOf(val)) \cap ToSet(EmailTypes) IN
  IF cts_get_content_value(val) = <<>> THEN c
  ELSE [c EXCEPT !.webs = Append(@,
         [types |-> IF "HOME" \in words THEN {"HOME"} ELSE words,
          text |-> cts_get_content_value(val)])]

\* An address starts at the last colon; its types are looked for in all that
\* comes before its first ';', the post office box too.
cts_vcard_get_postal(c, val) ==
  LET last == Max(Colons(val) \cup {0})
      parts == Components(SubSeq(val, last + 1, Len(val)), 7)
      words == Words(SubSeq(val, 1, last + Len(parts[1])))
  IN IF \A i \in 1..7 : parts[i] = <<>> THEN c
     ELSE [c EXCEPT !.postals = Append(@,
            [types |-> words \cap ToSet(PostalTypes), def |-> "PREF" \in words, text |-> parts])]

NoCompany == [name |-> <<>>, department |-> <<>>, jot_title |-> <<>>, role |-> <<>>]
CompanyOf(c) == IF c.company = <<>> THEN NoCompany ELSE c.company[1]
cts_vcard_get_company(c, val) ==
  LET text == cts_get_content_value(val)
      cut == FirstFrom(text, 1, LAMBDA i : text[i] = ";")
  IN CASE text = <<>> -> CompanyOf(c)
       [] text # <<>> /\ cut > Len(text) -> [CompanyOf(c) EXCEPT !.name = text]
       [] text # <<>> /\ cut <= Len(text) ->
            [CompanyOf(c) EXCEPT !.name = SubSeq(text, 1, cut - 1),
                                 !.department = SubSeq(text, cut + 1, Len(text))]

cts_vcard_get_event(c, kind, val) ==
  LET digits == SelectSeq(val, LAMBDA ch : ch \in Digits)
  IN [c EXCEPT !.events = Append(@,
        [kind |-> kind, date |-> SubSeq(digits, 1, Min({8, Len(digits)}))])]

cts_vcard_get_nickname(c, val) ==
  [c EXCEPT !.nicks = @ \o SelectSeq(Split(val, ","), LAMBDA n : n # <<>>)]
cts_vcard_get_note(val) ==
  LET text == cts_get_content_value(val)
  IN [i \in 1..Len(text) |-> IF text[i] = "esc" THEN "LF" ELSE text[i]]

NewContact ==
  [name |-> [i \in 1..5 |-> <<>>], display |-> <<>>, lang |-> "default", company |-> <<>>, postals |-> <<>>,
   numbers |-> <<>>, emails |-> <<>>, nicks |-> <<>>, webs |-> <<>>, events |-> <<>>,
   photo |-> <<>>, uid |-> <<>>, note |-> <<>>]

cts_vcard_get_contact(c, x) ==
  CASE x.name = "FN" -> [c EXCEPT !.display = cts_get_content_value(x.val)]
    [] x.name = "N" -> cts_vcard_get_name(c, x.val)
    [] x.name = "NICKNAME" -> cts_vcard_get_nickname(c, x.val)
    [] x.name = "PHOTO" -> [c EXCEPT !.photo = IF Colons(x.val) = {} THEN @ ELSE cts_get_content_value(x.val)]
    [] x.name \in {"BDAY", "X-ANNIVERSARY"} -> cts_vcard_get_event(c, x.name, x.val)
    [] x.name \in {"ADR", "LABEL"} -> cts_vcard_get_postal(c, x.val)
    [] x.name = "TEL" -> cts_vcard_get_number(c, x.val)
    [] x.name = "EMAIL" -> cts_vcard_get_email(c, x.val)
    [] x.name = "TITLE" -> [c EXCEPT !.company = <<[CompanyOf(c) EXCEPT !.jot_title = x.val]>>]
    [] x.name = "ROLE" -> [c EXCEPT !.company = <<[CompanyOf(c) EXCEPT !.role = x.val]>>]
    [] x.name = "ORG" -> [c EXCEPT !.company = <<cts_vcard_get_company(c, x.val)>>]
    [] x.name = "NOTE" -> [c EXCEPT !.note = cts_vcard_get_note(x.val)]
    [] x.name = "UID" -> [c EXCEPT !.uid = x.val]
    [] x.name = "URL" -> cts_vcard_get_web(c, x.val)
    [] x.name \in {"REV", "X-SLP-GROUP"} -> c

\* The version is 2.1 unless it says 3.0.
cts_vcard_parse(s) ==
  LET word == FirstFrom(s, 2, LAMBDA j : s[j] \notin {"CR", "LF", " ", ":", ";"})
      v == cts_vcard_get_val("NONE", s, word + 1)
      versioned == At(s, word) = "VERSION:" /\ v.found
      ver == IF versioned /\ v.val = <<"3.0">> THEN "3.0" ELSE "2.1"
      contents == Contents(ver, s, IF versioned THEN v.next ELSE 2)
  IN IF At(s, 1) # "BEGIN:VCARD" \/ ~contents.ok THEN <<>>
     ELSE <<FoldLeft(cts_vcard_get_contact, NewContact, contents.list)>>

------------------------------------------------------------------------------
(* The file. *)

Init == file = <<>> /\ written = <<>> /\ pos = 0 /\ stream = <<>> /\ delivered = <<>>

\* A card that is too long once it is folded is refused.
Export(c) ==
  /\ pos = 0 /\ Len(written) < MaxCards
  /\ Len(cts_vcard_make(c)) <= MaxSize - 5
  /\ file' = file \o cts_vcard_make(c)
  /\ written' = Append(written, c)
  /\ UNCHANGED <<pos, stream, delivered>>

Receive(f) ==
  /\ pos = 0 /\ Len(written) < MaxCards
  /\ file' = file \o f.stream
  /\ written' = Append(written, f.contact)
  /\ UNCHANGED <<pos, stream, delivered>>

\* At the beginning or after a card.
AddLine(line) ==
  /\ pos = 0
  /\ file = <<>> \/ IsSuffix(<<"END", ":", "VCARD">> \o EOL, file)
  /\ file' = file \o line
  /\ UNCHANGED <<written, pos, stream, delivered>>

Open == pos = 0 /\ pos' = 1 /\ UNCHANGED <<file, written, stream, delivered>>

\* fgets: to the end of the line, the file or the buffer.
Chunk(f, i) ==
  SubSeq(f, i, Min({FirstFrom(f, i, LAMBDA j : f[j] = "LF"), i + LineSize - 1, Len(f)}))
Begins(line) == At(line, 1) = "BEGIN:VCARD"
Ends(line) == At(line, 1) = "END" /\ At(line, 2) = ":" /\ At(line, 3) = "VCARD"

MutTaken(line) == IF stream = <<>> /\ ~Begins(line) THEN <<>> ELSE line
Taken(line) == IF stream = <<>> /\ ~Begins(line) THEN <<>> ELSE stream \o line

\* One turn of contacts_svc_vcard_foreach; the callback parses the stream, and
\* may end the reading.
ReadLine ==
  LET line == Chunk(file, pos) IN
  /\ pos \in 1..Len(file)
  /\ IF Taken(line) # <<>> /\ Ends(line)
     THEN /\ delivered' = delivered \o cts_vcard_parse(Taken(line))
          /\ stream' = <<>>
          /\ pos' \in {pos + Len(line), Stopped}
     ELSE /\ stream' = Taken(line)
          /\ pos' = pos + Len(line)
          /\ UNCHANGED delivered
  /\ UNCHANGED <<file, written>>

\* contacts_svc_vcard_count, over the same chunks.
contacts_svc_vcard_count(f) ==
  LET from[i \in 1..(Len(f) + 1)] ==
        IF i > Len(f) THEN 0
        ELSE (IF Ends(Chunk(f, i)) THEN 1 ELSE 0) + from[i + Len(Chunk(f, i))]
  IN from[1]

Next ==
  \/ \E c \in Contacts : Export(c)
  \/ \E f \in Foreign : Receive(f)
  \/ \E line \in Junk : AddLine(line)
  \/ Open
  \/ ReadLine

Spec == Init /\ [][Next]_vars
==============================================================================
