------------------------------ MODULE MCVcard --------------------------------
\* Contacts with every kind of item, some with texts that cannot be read back,
\* and cards of a phone that writes 2.1.
EXTENDS CtsVcardProps

No == <<>>
X == <<"x">>
Long == <<"x", " ", "x", "x", " ", "x">>
None5 == <<No, No, No, No, No>>
Tel(types, def, text) == [types |-> types, def |-> def, text |-> text]
Day(kind, d) == [kind |-> kind, date |-> <<"2", "0", "1", "0", "1", "2">> \o d]

Named == [NewContact EXCEPT !.lang = "english", !.name = <<X, Long, No, No, X>>, !.note = <<"x", "LF", " ", "x">>]
Worker == [NewContact EXCEPT
  !.company = <<[name |-> No, department |-> X, jot_title |-> Long, role |-> No]>>,
  !.postals = <<Tel({"HOME", "INTL"}, TRUE, <<No, X, Long, No, No, X, No>>),
                Tel({}, FALSE, <<X, No, No, No, No, No, X>>), Tel({"WORK"}, FALSE, <<No, No, No, No, No, No, No>>)>>]
Called == [NewContact EXCEPT
  !.display = Long,
  !.numbers = <<Tel({"VOICE", "CELL"}, TRUE, X), Tel({}, FALSE, No), Tel({}, FALSE, Long)>>,
  !.emails = <<Tel({"WORK"}, TRUE, X), Tel({"HOME"}, FALSE, Long)>>,
  !.webs = <<Tel({"HOME"}, FALSE, X)>>]
Friend == [NewContact EXCEPT
  !.name = <<No, X, No, No, No>>,
  !.nicks = <<X, No, Long>>, !.photo = Long \o X, !.uid = X,
  !.events = <<Day("BDAY", <<"1", "2">>), Day("X-ANNIVERSARY", <<"2", "0">>)>>]
Empty == NewContact

\* Every kind of text with what separates it, and the first days of a month.
Semi == <<"x", ";", "x">>
Colon == <<"x", ":", "x">>
Odd == [NewContact EXCEPT
  !.name = <<Semi, X, No, No, No>>, !.display = <<"x", "LF", "x">> \o Colon, !.lang = "other",
  !.company = <<[name |-> Semi, department |-> Colon, jot_title |-> <<" ", "x">>, role |-> No]>>,
  !.postals = <<Tel({}, FALSE, <<<<"WORK">>, Colon, No, No, No, No, No>>)>>,
  !.numbers = <<Tel({}, FALSE, Colon)>>, !.emails = <<Tel({"HOME"}, FALSE, Semi)>>,
  !.nicks = <<<<"x", ",", "x">>>>, !.webs = <<[types |-> {}, text |-> Colon]>>,
  !.events = <<Day("BDAY", <<"0", "7">>)>>, !.note = Colon]
Plainer == [NewContact EXCEPT !.name = <<X, X, No, No, No>>, !.lang = "other",
  !.company = <<[name |-> X, department |-> <<"x", ";">>, jot_title |-> Colon, role |-> <<"x", ",">>]>>,
  !.note = Semi]
TooLong == [NewContact EXCEPT !.note = [i \in 1..100 |-> "x"]]

MCContacts == {Named, Worker, Called, Friend, Empty, Odd, Plainer, TooLong}

Quote == <<"BEGIN:VCARD">> \o EOL \o <<"VERSION:", "2.1">> \o EOL \o <<"N", ":", "x">> \o EOL
  \o <<"FN", ":", "x">> \o EOL \o <<"TEL", ";", "WORK", ";", "PREF", ":", "x">> \o EOL \o <<"X-OTHER", ":", "x", "x", "x", "x", "x", "x", "x", "x", "x", "x">> \o EOL
  \o <<"NOTE", ";", "QUOTED", ":", "=x", " ", "=">> \o EOL \o <<"=x">> \o EOL \o <<"END", ":", "VCARD">> \o EOL
MCForeign == {
  [stream |-> Quote,
   contact |-> [NewContact EXCEPT !.name = <<X, No, No, No, No>>, !.display = X, !.note = <<"x", " ", "x">>,
                                  !.numbers = <<Tel({"WORK"}, TRUE, X)>>]]}
MCJunk == {EOL, <<"x", "x", " ", "x", "x", "x", "x", "x", "x">> \o EOL,
  <<"END", ":", "VCARD">> \o EOL \o EOL}
==============================================================================
