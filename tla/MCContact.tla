----------------------------- MODULE MCContact -----------------------------
\* A program with two structs: a mobile number, a default one, an address.
EXTENDS CtsContactProps, TLC

CONSTANTS one, two, small, full

In(k, t, cell, def) == [kind |-> k, text |-> t, cell |-> cell, def |-> def]
MCInputs == {In("number", two, TRUE, FALSE), In("email", two, FALSE, TRUE), In("web", one, FALSE, FALSE)}
InputsOfKinds == {in \in MCInputs : in.kind \in Kinds}
MCNames == {[given |-> FALSE, display |-> Null]}
R(k, t, cell, display) == [contact |-> 1, kind |-> k, text |-> t, cell |-> cell, display |-> display]
C(num, email) == <<[def |-> [number |-> num, email |-> email], image |-> NoImage]>>
Found == {
  [row |-> <<>>, contact |-> <<>>],
  [row |-> <<R("name", "given", FALSE, Null), R("number", one, FALSE, Null), R("number", two, TRUE, Null)>>,
   contact |-> C(2, 0)],
  [row |-> <<R("name", Null, FALSE, one), R("number", one, FALSE, Null), R("email", two, FALSE, Null)>>,
   contact |-> C(2, 3)]}
NameOnly == [row |-> <<R("name", "given", FALSE, Null)>>, contact |-> C(0, 0)]
MCStored == IF Kinds = {} THEN {NameOnly} ELSE Found
StructSymmetry == Permutations(Structs)
=============================================================================
