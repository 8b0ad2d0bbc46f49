-------------------------- MODULE CtsStoredProofs --------------------------
(***************************************************************************)
(* What contacts_svc_insert_contact and contacts_svc_update_contact leave  *)
(* in the database, for a program that uses its structs as documented.     *)
(***************************************************************************)
EXTENDS CtsContactProofs

\* The rows of contact c for a kind of data.
Own(rows, c, k) == {i \in DOMAIN rows : rows[i].contact = c /\ rows[i].kind = k}

-----------------------------------------------------------------------------
(* The parts of a list.                                                     *)

LEMMA ItemsOfPart ==
  ASSUME NEW list \in Seq(0..MaxValues), NEW S \in SUBSET DOMAIN list, \A i \in S : list[i] # 0,
         NEW sub, sub = Sublist(list, S), NEW P,
         \A i \in DOMAIN list : list[i] # 0 => (i \in S <=> list[i] \in P)
  PROVE  /\ Range(sub) = ItemSet(list) \cap P /\ 0 \notin Range(sub)
         /\ Distinct(list) => Distinct(sub)
<1>1. Range(sub) = {list[i] : i \in S}
  BY SublistItems
<1>2. Range(sub) = ItemSet(list) \cap P
  BY <1>1 DEF ItemSet, Range
<1> QED
  BY <1>2, SublistDistinct DEF ItemSet

LEMMA PartItems ==
  ASSUME NEW val, NEW list \in Seq(0..MaxValues)
  PROVE  /\ Range(Live(val, list)) = {p \in ItemSet(list) : ~val[p].deleted}
         /\ Range(Written(val, list)) = {p \in ItemSet(list) : ~val[p].deleted /\ val[p].text # Null}
         /\ Range(WithRow(val, list)) = {p \in ItemSet(list) : val[p].id # 0}
         /\ Range(WithoutRow(val, list)) = {p \in ItemSet(list) : val[p].id = 0}
         /\ Distinct(list) =>
              \A sub \in {Live(val, list), Written(val, list), WithRow(val, list), WithoutRow(val, list)} :
                Distinct(sub)
         /\ \A sub \in {Live(val, list), Written(val, list), WithRow(val, list), WithoutRow(val, list)} :
              0 \notin Range(sub)
<1>1. /\ Range(Live(val, list)) = {p \in ItemSet(list) : ~val[p].deleted}
      /\ 0 \notin Range(Live(val, list)) /\ (Distinct(list) => Distinct(Live(val, list)))
  <2> DEFINE S == {i \in DOMAIN list : list[i] # 0 /\ ~val[list[i]].deleted}
             P == {p \in ItemSet(list) : ~val[p].deleted}
  <2>1. S \in SUBSET DOMAIN list /\ (\A i \in S : list[i] # 0) /\ Live(val, list) = Sublist(list, S)
        /\ \A i \in DOMAIN list : list[i] # 0 => (i \in S <=> list[i] \in P)
    BY DEF Live, ItemSet, Range
  <2>2. ItemSet(list) \cap P = P
    OBVIOUS
  <2> HIDE DEF S, P
  <2>3. Range(Live(val, list)) = P /\ 0 \notin Range(Live(val, list))
        /\ (Distinct(list) => Distinct(Live(val, list)))
    BY <2>1, <2>2, ItemsOfPart
  <2> QED
    BY <2>3 DEF P
<1>2. /\ Range(Written(val, list)) = {p \in ItemSet(list) : ~val[p].deleted /\ val[p].text # Null}
      /\ 0 \notin Range(Written(val, list)) /\ (Distinct(list) => Distinct(Written(val, list)))
  <2> DEFINE S == {i \in DOMAIN list : list[i] # 0 /\ ~val[list[i]].deleted /\ val[list[i]].text # Null}
             P == {p \in ItemSet(list) : ~val[p].deleted /\ val[p].text # Null}
  <2>1. S \in SUBSET DOMAIN list /\ (\A i \in S : list[i] # 0) /\ Written(val, list) = Sublist(list, S)
        /\ \A i \in DOMAIN list : list[i] # 0 => (i \in S <=> list[i] \in P)
    BY DEF Written, ItemSet, Range
  <2>2. ItemSet(list) \cap P = P
    OBVIOUS
  <2> HIDE DEF S, P
  <2>3. Range(Written(val, list)) = P /\ 0 \notin Range(Written(val, list))
        /\ (Distinct(list) => Distinct(Written(val, list)))
    BY <2>1, <2>2, ItemsOfPart
  <2> QED
    BY <2>3 DEF P
<1>3. /\ Range(WithRow(val, list)) = {p \in ItemSet(list) : val[p].id # 0}
      /\ 0 \notin Range(WithRow(val, list)) /\ (Distinct(list) => Distinct(WithRow(val, list)))
  <2> DEFINE S == {i \in DOMAIN list : list[i] # 0 /\ val[list[i]].id # 0}
             P == {p \in ItemSet(list) : val[p].id # 0}
  <2>1. S \in SUBSET DOMAIN list /\ (\A i \in S : list[i] # 0) /\ WithRow(val, list) = Sublist(list, S)
        /\ \A i \in DOMAIN list : list[i] # 0 => (i \in S <=> list[i] \in P)
    BY DEF WithRow, ItemSet, Range
  <2>2. ItemSet(list) \cap P = P
    OBVIOUS
  <2> HIDE DEF S, P
  <2>3. Range(WithRow(val, list)) = P /\ 0 \notin Range(WithRow(val, list))
        /\ (Distinct(list) => Distinct(WithRow(val, list)))
    BY <2>1, <2>2, ItemsOfPart
  <2> QED
    BY <2>3 DEF P
<1>4. /\ Range(WithoutRow(val, list)) = {p \in ItemSet(list) : val[p].id = 0}
      /\ 0 \notin Range(WithoutRow(val, list)) /\ (Distinct(list) => Distinct(WithoutRow(val, list)))
  <2> DEFINE S == {i \in DOMAIN list : list[i] # 0 /\ val[list[i]].id = 0}
             P == {p \in ItemSet(list) : val[p].id = 0}
  <2>1. S \in SUBSET DOMAIN list /\ (\A i \in S : list[i] # 0) /\ WithoutRow(val, list) = Sublist(list, S)
        /\ \A i \in DOMAIN list : list[i] # 0 => (i \in S <=> list[i] \in P)
    BY DEF WithoutRow, ItemSet, Range
  <2>2. ItemSet(list) \cap P = P
    OBVIOUS
  <2> HIDE DEF S, P
  <2>3. Range(WithoutRow(val, list)) = P /\ 0 \notin Range(WithoutRow(val, list))
        /\ (Distinct(list) => Distinct(WithoutRow(val, list)))
    BY <2>1, <2>2, ItemsOfPart
  <2> QED
    BY <2>3 DEF P
<1> QED
  BY <1>1, <1>2, <1>3, <1>4

\* The position of an item in a list that has it once.
At(list, p) == CHOOSE i \in DOMAIN list : list[i] = p

LEMMA Positions ==
  ASSUME NEW list, Distinct(list), 0 \notin Range(list)
  PROVE  /\ \A p \in Range(list) : At(list, p) \in DOMAIN list /\ list[At(list, p)] = p
         /\ \A i \in DOMAIN list : list[i] \in Range(list) /\ At(list, list[i]) = i
<1>1. ASSUME NEW p \in Range(list)
      PROVE  At(list, p) \in DOMAIN list /\ list[At(list, p)] = p
  <2>1. \E i \in DOMAIN list : list[i] = p
    BY <1>1 DEF Range
  <2> QED
    BY <2>1 DEF At
<1>2. \A i \in DOMAIN list : list[i] \in Range(list) /\ list[i] # 0
  BY DEF Range
<1> QED
  BY <1>1, <1>2 DEF Distinct

\* A part of a list has its items in the order of the list.
InOrder(sub, list) ==
  \A i, j \in DOMAIN list :
    i < j /\ list[i] \in Range(sub) /\ list[j] \in Range(sub) => At(sub, list[i]) < At(sub, list[j])

LEMMA PartInOrder ==
  ASSUME NEW list \in Seq(0..MaxValues), Distinct(list), NEW S \in SUBSET DOMAIN list,
         \A i \in S : list[i] # 0, NEW sub, sub = Sublist(list, S)
  PROVE  InOrder(sub, list)
<1> DEFINE n == Cardinality(S)
<1>1. /\ DOMAIN sub = 1..n /\ n \in Nat
      /\ \A m \in 1..n : Nth(S, m) \in S /\ sub[m] = list[Nth(S, m)]
      /\ \A l, m \in 1..n : l < m => Nth(S, l) < Nth(S, m)
  BY SublistProperties, LenProperties
<1>2. 0 \notin Range(sub) /\ Distinct(sub) /\ DOMAIN list \subseteq Int
  <2>1. Range(sub) = {list[i] : i \in S}
    BY SublistItems
  <2> QED
    BY <2>1, SublistDistinct, LenProperties
<1>3. ASSUME NEW i \in DOMAIN list, NEW j \in DOMAIN list, i < j, list[i] \in Range(sub), list[j] \in Range(sub)
      PROVE  At(sub, list[i]) < At(sub, list[j])
  <2> DEFINE a == At(sub, list[i])
             b == At(sub, list[j])
  <2>1. a \in 1..n /\ sub[a] = list[i] /\ b \in 1..n /\ sub[b] = list[j]
    BY <1>1, <1>2, <1>3, Positions
  <2> HIDE DEF a, b
  <2>2. Nth(S, a) = i /\ Nth(S, b) = j
    BY <1>1, <1>3, <2>1 DEF Distinct
  <2>3. i \in Int /\ j \in Int
    BY <1>2
  <2>4. a # b /\ ~(b < a)
    BY <1>1, <1>3, <2>1, <2>2, <2>3
  <2>5. a < b
    BY <1>1, <2>1, <2>4
  <2> QED
    BY <2>5 DEF a, b
<1> QED
  BY <1>3 DEF InOrder

LEMMA InOrderChain ==
  ASSUME NEW list, NEW mid, NEW sub, InOrder(mid, list), InOrder(sub, mid), Range(sub) \subseteq Range(mid),
         Distinct(mid), 0 \notin Range(mid)
  PROVE  InOrder(sub, list)
<1> SUFFICES ASSUME NEW i \in DOMAIN list, NEW j \in DOMAIN list, i < j,
                    list[i] \in Range(sub), list[j] \in Range(sub)
             PROVE  At(sub, list[i]) < At(sub, list[j])
  BY DEF InOrder
<1>1. list[i] \in Range(mid) /\ list[j] \in Range(mid)
  OBVIOUS
<1>2. At(mid, list[i]) < At(mid, list[j])
  BY <1>1 DEF InOrder
<1>3. /\ At(mid, list[i]) \in DOMAIN mid /\ mid[At(mid, list[i])] = list[i]
      /\ At(mid, list[j]) \in DOMAIN mid /\ mid[At(mid, list[j])] = list[j]
  BY <1>1, Positions
<1> QED
  BY <1>2, <1>3 DEF InOrder

\* The items that are written, and of an update those that are inserted.
LEMMA PartsInOrder ==
  ASSUME NEW val, NEW list \in Seq(0..MaxValues), Distinct(list)
  PROVE  /\ InOrder(Written(val, list), list) /\ InOrder(Live(val, list), list)
         /\ InOrder(WithoutRow(val, list), list)
<1>1. InOrder(Written(val, list), list)
  <2> DEFINE S == {i \in DOMAIN list : list[i] # 0 /\ ~val[list[i]].deleted /\ val[list[i]].text # Null}
  <2>1. S \in SUBSET DOMAIN list /\ (\A i \in S : list[i] # 0) /\ Written(val, list) = Sublist(list, S)
    BY DEF Written
  <2> HIDE DEF S
  <2> QED
    BY <2>1, PartInOrder
<1>2. InOrder(Live(val, list), list)
  <2> DEFINE S == {i \in DOMAIN list : list[i] # 0 /\ ~val[list[i]].deleted}
  <2>1. S \in SUBSET DOMAIN list /\ (\A i \in S : list[i] # 0) /\ Live(val, list) = Sublist(list, S)
    BY DEF Live
  <2> HIDE DEF S
  <2> QED
    BY <2>1, PartInOrder
<1>3. InOrder(WithoutRow(val, list), list)
  <2> DEFINE S == {i \in DOMAIN list : list[i] # 0 /\ val[list[i]].id = 0}
  <2>1. S \in SUBSET DOMAIN list /\ (\A i \in S : list[i] # 0) /\ WithoutRow(val, list) = Sublist(list, S)
    BY DEF WithoutRow
  <2> HIDE DEF S
  <2> QED
    BY <2>1, PartInOrder
<1> QED
  BY <1>1, <1>2, <1>3

LEMMA AddedInOrder ==
  ASSUME NEW v, NEW list \in Seq(0..MaxValues), Distinct(list)
  PROVE  InOrder(Written(v, WithoutRow(v, Live(v, list))), list)
<1> DEFINE live == Live(v, list)
           added == WithoutRow(v, live)
           new == Written(v, added)
<1>1. live \in Seq(0..MaxValues) /\ Distinct(live) /\ 0 \notin Range(live) /\ InOrder(live, list)
  BY SelectedLists, PartItems, PartsInOrder
<1> HIDE DEF live
<1>2. /\ added \in Seq(0..MaxValues) /\ Distinct(added) /\ 0 \notin Range(added)
      /\ InOrder(added, live) /\ Range(added) \subseteq Range(live)
  BY <1>1, SelectedLists, PartItems, PartsInOrder DEF ItemSet
<1> HIDE DEF added
<1>3. InOrder(new, added) /\ Range(new) \subseteq Range(added)
  BY <1>2, PartItems, PartsInOrder DEF ItemSet
<1> HIDE DEF new
<1>4. InOrder(added, list)
  BY <1>1, <1>2, InOrderChain
<1>5. InOrder(new, list)
  BY <1>2, <1>3, <1>4, InOrderChain
<1> QED
  BY <1>5 DEF new, added, live

-----------------------------------------------------------------------------
(* Rows that are added.                                                     *)

LEMMA AddedWhere ==
  ASSUME NEW D, NEW val, DataTyped(D, val), NEW new, Len(new) \in Nat, NEW A, A = Added(D, new)
  PROVE  /\ DOMAIN A.row = DOMAIN D.row \cup (D.last + 1 .. D.last + Len(new))
         /\ \A i \in DOMAIN D.row : A.row[i] = D.row[i] /\ i \notin D.last + 1 .. D.last + Len(new)
         /\ \A n \in 1..Len(new) : A.row[D.last + n] = new[n]
         /\ A.last = D.last + Len(new) /\ A.value = D.value /\ A.def = D.def /\ D.last \in Nat
<1> DEFINE r == [i \in DOMAIN D.row \cup (D.last + 1 .. D.last + Len(new)) |->
                   IF i \in DOMAIN D.row THEN D.row[i] ELSE new[i - D.last]]
           m == D.last + Len(new)
<1>1. D = [row |-> D.row, last |-> D.last, value |-> D.value, def |-> D.def] /\ D.last \in Nat
      /\ DOMAIN D.row \subseteq 1..D.last
  BY DEF DataTyped, Shaped
<1>2. A = [D EXCEPT !.row = r, !.last = m]
  BY DEF Added, Taken
<1>3. A.row = r
  <2> HIDE DEF r, m
  <2> QED
    BY <1>1, <1>2
<1>4. A.last = m /\ A.value = D.value /\ A.def = D.def
  BY <1>1, AddedRows DEF DataTyped
<1>5. \A i \in DOMAIN D.row : i \notin D.last + 1 .. D.last + Len(new)
  BY <1>1
<1>6. \A n \in 1..Len(new) : D.last + n \in D.last + 1 .. D.last + Len(new) /\ (D.last + n) - D.last = n
  BY <1>1
<1>7. \A n \in 1..Len(new) : r[D.last + n] = new[n]
  BY <1>5, <1>6
<1> QED
  BY <1>1, <1>3, <1>4, <1>5, <1>7

\* The rows other than those of contact c for some kinds of data, and that they
\* stay as they are.
Others(rows, c, K) == {i \in DOMAIN rows : ~(rows[i].contact = c /\ rows[i].kind \in K)}
SameOthers(old, new, c, K) ==
  Others(new, c, K) = Others(old, c, K) /\ \A i \in Others(old, c, K) : new[i] = old[i]

\* The rows of other contacts stay as they are.
OtherRows(old, new, c) ==
  \A d, k : d # c => Own(new, d, k) = Own(old, d, k) /\ \A i \in Own(old, d, k) : new[i] = old[i]

LEMMA OthersKept ==
  ASSUME NEW old, NEW new, NEW c, NEW K, SameOthers(old, new, c, K)
  PROVE  \A d, k : d # c \/ k \notin K =>
           Own(new, d, k) = Own(old, d, k) /\ \A i \in Own(old, d, k) : new[i] = old[i]
<1> SUFFICES ASSUME NEW d, NEW k, d # c \/ k \notin K
             PROVE  Own(new, d, k) = Own(old, d, k) /\ \A i \in Own(old, d, k) : new[i] = old[i]
  OBVIOUS
<1>1. \A i \in Own(old, d, k) : i \in Others(old, c, K)
  BY DEF Own, Others
<1>2. \A i \in Own(new, d, k) : i \in Others(new, c, K)
  BY DEF Own, Others
<1>3. \A i \in Own(old, d, k) : new[i] = old[i] /\ i \in DOMAIN new
  BY <1>1 DEF SameOthers, Others
<1>4. \A i \in Own(new, d, k) : new[i] = old[i] /\ i \in DOMAIN old
  BY <1>2 DEF SameOthers, Others
<1> QED
  BY <1>3, <1>4 DEF Own

LEMMA OthersChain ==
  ASSUME NEW old, NEW mid, NEW new, NEW c, NEW K, NEW L, SameOthers(old, mid, c, K), SameOthers(mid, new, c, L)
  PROVE  SameOthers(old, new, c, K \cup L)
<1> DEFINE M == K \cup L
<1>1. \A i : i \in Others(old, c, M) <=> i \in Others(mid, c, M)
  BY DEF SameOthers, Others
<1>2. \A i : i \in Others(mid, c, M) <=> i \in Others(new, c, M)
  BY DEF SameOthers, Others
<1>3. \A i \in Others(old, c, M) : i \in Others(old, c, K) /\ i \in Others(mid, c, L)
  BY <1>1 DEF Others
<1> QED
  BY <1>1, <1>2, <1>3 DEF SameOthers

\* A value gets an id, and a kind of list its default.
WithId(v, i) == [v EXCEPT !.id = i]
WithDefault(def, k, i) == [def EXCEPT ![k] = i]

\* What cts_insert_contact_data does for a list of which the items new are
\* written.
Inserted(D, c, k, list, new, I) ==
  /\ DOMAIN I.row = DOMAIN D.row \cup (D.last + 1 .. D.last + Len(new))
  /\ \A i \in DOMAIN D.row : I.row[i] = D.row[i] /\ i \notin D.last + 1 .. D.last + Len(new)
  /\ \A n \in 1..Len(new) :
       I.row[D.last + n] = Row(c, k, D.value[new[n]].text, D.value[new[n]].cell, Null)
  /\ Len(new) \in Nat /\ DOMAIN new = 1..Len(new) /\ D.last \in Nat
  /\ I.last = D.last + Len(new)
  /\ \A p \in Pointers : I.value[p] =
       IF k \in Defaults /\ p \in Range(new) THEN WithId(D.value[p], D.last + At(new, p))
       ELSE D.value[p]
  /\ I.def = IF k \in Defaults /\ list # <<>>
             THEN WithDefault(D.def, k, NewDefault(D.value, k, new, D.last)) ELSE D.def

LEMMA InsertedRows ==
  ASSUME NEW D, NEW val, DataTyped(D, val), NEW c, NEW k \in Kinds, NEW list \in Seq(0..MaxValues)
  PROVE  Inserted(D, c, k, list, Written(D.value, list), InsertList(D, c, k, list))
<1> DEFINE I == InsertList(D, c, k, list)
           new == Written(D.value, list)
           rows == [i \in DOMAIN new |-> Row(c, k, D.value[new[i]].text, D.value[new[i]].cell, Null)]
           id(p) == D.last + (CHOOSE i \in DOMAIN new : new[i] = p)
           learned == IF k \in Defaults THEN Range(new) ELSE {}
           v == [p \in Pointers |-> IF p \in learned THEN [D.value[p] EXCEPT !.id = id(p)] ELSE D.value[p]]
           A == Added(D, rows)
           def == IF k \in Defaults /\ list # <<>>
                  THEN [A.def EXCEPT ![k] = NewDefault(D.value, k, new, D.last)] ELSE A.def
<1>1. I = [A EXCEPT !.value = v, !.def = def]
  BY DEF InsertList
<1>2. Len(new) \in Nat /\ DOMAIN new = 1..Len(new)
  BY SelectedLists
<1> HIDE DEF new
<1>3. DOMAIN rows = 1..Len(new) /\ Len(rows) = Len(new) /\ Shaped(D)
  BY <1>2 DEF DataTyped
<1>4. \A n \in 1..Len(new) : rows[n] = Row(c, k, D.value[new[n]].text, D.value[new[n]].cell, Null)
  BY <1>2
<1>5. /\ DOMAIN A.row = DOMAIN D.row \cup (D.last + 1 .. D.last + Len(new))
      /\ \A i \in DOMAIN D.row : A.row[i] = D.row[i] /\ i \notin D.last + 1 .. D.last + Len(new)
      /\ \A n \in 1..Len(new) : A.row[D.last + n] = rows[n]
      /\ A.last = D.last + Len(new) /\ A.value = D.value /\ A.def = D.def /\ D.last \in Nat
  <2> HIDE DEF rows
  <2> QED
    BY <1>2, <1>3, AddedWhere
<1>6. Shaped(A)
  <2> HIDE DEF rows
  <2> QED
    BY <1>2, <1>3, AddedRows
<1> HIDE DEF A
<1>7. I.row = A.row /\ I.last = A.last /\ I.value = v /\ I.def = def
  <2> HIDE DEF v, def
  <2>1. [A EXCEPT !.value = v, !.def = def] = [row |-> A.row, last |-> A.last, value |-> v, def |-> def]
    BY <1>6, DataChanged
  <2> QED
    BY ONLY <1>1, <2>1
<1>8. \A p \in Pointers : v[p] =
        IF k \in Defaults /\ p \in Range(new) THEN WithId(D.value[p], D.last + At(new, p))
        ELSE D.value[p]
  BY DEF At, WithId
<1>9. def = IF k \in Defaults /\ list # <<>>
            THEN WithDefault(D.def, k, NewDefault(D.value, k, new, D.last)) ELSE D.def
  BY <1>5 DEF WithDefault
<1> HIDE DEF v, def, rows, I
<1>10. Inserted(D, c, k, list, new, I)
  BY <1>2, <1>4, <1>5, <1>7, <1>8, <1>9 DEF Inserted
<1> QED
  BY <1>10 DEF I, new

\* The rows of the list that is written are the last ones.
Appended(old, new, n, m, c, k) ==
  /\ DOMAIN new = DOMAIN old \cup (n + 1 .. n + m) /\ n \in Nat /\ m \in Nat
  /\ \A i \in DOMAIN old : new[i] = old[i] /\ i \notin n + 1 .. n + m
  /\ \A j \in 1..m : new[n + j].contact = c /\ new[n + j].kind = k

LEMMA InsertedOwn ==
  ASSUME NEW old, NEW new, NEW n, NEW m, NEW c, NEW k, Appended(old, new, n, m, c, k)
  PROVE  /\ Own(new, c, k) = Own(old, c, k) \cup (n + 1 .. n + m)
         /\ \A i \in Own(old, c, k) : new[i] = old[i]
         /\ SameOthers(old, new, c, {k})
<1> USE DEF Appended
<1> DEFINE more == n + 1 .. n + m
<1>1. \A i \in more : new[i].contact = c /\ new[i].kind = k
  <2> SUFFICES ASSUME NEW i \in more PROVE new[i].contact = c /\ new[i].kind = k
    OBVIOUS
  <2>1. i - n \in 1..m /\ n + (i - n) = i
    OBVIOUS
  <2> QED
    BY <2>1
<1>2. DOMAIN new = DOMAIN old \cup more /\ \A i \in DOMAIN old : new[i] = old[i] /\ i \notin more
  OBVIOUS
<1> HIDE DEF more, Appended
<1>3. Own(new, c, k) = Own(old, c, k) \cup more
  BY <1>1, <1>2 DEF Own
<1>4. SameOthers(old, new, c, {k})
  <2>1. \A i : i \in Others(new, c, {k}) <=> i \in Others(old, c, {k})
    BY <1>1, <1>2 DEF Others
  <2>2. \A i \in Others(old, c, {k}) : new[i] = old[i]
    BY <1>2 DEF Others
  <2> QED
    BY <2>1, <2>2 DEF SameOthers
<1> QED
  BY <1>2, <1>3, <1>4 DEF more, Own

\* Values that may get an id, and change in nothing else.
SameBut(old, new, P) ==
  \A p \in Pointers :
    /\ p \notin P => new[p] = old[p]
    /\ p \in P => /\ old[p] # Null /\ new[p] # Null
                  /\ new[p].text = old[p].text /\ new[p].cell = old[p].cell /\ new[p].def = old[p].def
                  /\ new[p].deleted = old[p].deleted /\ new[p].embedded = old[p].embedded

\* An id is one of a row: only values of a struct that have a text get one.
IdsTold(val) ==
  \A p \in Pointers : val[p] # Null /\ val[p].id # 0 => val[p].embedded /\ val[p].text # Null

\* The items that are written.
WrittenSet(val, list) == {p \in ItemSet(list) : ~val[p].deleted /\ val[p].text # Null}

LEMMA TakenItems ==
  ASSUME NEW val, NEW list, Takes(val, list), NEW v \in [Pointers -> {Null} \cup SomeValues],
         Embedded(v) = Embedded(val)
  PROVE  \A p \in ItemSet(list) : p \in Pointers /\ v[p] \in SomeValues /\ v[p] # Null /\ v[p].embedded
BY DEF Takes, Embedded

LEMMA IdSet ==
  ASSUME NEW v \in SomeValues, NEW i
  PROVE  LET w == WithId(v, i) IN
         /\ w.id = i /\ w.text = v.text /\ w.cell = v.cell /\ w.def = v.def /\ w.deleted = v.deleted
         /\ w.embedded = v.embedded
BY DEF SomeValues, Values, WithId

\* The values after the items new were written, and what is known of their
\* positions.
IdsGiven(D, I, k, list, new) ==
  /\ Range(new) = WrittenSet(D.value, list)
  /\ \A p \in Range(new) : At(new, p) \in 1..Len(new) /\ new[At(new, p)] = p
  /\ \A n \in 1..Len(new) : new[n] \in Range(new) /\ At(new, new[n]) = n
  /\ SameBut(D.value, I.value, IF k \in Defaults THEN Range(new) ELSE {})
  /\ k \in Defaults => \A p \in Range(new) : I.value[p].id = D.last + At(new, p)
  /\ IdsTold(D.value) => IdsTold(I.value)

LEMMA InsertedValues ==
  ASSUME NEW D, NEW val, DataTyped(D, val), NEW c, NEW k \in Kinds, NEW list, Takes(val, list),
         Distinct(list), NEW I, I = InsertList(D, c, k, list), I.last <= MaxRows, DataTyped(I, val),
         NEW new, new = Written(D.value, list)
  PROVE  IdsGiven(D, I, k, list, new)
<1> DEFINE m == Len(new)
           n0 == D.last
           v == D.value
           w == I.value
<1>1. list \in Seq(0..MaxValues)
  BY DEF Takes
<1>2. DOMAIN new = 1..m /\ m \in Nat /\ n0 \in Nat
      /\ \A p \in Pointers : w[p] =
           IF k \in Defaults /\ p \in Range(new) THEN WithId(v[p], n0 + At(new, p)) ELSE v[p]
  <2>1. Inserted(D, c, k, list, new, I)
    BY <1>1, InsertedRows
  <2> QED
    BY <2>1 DEF Inserted
<1>3. Range(new) = WrittenSet(v, list) /\ Distinct(new) /\ 0 \notin Range(new)
  BY <1>1, PartItems DEF WrittenSet
<1>4. /\ \A p \in Range(new) : At(new, p) \in 1..m /\ new[At(new, p)] = p
      /\ \A n \in 1..m : new[n] \in Range(new) /\ At(new, new[n]) = n
  BY <1>2, <1>3, Positions
<1>5. v \in [Pointers -> {Null} \cup SomeValues] /\ w \in [Pointers -> {Null} \cup SomeValues]
      /\ Embedded(v) = Embedded(val) /\ Embedded(w) = Embedded(val)
  BY DEF DataTyped
<1>6. \A p \in Range(new) : /\ p \in Pointers /\ v[p] \in SomeValues /\ v[p] # Null /\ v[p].embedded
                            /\ w[p] # Null /\ v[p].text # Null
  <2>1. \A p \in ItemSet(list) : p \in Pointers /\ v[p] \in SomeValues /\ v[p] # Null /\ v[p].embedded
    BY <1>5, TakenItems
  <2>2. \A p \in ItemSet(list) : w[p] # Null
    BY <1>5, TakenItems
  <2> QED
    BY <1>3, <2>1, <2>2 DEF WrittenSet
<1> HIDE DEF v, w, m, n0
<1>7. ASSUME NEW p \in Range(new), k \in Defaults
      PROVE  /\ w[p].id = n0 + At(new, p)
             /\ w[p].text = v[p].text /\ w[p].cell = v[p].cell /\ w[p].def = v[p].def
             /\ w[p].deleted = v[p].deleted /\ w[p].embedded = v[p].embedded
  <2> DEFINE u == v[p]
             i == n0 + At(new, p)
  <2>1. w[p] = WithId(u, i) /\ u \in SomeValues
    BY <1>2, <1>6, <1>7
  <2> HIDE DEF u, i
  <2> QED
    BY <2>1, IdSet DEF u, i
<1>8. \A p \in Pointers : ~(k \in Defaults /\ p \in Range(new)) => w[p] = v[p]
  BY <1>2
<1>9. SameBut(v, w, IF k \in Defaults THEN Range(new) ELSE {})
  BY <1>6, <1>7, <1>8 DEF SameBut
<1>10. IdsTold(v) => IdsTold(w)
  BY <1>6, <1>7, <1>8 DEF IdsTold
<1> QED
  BY <1>3, <1>4, <1>7, <1>9, <1>10 DEF v, w, m, n0, IdsGiven

-----------------------------------------------------------------------------
(* One list is inserted.                                                    *)

\* The items written that are marked as the default, and those that are marked
\* but have no text to write.
Marked(val, list) == {p \in WrittenSet(val, list) : val[p].def}
Textless(val, list) == {p \in ItemSet(list) : ~val[p].deleted /\ val[p].text = Null /\ val[p].def}
MarkKept(val, list, def) ==
  Marked(val, list) # {} /\ Textless(val, list) = {} => \E p \in Marked(val, list) : def = val[p].id

\* The rows of contact c for a kind are the items written, one each.
Placing(rows, val, c, k, list, at) ==
  /\ \A p \in WrittenSet(val, list) :
       /\ at[p] \in Own(rows, c, k) /\ rows[at[p]].text = val[p].text
       /\ k \in Defaults => at[p] = val[p].id
  /\ \A p, q \in WrittenSet(val, list) : at[p] = at[q] => p = q
  /\ \A i \in Own(rows, c, k) : \E p \in WrittenSet(val, list) : at[p] = i
Placed(rows, val, c, k, list) ==
  \E at \in [WrittenSet(val, list) -> Own(rows, c, k)] : Placing(rows, val, c, k, list, at)

\* The ids of the items that are written grow along the list, and those of the
\* items that have one, which come first: the order in which a read finds rows.
Rising(val, list) ==
  \A i, j \in DOMAIN list : i < j /\ list[i] \in WrittenSet(val, list) /\ list[j] \in WrittenSet(val, list) =>
    val[list[i]].id < val[list[j]].id
Ordered(val, list) ==
  \A i, j \in DOMAIN list : i < j /\ list[i] # 0 /\ list[j] # 0 /\ val[list[j]].id # 0 =>
    val[list[i]].id # 0 /\ val[list[i]].id < val[list[j]].id
Ready(rows, val, c, k, list) == Own(rows, c, k) = {} \/ Ordered(val, list)

ListDone(D, E, c, k, list) ==
  /\ SameOthers(D.row, E.row, c, {k})
  /\ SameBut(D.value, E.value, ItemSet(list))
  /\ IdsTold(D.value) => IdsTold(E.value)
  /\ Placed(E.row, E.value, c, k, list)
  /\ k \in Defaults /\ Ready(D.row, D.value, c, k, list) => Rising(E.value, list)
  /\ \A l \in Defaults : l # k \/ list = <<>> => E.def[l] = D.def[l]
  /\ k \in Defaults /\ list # <<>> =>
       E.def[k] \in Own(E.row, c, k) \cup {0} /\ MarkKept(E.value, list, E.def[k])

LEMMA SameWritten ==
  ASSUME NEW v, NEW w, NEW P, SameBut(v, w, P), NEW list, ItemSet(list) \subseteq Pointers
  PROVE  /\ WrittenSet(w, list) = WrittenSet(v, list) /\ Marked(w, list) = Marked(v, list)
         /\ Textless(w, list) = Textless(v, list)
<1>1. \A p \in ItemSet(list) : w[p].text = v[p].text /\ w[p].deleted = v[p].deleted /\ w[p].def = v[p].def
  BY DEF SameBut
<1> QED
  BY <1>1 DEF WrittenSet, Marked, Textless

\* It is enough to know it of some of the values.
LEMMA SameWiden ==
  ASSUME NEW v, NEW w, NEW P, SameBut(v, w, P), NEW Q, P \subseteq Q, \A p \in Q : v[p] # Null
  PROVE  SameBut(v, w, Q)
<1> SUFFICES ASSUME NEW p \in Pointers, p \in Q, p \notin P
             PROVE  w[p] = v[p] /\ v[p] # Null
  BY DEF SameBut
<1> QED
  BY DEF SameBut

\* A default that is the place of one of the items new, a marked one if any is.
IsNewDefault(val, new, n, d) ==
  /\ d = 0 \/ d \in n + 1 .. n + Len(new)
  /\ (\E i \in DOMAIN new : val[new[i]].def) => \E i \in DOMAIN new : val[new[i]].def /\ d = n + i

LEMMA NewDefaultMarked ==
  ASSUME NEW val, NEW k, NEW new, Len(new) \in Nat, DOMAIN new = 1..Len(new), NEW n \in Nat,
         NEW d, d = NewDefault(val, k, new, n)
  PROVE  IsNewDefault(val, new, n, d)
<1> DEFINE marked == {i \in DOMAIN new : val[new[i]].def}
           cell == {i \in DOMAIN new : k = "number" /\ val[new[i]].cell}
<1>1. d = IF marked # {} THEN n + Max(marked) ELSE IF cell # {} THEN n + Min(cell) ELSE 0
  BY DEF NewDefault
<1>2. marked \subseteq 1..Len(new) /\ cell \subseteq 1..Len(new) /\ cell \subseteq Nat
  OBVIOUS
<1>3. (\E i \in DOMAIN new : val[new[i]].def) => marked # {}
  OBVIOUS
<1>4. \A i \in marked : i \in DOMAIN new /\ val[new[i]].def
  OBVIOUS
<1> HIDE DEF marked, cell
<1>5. marked # {} => Max(marked) \in marked
  BY <1>2, Largest
<1>6. cell # {} => Min(cell) \in cell
  BY <1>2, Smallest
<1>7. \A i \in 1..Len(new) : n + i \in n + 1 .. n + Len(new)
  OBVIOUS
<1> QED
  BY <1>1, <1>2, <1>3, <1>4, <1>5, <1>6, <1>7 DEF IsNewDefault

\* The rows that are added, whatever rows of that kind there were.
RowsGiven(D, I, c, k, list, new) ==
  /\ Len(new) \in Nat /\ DOMAIN new = 1..Len(new) /\ D.last \in Nat
  /\ Own(I.row, c, k) = Own(D.row, c, k) \cup (D.last + 1 .. D.last + Len(new))
  /\ \A i \in Own(D.row, c, k) : I.row[i] = D.row[i] /\ i \in 1..D.last
  /\ \A n \in 1..Len(new) : I.row[D.last + n].text = D.value[new[n]].text
  /\ SameOthers(D.row, I.row, c, {k})
  /\ \A l \in Defaults : l # k \/ list = <<>> => I.def[l] = D.def[l]
  /\ k \in Defaults /\ list # <<>> => I.def[k] = NewDefault(D.value, k, new, D.last)

LEMMA InsertedList ==
  ASSUME NEW D, NEW val, DataTyped(D, val), NEW c, NEW k \in Kinds, NEW list, Takes(val, list),
         Distinct(list), NEW I, I = InsertList(D, c, k, list), I.last <= MaxRows, DataTyped(I, val),
         NEW new, new = Written(D.value, list)
  PROVE  RowsGiven(D, I, c, k, list, new)
<1> DEFINE m == Len(new)
           n0 == D.last
           r == [n \in 1..m |-> Row(c, k, D.value[new[n]].text, D.value[new[n]].cell, Null)]
<1>1. list \in Seq(0..MaxValues)
  BY DEF Takes
<1>2. Inserted(D, c, k, list, new, I)
  BY <1>1, InsertedRows
<1>3. /\ DOMAIN I.row = DOMAIN D.row \cup (n0 + 1 .. n0 + m)
      /\ \A i \in DOMAIN D.row : I.row[i] = D.row[i] /\ i \notin n0 + 1 .. n0 + m
      /\ \A n \in 1..m : I.row[n0 + n] = r[n]
      /\ m \in Nat /\ DOMAIN new = 1..m /\ n0 \in Nat
  BY <1>2 DEF Inserted
<1>4. \A n \in 1..m : r[n].contact = c /\ r[n].kind = k /\ r[n].text = D.value[new[n]].text
  BY DEF Row
<1>5. I.def = IF k \in Defaults /\ list # <<>> THEN WithDefault(D.def, k, NewDefault(D.value, k, new, n0))
              ELSE D.def
  BY <1>2 DEF Inserted
<1>6. /\ \A l \in Defaults : l # k \/ list = <<>> => I.def[l] = D.def[l]
      /\ k \in Defaults /\ list # <<>> => I.def[k] = NewDefault(D.value, k, new, n0)
  <2>1. D.def \in [Defaults -> 0..MaxRows]
    BY DEF DataTyped
  <2>2. \A d : /\ \A l \in Defaults : l # k => WithDefault(D.def, k, d)[l] = D.def[l]
               /\ k \in Defaults => WithDefault(D.def, k, d)[k] = d
    BY <2>1 DEF WithDefault
  <2> QED
    BY <1>5, <2>2
<1>7. DOMAIN D.row \subseteq 1..n0
  BY DEF DataTyped
<1> HIDE DEF m, n0, r
<1>8. /\ Own(I.row, c, k) = Own(D.row, c, k) \cup (n0 + 1 .. n0 + m)
      /\ \A i \in Own(D.row, c, k) : I.row[i] = D.row[i]
      /\ SameOthers(D.row, I.row, c, {k})
  <2> DEFINE old == D.row
             rows == I.row
  <2>1. Appended(old, rows, n0, m, c, k)
    <3>1. \A j \in 1..m : rows[n0 + j] = r[j] /\ r[j].contact = c /\ r[j].kind = k
      BY ONLY <1>3, <1>4
    <3>2. /\ DOMAIN rows = DOMAIN old \cup (n0 + 1 .. n0 + m) /\ n0 \in Nat /\ m \in Nat
          /\ \A i \in DOMAIN old : rows[i] = old[i] /\ i \notin n0 + 1 .. n0 + m
      BY ONLY <1>3
    <3> QED
      BY ONLY <3>1, <3>2 DEF Appended
  <2> HIDE DEF old, rows
  <2>2. /\ Own(rows, c, k) = Own(old, c, k) \cup (n0 + 1 .. n0 + m)
        /\ \A i \in Own(old, c, k) : rows[i] = old[i]
        /\ SameOthers(old, rows, c, {k})
    BY ONLY <2>1, InsertedOwn
  <2> QED
    BY <2>2 DEF old, rows
<1>9. \A i \in Own(D.row, c, k) : i \in 1..n0
  BY <1>7 DEF Own
<1>10. \A n \in 1..m : I.row[n0 + n].text = D.value[new[n]].text
  BY <1>3, <1>4
<1> QED
  BY <1>3, <1>6, <1>8, <1>9, <1>10 DEF m, n0, RowsGiven

LEMMA InsertListDone ==
  ASSUME NEW D, NEW val, DataTyped(D, val), NEW c, NEW k \in Kinds, NEW list, Takes(val, list),
         Distinct(list), NEW I, I = InsertList(D, c, k, list), I.last <= MaxRows, DataTyped(I, val),
         Own(D.row, c, k) = {}
  PROVE  ListDone(D, I, c, k, list)
<1> DEFINE new == Written(D.value, list)
           m == Len(new)
           n0 == D.last
           v == D.value
           w == I.value
<1>1. /\ m \in Nat /\ DOMAIN new = 1..m /\ n0 \in Nat
      /\ Own(I.row, c, k) = n0 + 1 .. n0 + m
      /\ \A n \in 1..m : I.row[n0 + n].text = v[new[n]].text
      /\ SameOthers(D.row, I.row, c, {k})
      /\ \A l \in Defaults : l # k \/ list = <<>> => I.def[l] = D.def[l]
      /\ k \in Defaults /\ list # <<>> => I.def[k] = NewDefault(v, k, new, n0)
  <2>1. RowsGiven(D, I, c, k, list, new)
    BY InsertedList
  <2> QED
    BY <2>1 DEF RowsGiven
<1>2. /\ Range(new) = WrittenSet(v, list)
      /\ \A p \in Range(new) : At(new, p) \in 1..m /\ new[At(new, p)] = p
      /\ \A n \in 1..m : new[n] \in Range(new) /\ At(new, new[n]) = n
      /\ SameBut(v, w, IF k \in Defaults THEN Range(new) ELSE {})
      /\ k \in Defaults => \A p \in Range(new) : w[p].id = n0 + At(new, p)
      /\ IdsTold(v) => IdsTold(w)
  <2>1. IdsGiven(D, I, k, list, new)
    BY InsertedValues
  <2> QED
    BY <2>1 DEF IdsGiven
<1>3. v \in [Pointers -> {Null} \cup SomeValues] /\ Embedded(v) = Embedded(val)
  BY DEF DataTyped
<1>4. \A p \in ItemSet(list) : p \in Pointers /\ v[p] # Null
  BY <1>3, TakenItems
<1> HIDE DEF v, w, m, n0, new
<1>5. Range(new) \subseteq ItemSet(list)
  BY <1>2 DEF WrittenSet
<1>6. SameBut(v, w, ItemSet(list))
  BY <1>2, <1>4, <1>5, SameWiden
<1>7. ItemSet(list) \subseteq Pointers
  BY <1>4
<1>8. WrittenSet(w, list) = Range(new) /\ Marked(w, list) = Marked(v, list)
  BY <1>2, <1>6, <1>7, SameWritten
<1>9. \A p \in Range(new) : w[p].text = v[p].text
  BY <1>5, <1>6, <1>7 DEF SameBut
<1>10. Placed(I.row, w, c, k, list)
  <2> DEFINE at == [p \in Range(new) |-> n0 + At(new, p)]
  <2>1. \A p \in Range(new) : at[p] = n0 + At(new, p) /\ at[p] \in Own(I.row, c, k)
    BY <1>1, <1>2
  <2>2. \A p \in Range(new) : I.row[at[p]].text = w[p].text
    <3> SUFFICES ASSUME NEW p \in Range(new) PROVE I.row[at[p]].text = w[p].text
      OBVIOUS
    <3>1. At(new, p) \in 1..m /\ new[At(new, p)] = p /\ at[p] = n0 + At(new, p) /\ w[p].text = v[p].text
      BY <1>2, <1>9, <2>1
    <3> QED
      BY <1>1, <3>1
  <2>3. ASSUME NEW p \in Range(new), NEW q \in Range(new), at[p] = at[q] PROVE p = q
    <3>1. At(new, p) = At(new, q)
      BY <1>1, <1>2, <2>1, <2>3
    <3> QED
      BY <1>2, <3>1
  <2>4. ASSUME NEW i \in Own(I.row, c, k) PROVE \E p \in Range(new) : at[p] = i
    <3>1. i - n0 \in 1..m /\ n0 + (i - n0) = i
      BY <1>1
    <3>2. new[i - n0] \in Range(new) /\ at[new[i - n0]] = i
      BY <1>2, <2>1, <3>1
    <3> QED
      BY <3>2
  <2>5. at \in [WrittenSet(w, list) -> Own(I.row, c, k)]
    BY <1>8, <2>1
  <2> HIDE DEF at
  <2>6. Placing(I.row, w, c, k, list, at)
    BY <1>2, <1>8, <2>1, <2>2, <2>3, <2>4 DEF Placing
  <2> QED
    BY <2>5, <2>6 DEF Placed
<1>11. ASSUME k \in Defaults, list # <<>>
       PROVE  I.def[k] \in Own(I.row, c, k) \cup {0} /\ MarkKept(w, list, I.def[k])
  <2>1. I.def[k] = NewDefault(v, k, new, n0)
    BY <1>1, <1>11
  <2>2. /\ I.def[k] = 0 \/ I.def[k] \in n0 + 1 .. n0 + m
        /\ (\E i \in DOMAIN new : v[new[i]].def) => \E i \in DOMAIN new : v[new[i]].def /\ I.def[k] = n0 + i
    <3>1. IsNewDefault(v, new, n0, I.def[k])
      BY <1>1, <2>1, NewDefaultMarked DEF m
    <3> QED
      BY <3>1 DEF IsNewDefault, m
  <2>3. ASSUME NEW p \in Marked(w, list) PROVE \E q \in Marked(w, list) : I.def[k] = w[q].id
    <3>1. p \in Range(new) /\ v[p].def
      BY <1>2, <1>8 DEF Marked
    <3>2. PICK i \in 1..m : v[new[i]].def /\ I.def[k] = n0 + i
      BY <1>1, <1>2, <2>2, <3>1
    <3>3. new[i] \in Range(new) /\ At(new, new[i]) = i
      BY <1>2
    <3>4. new[i] \in Marked(w, list) /\ w[new[i]].id = n0 + i
      BY <1>2, <1>8, <1>11, <3>2, <3>3 DEF Marked
    <3> QED
      BY <3>2, <3>4
  <2> QED
    BY <1>1, <2>2, <2>3 DEF MarkKept
<1>12. k \in Defaults => Rising(w, list)
  <2> SUFFICES ASSUME k \in Defaults, NEW i \in DOMAIN list, NEW j \in DOMAIN list, i < j,
                      list[i] \in Range(new), list[j] \in Range(new)
               PROVE  w[list[i]].id < w[list[j]].id
    BY <1>8 DEF Rising
  <2>1. InOrder(new, list)
    BY PartsInOrder DEF Takes, new
  <2>2. At(new, list[i]) < At(new, list[j])
    BY <2>1 DEF InOrder
  <2> QED
    BY <1>1, <1>2, <2>2
<1> QED
  BY <1>1, <1>2, <1>6, <1>10, <1>11, <1>12 DEF ListDone, v, w

-----------------------------------------------------------------------------
(* One list is updated.                                                     *)

\* The items that have a row have one each of ids, and each of ids is one.
Fits(val, list, ids) ==
  /\ \A p \in ItemSet(list) : val[p].id \in ids \cup {0}
  /\ \A p, q \in ItemSet(list) : val[p].id = val[q].id /\ val[p].id # 0 => p = q
  /\ \A i \in ids : \E p \in ItemSet(list) : val[p].id = i

LEMMA RowKept ==
  ASSUME NEW r \in DataRows, NEW t, NEW cell
  PROVE  LET q == [r EXCEPT !.text = t, !.cell = cell] IN
         q.contact = r.contact /\ q.kind = r.kind /\ q.text = t
BY DEF DataRows

\* What the UPDATEs and DELETEs of the items that have rows leave.
ItemsDone(D, B, c, k, list) ==
  /\ B.last = D.last /\ B.value = D.value /\ B.def = D.def
  /\ SameOthers(D.row, B.row, c, {k})
  /\ \A p \in WrittenSet(D.value, list) : D.value[p].id # 0 =>
       D.value[p].id \in Own(B.row, c, k) /\ B.row[D.value[p].id].text = D.value[p].text
  /\ \A i \in Own(B.row, c, k) : i # 0 /\ \E p \in WrittenSet(D.value, list) : D.value[p].id = i

LEMMA ItemsUpdated ==
  ASSUME NEW D, NEW val, DataTyped(D, val), NEW c, NEW k \in Kinds, NEW list, Takes(val, list),
         Fits(D.value, list, Own(D.row, c, k)), NEW B, B = UpdateItems(D, WithRow(D.value, list))
  PROVE  ItemsDone(D, B, c, k, list)
<1> DEFINE v == D.value
           old == WithRow(v, list)
           gone == Gone(v, old)
           of(i) == {n \in DOMAIN old : v[old[n]].id = i}
           u(i) == v[old[Max(of(i))]]
           rows == [i \in DOMAIN D.row \ gone |->
                      IF of(i) = {} THEN D.row[i] ELSE [D.row[i] EXCEPT !.text = u(i).text, !.cell = u(i).cell]]
           own == Own(D.row, c, k)
<1>1. B = [D EXCEPT !.row = rows]
  BY DEF UpdateItems
<1>2. Shaped(D) /\ DOMAIN D.row \subseteq 1..D.last /\ D.row \in [DOMAIN D.row -> DataRows] /\ D.last \in Nat
      /\ v \in [Pointers -> {Null} \cup SomeValues] /\ list \in Seq(0..MaxValues)
  BY DEF DataTyped, Shaped, Takes
<1>3. B.row = rows /\ B.last = D.last /\ B.value = D.value /\ B.def = D.def
  <2> HIDE DEF rows
  <2>1. Shaped(D)
    BY <1>2
  <2>2. [D EXCEPT !.row = rows] = [row |-> rows, last |-> D.last, value |-> D.value, def |-> D.def]
    BY ONLY <2>1, DataChanged
  <2> QED
    BY ONLY <1>1, <2>2
<1>4. /\ \A n \in DOMAIN old : old[n] \in ItemSet(list) /\ v[old[n]].id # 0
      /\ \A p \in ItemSet(list) : v[p].id # 0 => \E n \in DOMAIN old : old[n] = p
      /\ Len(old) \in Nat /\ DOMAIN old = 1..Len(old)
  <2>1. Range(old) = {p \in ItemSet(list) : v[p].id # 0}
    BY <1>2, PartItems
  <2>2. Len(old) \in Nat /\ DOMAIN old = 1..Len(old)
    BY <1>2, SelectedLists
  <2> HIDE DEF old, v
  <2>3. \A n \in DOMAIN old : old[n] \in Range(old)
    BY DEF Range
  <2>4. \A p \in Range(old) : \E n \in DOMAIN old : old[n] = p
    BY DEF Range
  <2> QED
    BY <2>1, <2>2, <2>3, <2>4
<1>5. /\ \A p \in ItemSet(list) : v[p].id \in own \cup {0}
      /\ \A p, q \in ItemSet(list) : v[p].id = v[q].id /\ v[p].id # 0 => p = q
      /\ \A i \in own : \E p \in ItemSet(list) : v[p].id = i
  BY DEF Fits
<1>6. \A i \in own : i # 0 /\ i \in DOMAIN D.row /\ D.row[i].contact = c /\ D.row[i].kind = k
  BY <1>2 DEF Own
<1>7. \A i \in gone : \E p \in ItemSet(list) : v[p].id = i /\ i # 0 /\ (v[p].deleted \/ v[p].text = Null)
  <2> HIDE DEF old, v
  <2> QED
    BY <1>4 DEF Gone
<1>8. \A p \in ItemSet(list) : v[p].id # 0 /\ (v[p].deleted \/ v[p].text = Null) => v[p].id \in gone
  <2> HIDE DEF old, v
  <2> QED
    BY <1>4 DEF Gone
<1>9. \A i : of(i) # {} => i \in own
  <2> HIDE DEF old, v, own
  <2> QED
    BY <1>4, <1>5
<1>10. \A p \in ItemSet(list) : v[p].id # 0 => u(v[p].id) = v[p] /\ of(v[p].id) # {}
  <2> SUFFICES ASSUME NEW p \in ItemSet(list), v[p].id # 0 PROVE u(v[p].id) = v[p] /\ of(v[p].id) # {}
    OBVIOUS
  <2> DEFINE i == v[p].id
  <2> HIDE DEF old, v, own
  <2>1. of(i) # {} /\ of(i) \subseteq 1..Len(old)
    BY <1>4
  <2> DEFINE m == Max(of(i))
  <2>2. m \in of(i)
    <3> HIDE DEF of
    <3> QED
      BY <1>4, <2>1, Largest
  <2>3. old[m] \in ItemSet(list) /\ v[old[m]].id = i
    BY <1>4, <2>2
  <2>4. old[m] = p
    <3> HIDE DEF m
    <3> QED
      BY <1>5, <2>3
  <2> QED
    BY <2>1, <2>4
<1>11. \A i \in DOMAIN D.row : i \notin own => i \in DOMAIN rows /\ rows[i] = D.row[i]
  <2>1. \A i \in gone : i \in own
    <3> HIDE DEF gone, v, own
    <3> QED
      BY <1>5, <1>7
  <2> HIDE DEF gone, own, v, old
  <2> QED
    BY <1>9, <2>1
<1>12. ASSUME NEW p \in ItemSet(list), v[p].id # 0
       PROVE  /\ v[p].id \in DOMAIN rows <=> p \in WrittenSet(v, list)
              /\ p \in WrittenSet(v, list) =>
                   LET r == rows[v[p].id] IN r.contact = c /\ r.kind = k /\ r.text = v[p].text
  <2> DEFINE i == v[p].id
  <2>1. i \in own /\ i \in DOMAIN D.row /\ D.row[i] \in DataRows /\ D.row[i].contact = c /\ D.row[i].kind = k
    <3>1. i \in own
      BY <1>5, <1>12
    <3> HIDE DEF own, i, v
    <3> QED
      BY <1>2, <1>6, <3>1
  <2>2. i \in gone <=> v[p].deleted \/ v[p].text = Null
    <3> HIDE DEF gone, v, own
    <3> QED
      BY <1>5, <1>7, <1>8, <1>12
  <2>3. i \in DOMAIN rows <=> p \in WrittenSet(v, list)
    <3> HIDE DEF gone, v, own
    <3> QED
      BY <2>1, <2>2 DEF WrittenSet
  <2>4. ASSUME i \in DOMAIN rows
        PROVE  rows[i].contact = c /\ rows[i].kind = k /\ rows[i].text = v[p].text
    <3>1. of(i) # {} /\ u(i) = v[p]
      BY <1>10, <1>12
    <3> DEFINE r == D.row[i]
               t == u(i).text
               cell == u(i).cell
    <3>2. rows[i] = [r EXCEPT !.text = t, !.cell = cell]
      BY <2>4, <3>1
    <3>3. r \in DataRows /\ r.contact = c /\ r.kind = k /\ t = v[p].text
      BY <2>1, <3>1
    <3> HIDE DEF r, t, cell, rows, i, u, v
    <3> QED
      BY <3>2, <3>3, RowKept
  <2> QED
    BY <2>3, <2>4
<1> HIDE DEF rows, gone, of, u, old, v, own
<1>13. \A i \in DOMAIN rows : i \in DOMAIN D.row
  BY DEF rows
<1>14. SameOthers(D.row, rows, c, {k})
  <2>1. \A i \in Others(D.row, c, {k}) : i \in DOMAIN D.row /\ i \notin own
    BY DEF Others, Own, own
  <2>2. \A i \in Others(D.row, c, {k}) : i \in Others(rows, c, {k}) /\ rows[i] = D.row[i]
    BY <1>11, <2>1 DEF Others
  <2>3. ASSUME NEW i \in Others(rows, c, {k}) PROVE i \in Others(D.row, c, {k})
    <3>1. i \in DOMAIN rows /\ i \in DOMAIN D.row /\ ~(rows[i].contact = c /\ rows[i].kind = k)
      BY <1>13, <2>3 DEF Others
    <3>2. CASE i \in own
      <4>1. PICK p \in ItemSet(list) : v[p].id = i
        BY <1>5, <3>2
      <4>2. v[p].id # 0
        BY <1>6, <3>2, <4>1
      <4> QED
        BY <1>12, <3>1, <4>1, <4>2
    <3>3. CASE i \notin own
      BY <1>11, <3>1, <3>3 DEF Others
    <3> QED
      BY <3>2, <3>3
  <2> QED
    BY <2>2, <2>3 DEF SameOthers
<1>15. ASSUME NEW p \in WrittenSet(v, list), v[p].id # 0
       PROVE  v[p].id \in Own(rows, c, k) /\ rows[v[p].id].text = v[p].text
  <2>1. p \in ItemSet(list)
    BY <1>15 DEF WrittenSet
  <2> QED
    BY <1>12, <1>15, <2>1 DEF Own
<1>16. ASSUME NEW i \in Own(rows, c, k)
       PROVE  i # 0 /\ \E p \in WrittenSet(v, list) : v[p].id = i
  <2>1. i \in DOMAIN rows /\ i \in DOMAIN D.row /\ rows[i].contact = c /\ rows[i].kind = k
    BY <1>13, <1>16 DEF Own
  <2>2. i \in own
    BY <1>11, <2>1 DEF own, Own
  <2>3. PICK p \in ItemSet(list) : v[p].id = i
    BY <1>5, <2>2
  <2> QED
    BY <1>6, <1>12, <2>1, <2>2, <2>3
<1> QED
  BY <1>3, <1>14, <1>15, <1>16 DEF ItemsDone, v

\* A default that is new or the id of an item kept, of a marked one if any is.
IsChosen(val, kept, added, new, d) ==
  /\ d = 0 \/ d = new \/ \E i \in DOMAIN kept : d = val[kept[i]].id
  /\ new # 0 /\ (\E i \in DOMAIN added : val[added[i]].def) => d = new
  /\ (\A i \in DOMAIN added : ~val[added[i]].def) /\ (\E i \in DOMAIN kept : val[kept[i]].def) =>
       \E i \in DOMAIN kept : val[kept[i]].def /\ d = val[kept[i]].id

LEMMA ChosenMarked ==
  ASSUME NEW val, NEW k, NEW kept, Len(kept) \in Nat, DOMAIN kept = 1..Len(kept), NEW added, NEW new,
         NEW d, d = Chosen(val, k, kept, added, new)
  PROVE  IsChosen(val, kept, added, new, d)
<1> DEFINE marked == {i \in DOMAIN kept : val[kept[i]].def}
           cell == {i \in DOMAIN kept : k = "number" /\ val[kept[i]].cell}
           isAddedMarked == \E i \in DOMAIN added : val[added[i]].def
<1>1. d = IF new # 0 /\ (isAddedMarked \/ (marked = {} /\ k = "number")) THEN new
          ELSE IF marked # {} THEN val[kept[Max(marked)]].id
          ELSE IF cell # {} THEN val[kept[Min(cell)]].id ELSE 0
  BY DEF Chosen
<1>2. marked \subseteq 1..Len(kept) /\ cell \subseteq 1..Len(kept) /\ cell \subseteq Nat
  OBVIOUS
<1>3. (\E i \in DOMAIN kept : val[kept[i]].def) => marked # {}
  OBVIOUS
<1>4. /\ \A i \in marked : i \in DOMAIN kept /\ val[kept[i]].def
      /\ \A i \in cell : i \in DOMAIN kept
  OBVIOUS
<1>5. (\A i \in DOMAIN added : ~val[added[i]].def) => ~isAddedMarked
  OBVIOUS
<1> HIDE DEF marked, cell
<1>6. marked # {} => Max(marked) \in marked
  BY <1>2, Largest
<1>7. cell # {} => Min(cell) \in cell
  BY <1>2, Smallest
<1>8. d = 0 \/ d = new \/ \E i \in DOMAIN kept : d = val[kept[i]].id
  BY <1>1, <1>4, <1>6, <1>7
<1>9. ASSUME \A i \in DOMAIN added : ~val[added[i]].def, \E i \in DOMAIN kept : val[kept[i]].def
      PROVE  \E i \in DOMAIN kept : val[kept[i]].def /\ d = val[kept[i]].id
  <2>1. marked # {} /\ ~isAddedMarked
    BY <1>3, <1>5, <1>9
  <2>2. d = val[kept[Max(marked)]].id
    <3> HIDE DEF isAddedMarked
    <3> QED
      BY <1>1, <2>1
  <2> QED
    BY <1>4, <1>6, <2>1, <2>2
<1> QED
  BY <1>1, <1>8, <1>9 DEF IsChosen

\* The parts of a list that an update treats differently.
LEMMA UpdateParts ==
  ASSUME NEW v, NEW list \in Seq(0..MaxValues), Distinct(list),
         NEW old, old = WithRow(v, list), NEW added, added = WithoutRow(v, Live(v, list))
  PROVE  /\ added \in Seq(0..MaxValues) /\ Distinct(added) /\ ItemSet(added) \subseteq ItemSet(list)
         /\ ItemSet(added) = {p \in ItemSet(list) : ~v[p].deleted /\ v[p].id = 0}
         /\ Range(added) = ItemSet(added)
         /\ old \in Seq(0..MaxValues)
         /\ WrittenSet(v, added) = {p \in WrittenSet(v, list) : v[p].id = 0}
         /\ Range(Written(v, old)) = {p \in WrittenSet(v, list) : v[p].id # 0}
         /\ Len(Written(v, old)) \in Nat /\ DOMAIN Written(v, old) = 1..Len(Written(v, old))
<1> DEFINE live == Live(v, list)
<1>1. live \in Seq(0..MaxValues) /\ old \in Seq(0..MaxValues)
  BY SelectedLists
<1>2. Range(live) = {p \in ItemSet(list) : ~v[p].deleted} /\ Distinct(live) /\ 0 \notin Range(live)
  BY PartItems
<1>3. Range(old) = {p \in ItemSet(list) : v[p].id # 0} /\ 0 \notin Range(old)
  BY PartItems
<1> HIDE DEF live
<1>4. added \in Seq(0..MaxValues)
  BY <1>1, SelectedLists DEF live
<1>5. Range(added) = {p \in ItemSet(live) : v[p].id = 0} /\ Distinct(added) /\ 0 \notin Range(added)
  BY <1>1, <1>2, PartItems DEF live
<1>6. Range(Written(v, old)) = {p \in ItemSet(old) : ~v[p].deleted /\ v[p].text # Null}
  BY <1>1, PartItems
<1>7. Len(Written(v, old)) \in Nat /\ DOMAIN Written(v, old) = 1..Len(Written(v, old))
  BY <1>1, SelectedLists
<1>8. ItemSet(added) = Range(added) /\ ItemSet(old) = Range(old) /\ ItemSet(live) = Range(live)
  BY <1>2, <1>3, <1>5 DEF ItemSet
<1>9. ItemSet(added) = {p \in ItemSet(list) : ~v[p].deleted /\ v[p].id = 0}
  BY <1>2, <1>5, <1>8
<1>10. WrittenSet(v, added) = {p \in WrittenSet(v, list) : v[p].id = 0}
  BY <1>9 DEF WrittenSet
<1>11. Range(Written(v, old)) = {p \in WrittenSet(v, list) : v[p].id # 0}
  BY <1>3, <1>6, <1>8 DEF WrittenSet
<1> QED
  BY <1>1, <1>4, <1>5, <1>7, <1>8, <1>9, <1>10, <1>11

LEMMA UpdateListDone ==
  ASSUME NEW D, NEW val, DataTyped(D, val), NEW c \in 1..MaxContacts, NEW k \in Kinds, NEW list,
         Takes(val, list), Distinct(list), NEW U, U = UpdateList(D, c, k, list), U.last <= MaxRows,
         Fits(D.value, list, Own(D.row, c, k))
  PROVE  ListDone(D, U, c, k, list)
<1> DEFINE v == D.value
           n0 == D.last
           old == WithRow(v, list)
           added == WithoutRow(v, Live(v, list))
           kept == Written(v, old)
           B == UpdateItems(D, old)
           F == [B EXCEPT !.def = NoDefault]
           E == InsertList(F, c, k, added)
           newd == IF k \in Defaults THEN E.def[k] ELSE 0
           d == Chosen(v, k, kept, added, newd)
           def == IF k \in Defaults /\ list # <<>> THEN [D.def EXCEPT ![k] = d] ELSE D.def
           nw == Written(v, added)
           m == Len(nw)
           w == U.value
<1>1. U = [E EXCEPT !.def = def]
  BY DEF UpdateList
<1>2. /\ list \in Seq(0..MaxValues) /\ v \in [Pointers -> {Null} \cup SomeValues]
      /\ Embedded(v) = Embedded(val) /\ D.def \in [Defaults -> 0..MaxRows] /\ Shaped(D)
  BY DEF DataTyped, Takes
<1>3. /\ added \in Seq(0..MaxValues) /\ Distinct(added) /\ ItemSet(added) \subseteq ItemSet(list)
      /\ ItemSet(added) = {p \in ItemSet(list) : ~v[p].deleted /\ v[p].id = 0}
      /\ Range(added) = ItemSet(added)
      /\ old \in Seq(0..MaxValues)
      /\ WrittenSet(v, added) = {p \in WrittenSet(v, list) : v[p].id = 0}
      /\ Range(kept) = {p \in WrittenSet(v, list) : v[p].id # 0}
      /\ Len(kept) \in Nat /\ DOMAIN kept = 1..Len(kept)
  BY <1>2, UpdateParts
<1>4. \A n \in DOMAIN old : old[n] \in Embedded(val)
  BY <1>2, SelectedLists
<1>5. ItemsDone(D, B, c, k, list)
  BY ItemsUpdated
<1> HIDE DEF old, added, kept
<1>6. DataTyped(B, val) /\ Shaped(B) /\ B.last = n0 /\ B.value = v
  <2>1. DataTyped(B, val) /\ B.last = n0 /\ B.value = v
    BY <1>3, <1>4, UpdateItemsTyped
  <2> QED
    BY <2>1 DEF DataTyped
<1> HIDE DEF B
<1>7. NoDefault \in [Defaults -> 0..MaxRows]
  BY ConstantsAssumption DEF NoDefault
<1>8. DataTyped(F, val) /\ Shaped(F) /\ F.row = B.row /\ F.last = n0 /\ F.value = v /\ F.def = NoDefault
  BY <1>6, <1>7, DefaultSet
<1> HIDE DEF F
<1>9. Shaped(E) /\ F.last <= E.last
      /\ \A other : DataTyped(F, other) /\ Takes(other, added) /\ E.last <= MaxRows => DataTyped(E, other)
  BY <1>3, <1>8, InsertListTyped
<1> HIDE DEF E
<1>10. U.row = E.row /\ U.last = E.last /\ U.value = E.value /\ U.def = def
  <2> HIDE DEF def
  <2> QED
    BY <1>1, <1>9, DefaultSet
<1>11. Takes(val, added) /\ DataTyped(E, val) /\ E.last <= MaxRows
  <2>1. Takes(val, added)
    BY <1>3 DEF Takes
  <2> QED
    BY <1>8, <1>9, <1>10, <2>1
<1>12. RowsGiven(F, E, c, k, added, nw) /\ IdsGiven(F, E, k, added, nw)
  <2>1. nw = Written(F.value, added)
    BY <1>8
  <2> HIDE DEF nw
  <2> QED
    BY <1>3, <1>8, <1>11, <2>1, InsertedList, InsertedValues DEF E
<1>order. InOrder(nw, list)
  BY <1>2, AddedInOrder DEF added, nw
<1> HIDE DEF nw
<1>13. /\ m \in Nat /\ DOMAIN nw = 1..m /\ n0 \in Nat
       /\ Own(U.row, c, k) = Own(B.row, c, k) \cup (n0 + 1 .. n0 + m)
       /\ \A i \in Own(B.row, c, k) : U.row[i] = B.row[i] /\ i \in 1..n0
       /\ \A n \in 1..m : U.row[n0 + n].text = v[nw[n]].text
       /\ SameOthers(B.row, U.row, c, {k})
       /\ \A l \in Defaults : l # k \/ added = <<>> => E.def[l] = NoDefault[l]
       /\ k \in Defaults /\ added # <<>> => E.def[k] = NewDefault(v, k, nw, n0)
  BY <1>8, <1>10, <1>12 DEF RowsGiven
<1>14. /\ Range(nw) = WrittenSet(v, added)
       /\ \A p \in Range(nw) : At(nw, p) \in 1..m /\ nw[At(nw, p)] = p
       /\ \A n \in 1..m : nw[n] \in Range(nw) /\ At(nw, nw[n]) = n
       /\ SameBut(v, w, IF k \in Defaults THEN Range(nw) ELSE {})
       /\ k \in Defaults => \A p \in Range(nw) : w[p].id = n0 + At(nw, p)
       /\ IdsTold(v) => IdsTold(w)
  BY <1>8, <1>10, <1>12 DEF IdsGiven
<1>15. \A p \in ItemSet(list) : p \in Pointers /\ v[p] # Null
  BY <1>2, TakenItems
<1>16. /\ B.last = n0 /\ B.value = v /\ B.def = D.def
       /\ SameOthers(D.row, B.row, c, {k})
       /\ \A p \in WrittenSet(v, list) : v[p].id # 0 =>
            v[p].id \in Own(B.row, c, k) /\ B.row[v[p].id].text = v[p].text
       /\ \A i \in Own(B.row, c, k) : i # 0 /\ \E p \in WrittenSet(v, list) : v[p].id = i
  BY <1>5 DEF ItemsDone
<1>17. \A p, q \in ItemSet(list) : v[p].id = v[q].id /\ v[p].id # 0 => p = q
  BY DEF Fits
<1> HIDE DEF v, w, m, n0
<1>18. Range(nw) = {p \in WrittenSet(v, list) : v[p].id = 0} /\ WrittenSet(v, list) \subseteq ItemSet(list)
  BY <1>3, <1>14 DEF WrittenSet
<1>19. SameBut(v, w, ItemSet(list))
  <2>1. (IF k \in Defaults THEN Range(nw) ELSE {}) \subseteq ItemSet(list)
    BY <1>18
  <2> QED
    BY <1>14, <1>15, <2>1, SameWiden
<1>20. WrittenSet(w, list) = WrittenSet(v, list) /\ Marked(w, list) = Marked(v, list)
       /\ Textless(w, list) = Textless(v, list)
  <2>1. ItemSet(list) \subseteq Pointers
    BY <1>15
  <2> QED
    BY <1>19, <2>1, SameWritten
<1>21. \A p \in WrittenSet(v, list) : /\ w[p].text = v[p].text
                                      /\ v[p].id # 0 => w[p] = v[p]
                                      /\ v[p].id = 0 => p \in Range(nw)
  <2>1. \A p \in WrittenSet(v, list) : p \in Pointers /\ p \in ItemSet(list)
    BY <1>15, <1>18
  <2>2. \A p \in WrittenSet(v, list) : v[p].id # 0 => p \notin Range(nw)
    BY <1>18
  <2>3. \A p \in WrittenSet(v, list) : v[p].id # 0 => w[p] = v[p]
    BY <1>14, <2>1, <2>2 DEF SameBut
  <2> QED
    BY <1>18, <1>19, <2>1, <2>3 DEF SameBut
<1>22. Placed(U.row, w, c, k, list)
  <2> DEFINE W == WrittenSet(v, list)
             at == [p \in W |-> IF v[p].id # 0 THEN v[p].id ELSE n0 + At(nw, p)]
  <2>1. ASSUME NEW p \in W, v[p].id # 0
        PROVE  /\ at[p] = v[p].id /\ at[p] \in Own(U.row, c, k) /\ at[p] \in 1..n0
               /\ U.row[at[p]].text = w[p].text /\ at[p] = w[p].id
    <3>1. at[p] = v[p].id
      BY <2>1
    <3> HIDE DEF at
    <3>2. at[p] \in Own(B.row, c, k) /\ B.row[at[p]].text = v[p].text
      BY <1>16, <2>1, <3>1
    <3>3. U.row[at[p]] = B.row[at[p]] /\ at[p] \in 1..n0 /\ at[p] \in Own(U.row, c, k)
      BY <1>13, <3>2
    <3> QED
      BY <1>21, <2>1, <3>1, <3>2, <3>3
  <2>2. ASSUME NEW p \in W, v[p].id = 0
        PROVE  /\ at[p] = n0 + At(nw, p) /\ at[p] \in Own(U.row, c, k) /\ at[p] \in n0 + 1 .. n0 + m
               /\ U.row[at[p]].text = w[p].text /\ (k \in Defaults => at[p] = w[p].id)
               /\ p \in Range(nw)
    <3>1. at[p] = n0 + At(nw, p)
      BY <2>2
    <3> HIDE DEF at
    <3>2. p \in Range(nw) /\ w[p].text = v[p].text
      BY <1>21, <2>2
    <3>3. At(nw, p) \in 1..m /\ nw[At(nw, p)] = p
      BY <1>14, <3>2
    <3>4. n0 + At(nw, p) \in n0 + 1 .. n0 + m /\ U.row[n0 + At(nw, p)].text = v[p].text
      BY <1>13, <3>3
    <3> QED
      BY <1>13, <1>14, <3>1, <3>2, <3>4
  <2>3. \A p \in W : /\ at[p] \in Own(U.row, c, k) /\ U.row[at[p]].text = w[p].text
                     /\ k \in Defaults => at[p] = w[p].id
    BY <2>1, <2>2
  <2>4. ASSUME NEW p \in W, NEW q \in W, at[p] = at[q] PROVE p = q
    <3>1. p \in ItemSet(list) /\ q \in ItemSet(list)
      BY <1>18
    <3>2. CASE v[p].id # 0 /\ v[q].id # 0
      BY <1>17, <2>1, <2>4, <3>1, <3>2
    <3>3. CASE v[p].id = 0 /\ v[q].id = 0
      <4>1. At(nw, p) = At(nw, q)
        <5>1. At(nw, p) \in 1..m /\ At(nw, q) \in 1..m /\ n0 + At(nw, p) = n0 + At(nw, q)
          BY <1>14, <2>2, <2>4, <3>3
        <5> QED
          BY <1>13, <5>1
      <4> QED
        BY <1>14, <2>2, <3>3, <4>1
    <3>4. CASE v[p].id = 0 /\ v[q].id # 0
      <4>1. at[p] \in n0 + 1 .. n0 + m /\ at[q] \in 1..n0
        BY <2>1, <2>2, <3>4
      <4> HIDE DEF at
      <4> QED
        BY <1>13, <2>4, <4>1
    <3>5. CASE v[p].id # 0 /\ v[q].id = 0
      <4>1. at[q] \in n0 + 1 .. n0 + m /\ at[p] \in 1..n0
        BY <2>1, <2>2, <3>5
      <4> HIDE DEF at
      <4> QED
        BY <1>13, <2>4, <4>1
    <3> QED
      BY <3>2, <3>3, <3>4, <3>5
  <2>5. ASSUME NEW i \in Own(U.row, c, k) PROVE \E p \in W : at[p] = i
    <3>1. CASE i \in Own(B.row, c, k)
      <4>1. PICK p \in W : v[p].id = i /\ i # 0
        BY <1>16, <3>1
      <4> QED
        BY <2>1, <4>1
    <3>2. CASE i \in n0 + 1 .. n0 + m
      <4>1. i - n0 \in 1..m /\ n0 + (i - n0) = i
        BY <1>13, <3>2
      <4>2. nw[i - n0] \in Range(nw) /\ At(nw, nw[i - n0]) = i - n0
        BY <1>14, <4>1
      <4>3. nw[i - n0] \in W /\ v[nw[i - n0]].id = 0
        BY <1>18, <4>2
      <4>4. at[nw[i - n0]] = i
        BY <2>2, <4>1, <4>2, <4>3
      <4> QED
        BY <4>3, <4>4
    <3> QED
      BY <1>13, <2>5, <3>1, <3>2
  <2>6. at \in [WrittenSet(w, list) -> Own(U.row, c, k)]
    BY <1>20, <2>3
  <2> HIDE DEF at
  <2>7. Placing(U.row, w, c, k, list, at)
    BY <1>20, <2>3, <2>4, <2>5 DEF Placing
  <2> QED
    BY <2>6, <2>7 DEF Placed
<1>23. \A l \in Defaults : l # k \/ list = <<>> => U.def[l] = D.def[l]
  BY <1>2, <1>10
<1>24. ASSUME k \in Defaults, list # <<>>
       PROVE  U.def[k] \in Own(U.row, c, k) \cup {0} /\ MarkKept(w, list, U.def[k])
  <2>1. U.def[k] = d
    BY <1>2, <1>10, <1>24
  <2>2. newd = E.def[k]
    BY <1>24
  <2>3. /\ d = 0 \/ d = newd \/ \E i \in DOMAIN kept : d = v[kept[i]].id
        /\ newd # 0 /\ (\E i \in DOMAIN added : v[added[i]].def) => d = newd
        /\ (\A i \in DOMAIN added : ~v[added[i]].def) /\ (\E i \in DOMAIN kept : v[kept[i]].def) =>
             \E i \in DOMAIN kept : v[kept[i]].def /\ d = v[kept[i]].id
    <3> HIDE DEF newd
    <3>1. IsChosen(v, kept, added, newd, d)
      BY <1>3, ChosenMarked
    <3> QED
      BY <3>1 DEF IsChosen
  <2> HIDE DEF d, newd
  <2>4. /\ newd = 0 \/ newd \in n0 + 1 .. n0 + m
        /\ (\E i \in DOMAIN nw : v[nw[i]].def) => \E i \in DOMAIN nw : v[nw[i]].def /\ newd = n0 + i
    <3>1. CASE added = <<>>
      <4>1. newd = 0
        BY <1>13, <1>24, <2>2, <3>1 DEF NoDefault
      <4>2. ItemSet(added) = {}
        BY <3>1 DEF ItemSet, Range
      <4>3. DOMAIN nw = {}
        BY <1>13, <1>14, <4>2 DEF WrittenSet
      <4> QED
        BY <4>1, <4>3
    <3>2. CASE added # <<>>
      <4>1. newd = NewDefault(v, k, nw, n0)
        BY <1>13, <1>24, <2>2, <3>2
      <4>2. IsNewDefault(v, nw, n0, newd)
        BY <1>13, <4>1, NewDefaultMarked DEF m
      <4> QED
        BY <4>2 DEF IsNewDefault, m
    <3> QED
      BY <3>1, <3>2
  <2>5. \A i \in DOMAIN kept : kept[i] \in WrittenSet(v, list) /\ v[kept[i]].id # 0
    BY <1>3 DEF Range
  <2>6. d \in Own(U.row, c, k) \cup {0}
    <3>1. \A i \in DOMAIN kept : v[kept[i]].id \in Own(U.row, c, k)
      BY <1>13, <1>16, <2>5
    <3> QED
      BY <1>13, <2>3, <2>4, <3>1
  <2>7. ASSUME NEW p \in Marked(w, list), Textless(w, list) = {}
        PROVE  \E q \in Marked(w, list) : d = w[q].id
    <3>1. p \in WrittenSet(v, list) /\ v[p].def
      BY <1>20 DEF Marked
    <3>2. ASSUME NEW j \in DOMAIN added, v[added[j]].def
          PROVE  \E q \in Marked(w, list) : d = w[q].id
      <4>1. added[j] \in Range(added)
        BY DEF Range
      <4>2. added[j] \in ItemSet(list) /\ ~v[added[j]].deleted /\ v[added[j]].id = 0
        BY <1>3, <4>1
      <4>3. added[j] \in WrittenSet(v, list)
        BY <1>20, <2>7, <3>2, <4>2 DEF WrittenSet, Textless
      <4>4. added[j] \in Range(nw)
        BY <1>18, <4>2, <4>3
      <4>5. \E i \in DOMAIN nw : v[nw[i]].def
        BY <1>13, <1>14, <3>2, <4>4
      <4>6. PICK i \in 1..m : v[nw[i]].def /\ newd = n0 + i
        BY <1>13, <2>4, <4>5
      <4>7. newd # 0
        BY <1>13, <4>6
      <4>8. d = newd
        BY <2>3, <3>2, <4>7
      <4>9. nw[i] \in Range(nw) /\ w[nw[i]].id = n0 + i
        BY <1>14, <1>24
      <4>10. nw[i] \in Marked(w, list)
        BY <1>18, <1>20, <4>6, <4>9 DEF Marked
      <4> QED
        BY <4>6, <4>8, <4>9, <4>10
    <3>3. ASSUME \A j \in DOMAIN added : ~v[added[j]].def
          PROVE  \E q \in Marked(w, list) : d = w[q].id
      <4>1. v[p].id # 0
        <5> SUFFICES ASSUME v[p].id = 0 PROVE FALSE
          OBVIOUS
        <5>1. p \in ItemSet(list) /\ ~v[p].deleted
          BY <3>1 DEF WrittenSet
        <5>2. p \in Range(added)
          BY <1>3, <5>1
        <5> QED
          BY <3>1, <3>3, <5>2 DEF Range
      <4>2. p \in Range(kept)
        BY <1>3, <3>1, <4>1
      <4>3. PICK i \in DOMAIN kept : v[kept[i]].def /\ d = v[kept[i]].id
        BY <2>3, <3>1, <3>3, <4>2 DEF Range
      <4>4. kept[i] \in Marked(w, list) /\ w[kept[i]] = v[kept[i]]
        BY <1>20, <1>21, <2>5, <4>3 DEF Marked
      <4> QED
        BY <4>3, <4>4
    <3> QED
      BY <3>2, <3>3
  <2> QED
    BY <2>1, <2>6, <2>7 DEF MarkKept
<1>25. SameOthers(D.row, U.row, c, {k})
  <2>1. SameOthers(D.row, U.row, c, {k} \cup {k})
    BY <1>13, <1>16, OthersChain
  <2> QED
    BY <2>1
<1>26. ASSUME k \in Defaults, Ordered(v, list)
       PROVE  Rising(w, list)
  <2> SUFFICES ASSUME NEW i \in DOMAIN list, NEW j \in DOMAIN list, i < j,
                      list[i] \in WrittenSet(v, list), list[j] \in WrittenSet(v, list)
               PROVE  w[list[i]].id < w[list[j]].id
    BY <1>20 DEF Rising
  <2> DEFINE p == list[i]
             q == list[j]
  <2>1. p \in WrittenSet(v, list) /\ q \in WrittenSet(v, list) /\ p # 0 /\ q # 0
    BY DEF WrittenSet, ItemSet
  <2>2. v[q].id # 0 => v[p].id # 0 /\ v[p].id < v[q].id
    BY <1>26, <2>1 DEF Ordered
  <2>3. p \in Range(nw) /\ q \in Range(nw) => At(nw, p) < At(nw, q)
    BY <1>order DEF InOrder
  <2> HIDE DEF p, q
  <2>4. ASSUME v[q].id # 0 PROVE w[p].id < w[q].id
    BY <1>21, <2>1, <2>2, <2>4
  <2>5. ASSUME v[q].id = 0, v[p].id = 0 PROVE w[p].id < w[q].id
    <3>1. p \in Range(nw) /\ q \in Range(nw)
      BY <1>21, <2>1, <2>5
    <3> QED
      BY <1>13, <1>14, <1>26, <2>3, <3>1
  <2>6. ASSUME v[q].id = 0, v[p].id # 0 PROVE w[p].id < w[q].id
    <3>1. q \in Range(nw) /\ w[p] = v[p]
      BY <1>21, <2>1, <2>6
    <3>2. v[p].id \in 1..n0
      BY <1>13, <1>16, <2>1, <2>6
    <3> QED
      BY <1>13, <1>14, <1>26, <3>1, <3>2
  <2>7. w[p].id < w[q].id
    BY <2>4, <2>5, <2>6
  <2> QED
    BY <2>7 DEF p, q
<1>27. Own(D.row, c, k) = {} => Ordered(v, list)
  <2> SUFFICES ASSUME Own(D.row, c, k) = {} PROVE \A j \in DOMAIN list : list[j] # 0 => v[list[j]].id = 0
    BY DEF Ordered
  <2>1. \A p \in ItemSet(list) : v[p].id = 0
    BY DEF Fits, v
  <2> QED
    BY <2>1 DEF ItemSet, Range
<1> QED
  BY <1>14, <1>19, <1>22, <1>23, <1>24, <1>25, <1>26, <1>27 DEF ListDone, Ready, v, w

-----------------------------------------------------------------------------
(* All lists of a struct, one kind after the other.                         *)

LEMMA SameChain ==
  ASSUME NEW u, NEW v, NEW w, NEW P, NEW Q, SameBut(u, v, P), SameBut(v, w, Q)
  PROVE  SameBut(u, w, P \cup Q)
<1> SUFFICES ASSUME NEW p \in Pointers
             PROVE  /\ p \notin P /\ p \notin Q => w[p] = u[p]
                    /\ p \in P \/ p \in Q =>
                         /\ u[p] # Null /\ w[p] # Null
                         /\ w[p].text = u[p].text /\ w[p].cell = u[p].cell /\ w[p].def = u[p].def
                         /\ w[p].deleted = u[p].deleted /\ w[p].embedded = u[p].embedded
  BY DEF SameBut
<1>1. CASE p \in P /\ p \in Q
  BY <1>1 DEF SameBut
<1>2. CASE p \in P /\ p \notin Q
  <2>1. w[p] = v[p]
    BY <1>2 DEF SameBut
  <2> QED
    BY <1>2, <2>1 DEF SameBut
<1>3. CASE p \notin P /\ p \in Q
  <2>1. v[p] = u[p]
    BY <1>3 DEF SameBut
  <2> QED
    BY <1>3, <2>1 DEF SameBut
<1>4. CASE p \notin P /\ p \notin Q
  BY <1>4 DEF SameBut
<1> QED
  BY <1>1, <1>2, <1>3, <1>4

\* What was written of a list stays when neither its rows nor its items change.
LEMMA PlacedStays ==
  ASSUME NEW r, NEW q, NEW v, NEW w, NEW c, NEW k, NEW list, Placed(r, v, c, k, list),
         Own(q, c, k) = Own(r, c, k), \A i \in Own(r, c, k) : q[i] = r[i],
         \A p \in ItemSet(list) : w[p] = v[p]
  PROVE  Placed(q, w, c, k, list)
<1>1. WrittenSet(w, list) = WrittenSet(v, list) /\ WrittenSet(v, list) \subseteq ItemSet(list)
  BY DEF WrittenSet
<1>2. PICK at \in [WrittenSet(v, list) -> Own(r, c, k)] : Placing(r, v, c, k, list, at)
  BY DEF Placed
<1>3. at \in [WrittenSet(w, list) -> Own(q, c, k)]
  BY <1>1, <1>2
<1>4. Placing(q, w, c, k, list, at)
  BY <1>1, <1>2 DEF Placing
<1> QED
  BY <1>3, <1>4 DEF Placed

LEMMA MarkStays ==
  ASSUME NEW v, NEW w, NEW list, NEW d, MarkKept(v, list, d), \A p \in ItemSet(list) : w[p] = v[p]
  PROVE  MarkKept(w, list, d)
<1>1. /\ WrittenSet(w, list) = WrittenSet(v, list) /\ WrittenSet(v, list) \subseteq ItemSet(list)
      /\ Textless(w, list) = Textless(v, list)
  BY DEF WrittenSet, Textless
<1>2. Marked(w, list) = Marked(v, list) /\ \A p \in Marked(v, list) : w[p] = v[p]
  BY <1>1 DEF Marked
<1> QED
  BY <1>1, <1>2 DEF MarkKept

LEMMA OrderStays ==
  ASSUME NEW v, NEW w, NEW list
  PROVE  /\ Rising(v, list) /\ (\A p \in ItemSet(list) : w[p] = v[p]) => Rising(w, list)
         /\ Ordered(v, list) /\ (\A p \in ItemSet(list) : w[p].id = v[p].id) => Ordered(w, list)
<1>1. \A i \in DOMAIN list : list[i] # 0 => list[i] \in ItemSet(list)
  BY DEF ItemSet, Range
<1>2. ASSUME Rising(v, list), \A p \in ItemSet(list) : w[p] = v[p] PROVE Rising(w, list)
  <2>1. WrittenSet(w, list) = WrittenSet(v, list) /\ \A p \in WrittenSet(v, list) : w[p] = v[p]
    BY <1>2 DEF WrittenSet
  <2> QED
    BY <1>2, <2>1 DEF Rising
<1>3. ASSUME Ordered(v, list), \A p \in ItemSet(list) : w[p].id = v[p].id PROVE Ordered(w, list)
  BY <1>1, <1>3 DEF Ordered
<1> QED
  BY <1>2, <1>3

\* The lists of a struct have no item in common.
ListsApart(val, x) ==
  /\ x \in Contents
  /\ \A k \in Kinds : Takes(val, x.list[k]) /\ Distinct(x.list[k])
  /\ \A k, l \in Kinds : (\E p \in ItemSet(x.list[k]) : p \in ItemSet(x.list[l])) => k = l

ItemsOfKinds(x, K) == {p \in Pointers : \E k \in K \cap Kinds : p \in ItemSet(x.list[k])}

\* The lists of the kinds K of struct x have been written for contact c, in a
\* database with rows r and defaults d, and the others not.
Through(v, r, d, B, c, x, K) ==
  /\ DataTyped(B, v) /\ SameOthers(r, B.row, c, K)
  /\ SameBut(v, B.value, ItemsOfKinds(x, K)) /\ IdsTold(B.value)
  /\ \A k \in K \cap Kinds : Placed(B.row, B.value, c, k, x.list[k])
  /\ \A k \in Defaults \cap K \cap Kinds :
       Ready(r, v, c, k, x.list[k]) => Rising(B.value, x.list[k])
  /\ \A k \in Defaults \cap K \cap Kinds : x.list[k] # <<>> =>
       B.def[k] \in Own(B.row, c, k) \cup {0} /\ MarkKept(B.value, x.list[k], B.def[k])
  /\ \A k \in Defaults : k \notin K \cap Kinds \/ x.list[k] = <<>> => B.def[k] = d[k]

LEMMA KindDone ==
  ASSUME NEW v, NEW r, NEW d, NEW B, NEW c, NEW x, NEW K, Through(v, r, d, B, c, x, K),
         ListsApart(v, x), NEW k \in Kinds, k \notin K, NEW E, DataTyped(E, v),
         ListDone(B, E, c, k, x.list[k])
  PROVE  Through(v, r, d, E, c, x, K \cup {k})
<1> DEFINE list == x.list[k]
           L == K \cup {k}
           u == B.value
           w == E.value
<1>1. /\ SameOthers(B.row, E.row, c, {k}) /\ SameBut(u, w, ItemSet(list)) /\ (IdsTold(u) => IdsTold(w))
      /\ Placed(E.row, w, c, k, list)
      /\ k \in Defaults /\ Ready(B.row, u, c, k, list) => Rising(w, list)
      /\ \A l \in Defaults : l # k \/ list = <<>> => E.def[l] = B.def[l]
      /\ k \in Defaults /\ list # <<>> =>
           E.def[k] \in Own(E.row, c, k) \cup {0} /\ MarkKept(w, list, E.def[k])
  BY DEF ListDone
<1>2. /\ SameOthers(r, B.row, c, K) /\ SameBut(v, u, ItemsOfKinds(x, K)) /\ IdsTold(u)
      /\ \A l \in K \cap Kinds : Placed(B.row, u, c, l, x.list[l])
      /\ \A l \in Defaults \cap K \cap Kinds : Ready(r, v, c, l, x.list[l]) => Rising(u, x.list[l])
      /\ \A l \in Defaults \cap K \cap Kinds : x.list[l] # <<>> =>
           B.def[l] \in Own(B.row, c, l) \cup {0} /\ MarkKept(u, x.list[l], B.def[l])
      /\ \A l \in Defaults : l \notin K \cap Kinds \/ x.list[l] = <<>> => B.def[l] = d[l]
  BY DEF Through
<1>3. \A l \in Kinds : \A p \in ItemSet(x.list[l]) : p \in Pointers
  BY DEF ListsApart, Takes, Embedded
<1>4. \A l \in Kinds, m \in Kinds : \A p \in ItemSet(x.list[l]) : p \in ItemSet(x.list[m]) => l = m
  BY DEF ListsApart
<1>5. ASSUME NEW l \in K \cap Kinds
      PROVE  /\ \A p \in ItemSet(x.list[l]) : w[p] = u[p]
             /\ Own(E.row, c, l) = Own(B.row, c, l) /\ \A i \in Own(B.row, c, l) : E.row[i] = B.row[i]
  <2>1. l \notin {k}
    OBVIOUS
  <2>2. Own(E.row, c, l) = Own(B.row, c, l) /\ \A i \in Own(B.row, c, l) : E.row[i] = B.row[i]
    BY <1>1, <2>1, OthersKept
  <2>3. \A p \in ItemSet(x.list[l]) : p \notin ItemSet(list)
    BY <1>4, <2>1
  <2> HIDE DEF w, u, list
  <2>4. \A p \in ItemSet(x.list[l]) : w[p] = u[p]
    BY <1>1, <1>3, <2>3 DEF SameBut
  <2> QED
    BY <2>2, <2>4
<1> HIDE DEF list, u, w
<1>6. SameOthers(r, E.row, c, L)
  BY <1>1, <1>2, OthersChain
<1>7. SameBut(v, w, ItemsOfKinds(x, L))
  <2>1. ItemsOfKinds(x, L) = ItemsOfKinds(x, K) \cup ItemSet(list)
    BY <1>3 DEF ItemsOfKinds, list
  <2>2. SameBut(v, u, ItemsOfKinds(x, K)) /\ SameBut(u, w, ItemSet(list))
    BY <1>1, <1>2
  <2>3. SameBut(v, w, ItemsOfKinds(x, K) \cup ItemSet(list))
    BY ONLY <2>2, SameChain
  <2> QED
    BY <2>1, <2>3
<1>8. \A l \in L \cap Kinds : Placed(E.row, w, c, l, x.list[l])
  <2>1. ASSUME NEW l \in K \cap Kinds PROVE Placed(E.row, w, c, l, x.list[l])
    BY <1>2, <1>5, PlacedStays
  <2> QED
    BY <1>1, <2>1 DEF list
<1>9. ASSUME NEW l \in Defaults \cap L \cap Kinds, x.list[l] # <<>>
      PROVE  E.def[l] \in Own(E.row, c, l) \cup {0} /\ MarkKept(w, x.list[l], E.def[l])
  <2>1. CASE l = k
    BY <1>1, <1>9, <2>1 DEF list
  <2>2. CASE l # k
    <3>1. l \in K \cap Kinds
      BY <2>2
    <3>2. B.def[l] \in Own(B.row, c, l) \cup {0} /\ MarkKept(u, x.list[l], B.def[l])
      BY <1>2, <1>9, <3>1
    <3>3. E.def[l] = B.def[l]
      BY <1>1, <2>2
    <3> QED
      BY <1>5, <3>1, <3>2, <3>3, MarkStays
  <2> QED
    BY <2>1, <2>2
<1>10. ASSUME NEW l \in Defaults, l \notin L \cap Kinds \/ x.list[l] = <<>>
       PROVE  E.def[l] = d[l]
  <2>1. l # k \/ list = <<>>
    BY <1>10 DEF list
  <2>2. E.def[l] = B.def[l]
    BY <1>1, <2>1
  <2>3. l \notin K \cap Kinds \/ x.list[l] = <<>>
    BY <1>10
  <2> QED
    BY <1>2, <2>2, <2>3
<1>11. IdsTold(w)
  BY <1>1, <1>2
<1>12. ASSUME NEW l \in Defaults \cap L \cap Kinds, Ready(r, v, c, l, x.list[l])
       PROVE  Rising(w, x.list[l])
  <2>1. CASE l = k
    <3>1. Own(B.row, c, k) = Own(r, c, k)
      BY <1>2, OthersKept
    <3>2. \A p \in ItemSet(list) : p \in Pointers /\ p \notin ItemsOfKinds(x, K)
      BY <1>3, <1>4 DEF ItemsOfKinds, list
    <3>3. \A p \in ItemSet(list) : u[p].id = v[p].id
      BY <1>2, <3>2 DEF SameBut
    <3>4. Ready(r, v, c, k, list)
      BY <1>12, <2>1 DEF list
    <3>5. Ready(B.row, u, c, k, list)
      BY <3>1, <3>3, <3>4, OrderStays DEF Ready
    <3> QED
      BY <1>1, <2>1, <3>5 DEF list
  <2>2. CASE l # k
    <3>1. l \in K \cap Kinds /\ Rising(u, x.list[l])
      BY <1>2, <1>12, <2>2
    <3>2. \A p \in ItemSet(x.list[l]) : w[p] = u[p]
      BY <1>5, <3>1
    <3> QED
      BY <3>1, <3>2, OrderStays
  <2> QED
    BY <2>1, <2>2
<1> QED
  BY <1>6, <1>7, <1>8, <1>9, <1>10, <1>11, <1>12 DEF Through, w

\* A struct has no list of a kind that is not used.
LEMMA KindSkipped ==
  ASSUME NEW v, NEW r, NEW d, NEW B, NEW c, NEW x, NEW K, Through(v, r, d, B, c, x, K), NEW k, k \notin Kinds
  PROVE  Through(v, r, d, B, c, x, K \cup {k})
<1> DEFINE L == K \cup {k}
<1>1. L \cap Kinds = K \cap Kinds /\ ItemsOfKinds(x, L) = ItemsOfKinds(x, K)
  BY DEF ItemsOfKinds
<1>2. SameOthers(B.row, B.row, c, {k})
  BY DEF SameOthers
<1>3. SameOthers(r, B.row, c, L)
  BY <1>2, OthersChain DEF Through
<1>4. Defaults \cap L \cap Kinds = Defaults \cap K \cap Kinds
  BY <1>1
<1> HIDE DEF L
<1> QED
  BY <1>1, <1>3, <1>4 DEF Through, L

LEMMA InsertKindDone ==
  ASSUME NEW v, NEW r, NEW d, NEW c \in 1..MaxContacts, NEW x, ListsApart(v, x),
         \A l \in Kinds : Own(r, c, l) = {},
         NEW B, NEW K, Through(v, r, d, B, c, x, K), NEW k, k \notin K, NEW E, E = InsertKind(B, c, k, x)
  PROVE  /\ B.last \in Nat /\ E.last \in Nat /\ B.last <= E.last
         /\ E.last <= MaxRows => Through(v, r, d, E, c, x, K \cup {k})
<1>0. DataTyped(B, v) /\ Shaped(B) /\ B.last \in Nat
  BY DEF Through, DataTyped, Shaped
<1>1. CASE k \notin Kinds
  <2>1. E = B
    BY <1>1 DEF InsertKind
  <2>2. Through(v, r, d, B, c, x, K \cup {k})
    BY <1>1, KindSkipped
  <2> QED
    BY <1>0, <2>1, <2>2
<1>2. CASE k \in Kinds
  <2> DEFINE list == x.list[k]
  <2>1. E = InsertList(B, c, k, list) /\ Takes(v, list) /\ Distinct(list) /\ list \in Seq(0..MaxValues)
    BY <1>2 DEF InsertKind, ListsApart, Takes
  <2> HIDE DEF list
  <2>2. /\ Shaped(E) /\ B.last <= E.last
        /\ DataTyped(B, v) /\ Takes(v, list) /\ E.last <= MaxRows => DataTyped(E, v)
    BY <1>0, <1>2, <2>1, InsertListTyped
  <2>3. Own(B.row, c, k) = {}
    <3>1. SameOthers(r, B.row, c, K)
      BY DEF Through
    <3>2. Own(B.row, c, k) = Own(r, c, k)
      BY <3>1, OthersKept
    <3> QED
      BY <1>2, <3>2
  <2>4. ASSUME E.last <= MaxRows PROVE Through(v, r, d, E, c, x, K \cup {k})
    <3>1. DataTyped(E, v)
      BY <1>0, <2>1, <2>2, <2>4
    <3>2. ListDone(B, E, c, k, list)
      BY ONLY <1>0, <1>2, <2>1, <2>3, <2>4, <3>1, InsertListDone
    <3> QED
      BY <1>2, <3>1, <3>2, KindDone DEF list
  <2> QED
    BY <1>0, <2>2, <2>4 DEF Shaped
<1> QED
  BY <1>1, <1>2

\* Items that have a row keep their ids while the lists before theirs are
\* written.
LEMMA FitsStill ==
  ASSUME NEW v, NEW r, NEW d, NEW c, NEW x, ListsApart(v, x),
         NEW B, NEW K, Through(v, r, d, B, c, x, K), NEW k \in Kinds, k \notin K,
         Fits(v, x.list[k], Own(r, c, k))
  PROVE  Fits(B.value, x.list[k], Own(B.row, c, k))
<1>1. Own(B.row, c, k) = Own(r, c, k)
  BY OthersKept DEF Through
<1>2. \A p \in ItemSet(x.list[k]) : B.value[p] = v[p]
  <2>1. SameBut(v, B.value, ItemsOfKinds(x, K))
    BY DEF Through
  <2>2. \A p \in ItemSet(x.list[k]) : p \in Pointers
    BY DEF ListsApart, Takes, Embedded
  <2>3. \A p \in ItemSet(x.list[k]) : p \notin ItemsOfKinds(x, K)
    BY DEF ListsApart, ItemsOfKinds
  <2> QED
    BY <2>1, <2>2, <2>3 DEF SameBut
<1> QED
  BY <1>1, <1>2 DEF Fits

LEMMA UpdateKindDone ==
  ASSUME NEW v, NEW r, NEW d, NEW c \in 1..MaxContacts, NEW x, ListsApart(v, x),
         \A l \in Kinds : Fits(v, x.list[l], Own(r, c, l)),
         NEW B, NEW K, Through(v, r, d, B, c, x, K), NEW k, k \notin K, NEW E, E = UpdateKind(B, c, k, x)
  PROVE  /\ B.last \in Nat /\ E.last \in Nat /\ B.last <= E.last
         /\ E.last <= MaxRows => Through(v, r, d, E, c, x, K \cup {k})
<1>0. DataTyped(B, v) /\ Shaped(B) /\ B.last \in Nat
  BY DEF Through, DataTyped, Shaped
<1>1. CASE k \notin Kinds
  <2>1. E = B
    BY <1>1 DEF UpdateKind
  <2>2. Through(v, r, d, B, c, x, K \cup {k})
    BY <1>1, KindSkipped
  <2> QED
    BY <1>0, <2>1, <2>2
<1>2. CASE k \in Kinds
  <2> DEFINE list == x.list[k]
  <2>1. E = UpdateList(B, c, k, list) /\ Takes(v, list) /\ Distinct(list) /\ list \in Seq(0..MaxValues)
    BY <1>2 DEF UpdateKind, ListsApart, Takes
  <2>3. Fits(B.value, list, Own(B.row, c, k))
    BY <1>2, FitsStill
  <2> HIDE DEF list
  <2>2. /\ Shaped(E) /\ B.last <= E.last
        /\ DataTyped(B, v) /\ Takes(v, list) /\ E.last <= MaxRows => DataTyped(E, v)
    BY <1>0, <1>2, <2>1, UpdateListTyped
  <2>4. ASSUME E.last <= MaxRows PROVE Through(v, r, d, E, c, x, K \cup {k})
    <3>1. DataTyped(E, v)
      BY <1>0, <2>1, <2>2, <2>4
    <3>2. ListDone(B, E, c, k, list)
      BY ONLY <1>0, <1>2, <2>1, <2>3, <2>4, c \in 1..MaxContacts, UpdateListDone
    <3> QED
      BY <1>2, <3>1, <3>2, KindDone DEF list
  <2> QED
    BY <1>0, <2>2, <2>4 DEF Shaped
<1> QED
  BY <1>1, <1>2

AllKinds == {"web", "number", "email"}

LEMMA InsertKindMonotone ==
  ASSUME NEW B, Shaped(B), NEW c \in 1..MaxContacts, NEW x \in Contents, NEW k, NEW E,
         E = InsertKind(B, c, k, x)
  PROVE  Shaped(E) /\ B.last <= E.last /\ B.last \in Nat /\ E.last \in Nat
<1>1. CASE k \in Kinds
  <2>1. x.list[k] \in Seq(0..MaxValues) /\ E = InsertList(B, c, k, x.list[k])
    BY <1>1, ContentsFields DEF InsertKind
  <2>2. Shaped(E) /\ B.last <= E.last
    BY <1>1, <2>1, InsertListTyped
  <2> QED
    BY <2>2 DEF Shaped
<1>2. CASE k \notin Kinds
  BY <1>2 DEF InsertKind, Shaped
<1> QED
  BY <1>1, <1>2

\* cts_insert_contact_data of a contact that has no rows in these lists.
LEMMA InsertListsDone ==
  ASSUME NEW v, NEW r, NEW d, NEW c \in 1..MaxContacts, NEW x, ListsApart(v, x),
         \A l \in Kinds : Own(r, c, l) = {},
         NEW D, Through(v, r, d, D, c, x, {}), NEW E, E = InsertLists(D, c, x), E.last <= MaxRows
  PROVE  Through(v, r, d, E, c, x, AllKinds)
<1> DEFINE W == InsertKind(D, c, "web", x)
           N == InsertKind(W, c, "number", x)
           M == InsertKind(N, c, "email", x)
<1>1. M = E
  BY DEF InsertLists
<1>2. x \in Contents /\ Shaped(D)
  BY DEF ListsApart, Through, DataTyped
<1>3. Shaped(W) /\ W.last \in Nat
  BY <1>2, InsertKindMonotone
<1>4. W.last <= MaxRows => Through(v, r, d, W, c, x, {} \cup {"web"})
  BY InsertKindDone
<1> HIDE DEF W
<1>5. Shaped(N) /\ W.last <= N.last /\ N.last \in Nat
  BY <1>2, <1>3, InsertKindMonotone
<1>6. ASSUME Through(v, r, d, W, c, x, {"web"}), N.last <= MaxRows
      PROVE  Through(v, r, d, N, c, x, {"web"} \cup {"number"})
  <2>1. "number" \notin {"web"}
    OBVIOUS
  <2> QED
    BY <1>6, <2>1, InsertKindDone
<1> HIDE DEF N
<1>7. N.last <= M.last /\ M.last \in Nat
  BY <1>2, <1>5, InsertKindMonotone
<1>8. ASSUME Through(v, r, d, N, c, x, {"web", "number"}), M.last <= MaxRows
      PROVE  Through(v, r, d, M, c, x, {"web", "number"} \cup {"email"})
  <2>1. "email" \notin {"web", "number"}
    OBVIOUS
  <2> QED
    BY <1>8, <2>1, InsertKindDone
<1> HIDE DEF M
<1>9. W.last <= MaxRows /\ N.last <= MaxRows /\ M.last <= MaxRows
  <2>1. MaxRows \in Nat
    BY ConstantsAssumption
  <2> QED
    BY <1>1, <1>3, <1>5, <1>7, <2>1
<1>10. /\ {} \cup {"web"} = {"web"} /\ {"web"} \cup {"number"} = {"web", "number"}
       /\ {"web", "number"} \cup {"email"} = AllKinds
  BY DEF AllKinds
<1>11. Through(v, r, d, W, c, x, {"web"})
  BY <1>4, <1>9, <1>10
<1>12. Through(v, r, d, N, c, x, {"web", "number"})
  BY <1>6, <1>9, <1>10, <1>11
<1> QED
  BY <1>1, <1>8, <1>9, <1>10, <1>12

LEMMA UpdateKindMonotone ==
  ASSUME NEW B, Shaped(B), NEW c \in 1..MaxContacts, NEW x \in Contents, NEW k, NEW E,
         E = UpdateKind(B, c, k, x)
  PROVE  Shaped(E) /\ B.last <= E.last /\ B.last \in Nat /\ E.last \in Nat
<1>1. CASE k \in Kinds
  <2>1. x.list[k] \in Seq(0..MaxValues) /\ E = UpdateList(B, c, k, x.list[k])
    BY <1>1, ContentsFields DEF UpdateKind
  <2>2. Shaped(E) /\ B.last <= E.last
    BY <1>1, <2>1, UpdateListTyped
  <2> QED
    BY <2>2 DEF Shaped
<1>2. CASE k \notin Kinds
  BY <1>2 DEF UpdateKind, Shaped
<1> QED
  BY <1>1, <1>2

\* cts_update_contact_data of a struct that matches its contact.
LEMMA UpdateListsDone ==
  ASSUME NEW v, NEW r, NEW d, NEW c \in 1..MaxContacts, NEW x, ListsApart(v, x),
         \A l \in Kinds : Fits(v, x.list[l], Own(r, c, l)),
         NEW D, Through(v, r, d, D, c, x, {}), NEW E, E = UpdateLists(D, c, x), E.last <= MaxRows
  PROVE  Through(v, r, d, E, c, x, AllKinds)
<1> DEFINE W == UpdateKind(D, c, "web", x)
           N == UpdateKind(W, c, "number", x)
           M == UpdateKind(N, c, "email", x)
<1>1. M = E
  BY DEF UpdateLists
<1>2. x \in Contents /\ Shaped(D)
  BY DEF ListsApart, Through, DataTyped
<1>3. Shaped(W) /\ W.last \in Nat
  BY <1>2, UpdateKindMonotone
<1>4. W.last <= MaxRows => Through(v, r, d, W, c, x, {} \cup {"web"})
  BY UpdateKindDone
<1> HIDE DEF W
<1>5. Shaped(N) /\ W.last <= N.last /\ N.last \in Nat
  BY <1>2, <1>3, UpdateKindMonotone
<1>6. ASSUME Through(v, r, d, W, c, x, {"web"}), N.last <= MaxRows
      PROVE  Through(v, r, d, N, c, x, {"web"} \cup {"number"})
  <2>1. "number" \notin {"web"}
    OBVIOUS
  <2> QED
    BY <1>6, <2>1, UpdateKindDone
<1> HIDE DEF N
<1>7. N.last <= M.last /\ M.last \in Nat
  BY <1>2, <1>5, UpdateKindMonotone
<1>8. ASSUME Through(v, r, d, N, c, x, {"web", "number"}), M.last <= MaxRows
      PROVE  Through(v, r, d, M, c, x, {"web", "number"} \cup {"email"})
  <2>1. "email" \notin {"web", "number"}
    OBVIOUS
  <2> QED
    BY <1>8, <2>1, UpdateKindDone
<1> HIDE DEF M
<1>9. W.last <= MaxRows /\ N.last <= MaxRows /\ M.last <= MaxRows
  <2>1. MaxRows \in Nat
    BY ConstantsAssumption
  <2> QED
    BY <1>1, <1>3, <1>5, <1>7, <2>1
<1>10. /\ {} \cup {"web"} = {"web"} /\ {"web"} \cup {"number"} = {"web", "number"}
       /\ {"web", "number"} \cup {"email"} = AllKinds
  BY DEF AllKinds
<1>11. Through(v, r, d, W, c, x, {"web"})
  BY <1>4, <1>9, <1>10
<1>12. Through(v, r, d, N, c, x, {"web", "number"})
  BY <1>6, <1>9, <1>10, <1>11
<1> QED
  BY <1>1, <1>8, <1>9, <1>10, <1>12

-----------------------------------------------------------------------------
(* The defaults of a contact that was written.                              *)

\* A struct with a default has an item that has a row, in the list that it is
\* the default of.
Owed(val, x) ==
  \A k \in Defaults : x.def[k] # 0 => k \in Kinds /\ \E p \in ItemSet(x.list[k]) : val[p].id # 0

\* What is stored of struct x as contact c, with defaults def.
StoredWell(rows, val, x, c, def) ==
  /\ \A k \in Kinds : Placed(rows, val, c, k, x.list[k])
  /\ \A k \in Defaults : def[k] # 0 => k \in Kinds /\ def[k] \in Own(rows, c, k)
  /\ \A k \in Defaults \cap Kinds :
       (Own(rows, c, k) # {} => def[k] # 0) /\ MarkKept(val, x.list[k], def[k])

LEMMA EmptyList ==
  ASSUME NEW list \in Seq(0..MaxValues), Range(list) = {}
  PROVE  list = <<>>
<1>1. Len(list) \in Nat /\ DOMAIN list = 1..Len(list)
  OBVIOUS
<1>2. DOMAIN list = {}
  BY <1>1 DEF Range
<1>3. Len(list) = 0
  BY <1>1, <1>2
<1> QED
  BY <1>3

\* The first item that has a row, when no default was set.
FirstOf(val, list, l) ==
  /\ l = <<>> => \A p \in ItemSet(list) : val[p].deleted \/ val[p].id = 0
  /\ l # <<>> => \E p \in ItemSet(list) : p = l[1] /\ ~val[p].deleted /\ val[p].id # 0

LEMMA FirstItem ==
  ASSUME NEW val, NEW list \in Seq(0..MaxValues), NEW l, l = WithRow(val, Live(val, list))
  PROVE  FirstOf(val, list, l)
<1> DEFINE live == Live(val, list)
<1>1. live \in Seq(0..MaxValues)
  BY SelectedLists
<1>2. Range(live) = {p \in ItemSet(list) : ~val[p].deleted} /\ 0 \notin Range(live)
  BY PartItems
<1> HIDE DEF live
<1>3. Range(l) = {p \in ItemSet(live) : val[p].id # 0} /\ l \in Seq(0..MaxValues)
  BY <1>1, PartItems, SelectedLists DEF live
<1>4. Range(l) = {p \in ItemSet(list) : ~val[p].deleted /\ val[p].id # 0}
  BY <1>2, <1>3 DEF ItemSet
<1>5. CASE l = <<>>
  <2>1. Range(l) = {}
    BY <1>5 DEF Range
  <2> QED
    BY <1>4, <1>5, <2>1 DEF FirstOf
<1>6. CASE l # <<>>
  <2>1. l[1] \in Range(l)
    <3>1. Len(l) \in Nat /\ DOMAIN l = 1..Len(l) /\ Len(l) # 0
      BY <1>3, <1>6
    <3>2. 1 \in DOMAIN l
      BY <3>1
    <3> QED
      BY <3>2 DEF Range
  <2> QED
    BY <1>4, <1>6, <2>1 DEF FirstOf
<1> QED
  BY <1>5, <1>6

\* The default of one list that was written.
DefaultFits(rows, val, c, k, list, def) ==
  /\ def # 0 => def \in Own(rows, c, k) /\ \E p \in ItemSet(list) : val[p].id # 0
  /\ Own(rows, c, k) # {} => def # 0
  /\ MarkKept(val, list, def)

LEMMA DefaultDone ==
  ASSUME NEW rows, 0 \notin DOMAIN rows, NEW val, IdsTold(val), NEW c, NEW k \in Defaults,
         NEW list \in Seq(0..MaxValues), ItemSet(list) \subseteq Pointers, \A p \in ItemSet(list) : val[p] # Null,
         Placed(rows, val, c, k, list), NEW old,
         list # <<>> => old \in Own(rows, c, k) \cup {0} /\ MarkKept(val, list, old),
         list = <<>> => old = 0,
         NEW l, l = WithRow(val, Live(val, list)), NEW def, def = IF old # 0 \/ l = <<>> THEN old ELSE val[l[1]].id
  PROVE  DefaultFits(rows, val, c, k, list, def)
<1>1. PICK at : Placing(rows, val, c, k, list, at)
  BY DEF Placed
<1>2. /\ \A p \in WrittenSet(val, list) : val[p].id \in Own(rows, c, k)
      /\ \A i \in Own(rows, c, k) : \E p \in WrittenSet(val, list) : val[p].id = i
  BY <1>1 DEF Placing
<1>3. 0 \notin Own(rows, c, k) /\ WrittenSet(val, list) \subseteq ItemSet(list)
  BY DEF Own, WrittenSet
<1>4. /\ l = <<>> => \A p \in ItemSet(list) : val[p].deleted \/ val[p].id = 0
      /\ l # <<>> => \E p \in ItemSet(list) : p = l[1] /\ ~val[p].deleted /\ val[p].id # 0
  BY FirstItem DEF FirstOf
<1>5. old \in Own(rows, c, k) \cup {0} /\ MarkKept(val, list, old)
  <2>1. CASE list = <<>>
    <3>1. WrittenSet(val, list) = {}
      BY <2>1 DEF WrittenSet, ItemSet, Range
    <3> QED
      BY <2>1, <3>1 DEF MarkKept, Marked
  <2> QED
    BY <2>1
<1>6. CASE old # 0
  <2>1. def = old
    BY <1>6
  <2>2. def \in Own(rows, c, k)
    BY <1>5, <1>6, <2>1
  <2>3. \E p \in WrittenSet(val, list) : val[p].id = def
    BY <1>2, <2>2
  <2> QED
    BY <1>3, <1>5, <1>6, <2>1, <2>2, <2>3 DEF DefaultFits
<1>7. CASE old = 0
  <2>1. ~(Marked(val, list) # {} /\ Textless(val, list) = {})
    BY <1>2, <1>3, <1>5, <1>7 DEF MarkKept, Marked
  <2>2. MarkKept(val, list, def)
    BY <2>1 DEF MarkKept
  <2>3. CASE l = <<>>
    <3>1. def = 0
      BY <1>7, <2>3
    <3>2. Own(rows, c, k) = {}
      BY <1>2, <1>3, <1>4, <2>3 DEF WrittenSet
    <3> QED
      BY <2>2, <3>1, <3>2 DEF DefaultFits
  <2>4. CASE l # <<>>
    <3>1. PICK p \in ItemSet(list) : p = l[1] /\ ~val[p].deleted /\ val[p].id # 0
      BY <1>4, <2>4
    <3>2. def = val[p].id
      BY <1>7, <2>4, <3>1
    <3>3. val[p].text # Null
      BY <3>1 DEF IdsTold
    <3>4. p \in WrittenSet(val, list)
      BY <3>1, <3>3 DEF WrittenSet
    <3> QED
      BY <1>2, <2>2, <3>1, <3>2, <3>4 DEF DefaultFits
  <2> QED
    BY <2>3, <2>4
<1> QED
  BY <1>6, <1>7

LEMMA StructStored ==
  ASSUME NEW v, NEW r, NEW c, NEW x, ListsApart(v, x), Owed(v, x),
         NEW D, Through(v, r, x.def, D, c, x, AllKinds),
         NEW def, def = FirstForDefault(D.value, x, D.def)
  PROVE  StoredWell(D.row, D.value, x, c, def) /\ \A y : y.list = x.list /\ y.def = def => Owed(D.value, y)
<1>1. /\ IdsTold(D.value) /\ SameBut(v, D.value, ItemsOfKinds(x, AllKinds)) /\ DataTyped(D, v)
      /\ \A k \in AllKinds \cap Kinds : Placed(D.row, D.value, c, k, x.list[k])
      /\ \A k \in Defaults \cap AllKinds \cap Kinds : x.list[k] # <<>> =>
           D.def[k] \in Own(D.row, c, k) \cup {0} /\ MarkKept(D.value, x.list[k], D.def[k])
      /\ \A k \in Defaults : k \notin AllKinds \cap Kinds \/ x.list[k] = <<>> => D.def[k] = x.def[k]
  BY DEF Through
<1>2. AllKinds \cap Kinds = Kinds /\ Defaults \cap AllKinds \cap Kinds = Defaults \cap Kinds
  BY ConstantsAssumption DEF AllKinds, Defaults
<1>3. 0 \notin DOMAIN D.row
  <2>1. DOMAIN D.row \subseteq 1..D.last /\ D.last \in Nat
    BY <1>1 DEF DataTyped, Shaped
  <2> QED
    BY <2>1
<1>4. ASSUME NEW k \in Defaults
      PROVE  /\ def[k] # 0 => k \in Kinds /\ def[k] \in Own(D.row, c, k)
                             /\ \E p \in ItemSet(x.list[k]) : D.value[p].id # 0
             /\ k \in Kinds => (Own(D.row, c, k) # {} => def[k] # 0) /\ MarkKept(D.value, x.list[k], def[k])
  <2> DEFINE l == WithRow(D.value, Live(D.value, Listed(x, k)))
  <2>1. def[k] = IF D.def[k] # 0 \/ l = <<>> THEN D.def[k] ELSE D.value[l[1]].id
    BY DEF FirstForDefault
  <2> HIDE DEF l
  <2>2. CASE k \notin Kinds
    <3>1. D.def[k] = 0
      BY <1>1, <1>2, <2>2 DEF Owed
    <3>2. l = <<>>
      <4>1. Listed(x, k) = <<>> /\ <<>> \in Seq(0..MaxValues) /\ ItemSet(<<>>) = {}
        BY <2>2 DEF Listed, ItemSet, Range
      <4>2. l = WithRow(D.value, Live(D.value, <<>>))
        BY <4>1 DEF l
      <4>3. FirstOf(D.value, <<>>, l)
        BY ONLY <4>1, <4>2, FirstItem
      <4> QED
        BY <4>1, <4>3 DEF FirstOf
    <3> QED
      BY <2>1, <2>2, <3>1, <3>2
  <2>3. CASE k \in Kinds
    <3> DEFINE list == x.list[k]
    <3>1. list \in Seq(0..MaxValues) /\ ItemSet(list) \subseteq Pointers
      BY <2>3 DEF ListsApart, Takes, Embedded
    <3>2. \A p \in ItemSet(list) : D.value[p] # Null
      <4>1. \A p \in ItemSet(list) : p \in ItemsOfKinds(x, AllKinds)
        BY <1>2, <2>3, <3>1 DEF ItemsOfKinds
      <4> QED
        BY <1>1, <3>1, <4>1 DEF SameBut
    <3>3. /\ Placed(D.row, D.value, c, k, list)
          /\ list # <<>> => D.def[k] \in Own(D.row, c, k) \cup {0} /\ MarkKept(D.value, list, D.def[k])
          /\ list = <<>> => D.def[k] = 0
      <4>1. list = <<>> => D.def[k] = x.def[k] /\ ItemSet(list) = {}
        BY <1>1 DEF ItemSet, Range
      <4>2. list = <<>> => D.def[k] = 0
        BY <4>1 DEF Owed
      <4> QED
        BY <1>1, <1>2, <2>3, <4>2
    <3>4. l = WithRow(D.value, Live(D.value, list))
      BY <2>3 DEF l, Listed
    <3> DEFINE b == D.def[k]
               e == def[k]
               rows == D.row
               val == D.value
    <3>5. IdsTold(val) /\ 0 \notin DOMAIN rows /\ e = IF b # 0 \/ l = <<>> THEN b ELSE val[l[1]].id
      BY <1>1, <1>3, <2>1
    <3>6. DefaultFits(rows, val, c, k, list, e)
      <4>1. /\ list \in Seq(0..MaxValues) /\ ItemSet(list) \subseteq Pointers
            /\ \A p \in ItemSet(list) : val[p] # Null
            /\ Placed(rows, val, c, k, list)
            /\ list # <<>> => b \in Own(rows, c, k) \cup {0} /\ MarkKept(val, list, b)
            /\ list = <<>> => b = 0
            /\ l = WithRow(val, Live(val, list))
        BY <3>1, <3>2, <3>3, <3>4
      <4> HIDE DEF list, b, e, rows, val
      <4> QED
        BY ONLY k \in Defaults, <3>5, <4>1, DefaultDone
    <3> QED
      BY <2>3, <3>6 DEF DefaultFits
  <2> QED
    BY <2>2, <2>3
<1>5. \A y : y.list = x.list /\ y.def = def => Owed(D.value, y)
  BY <1>4 DEF Owed
<1> QED
  BY <1>1, <1>2, <1>4, <1>5 DEF StoredWell

-----------------------------------------------------------------------------
(* What a program may rely on after a contact was written.                  *)

\* The rows are counted by the items.
Counted(rows, val, c, k, live) ==
  /\ Cardinality(Own(rows, c, k)) = Len(live)
  /\ {rows[i].text : i \in Own(rows, c, k)} = {val[p].text : p \in Range(live)}
  /\ k \in Defaults => \A p \in Range(live) :
       val[p].id \in Own(rows, c, k) /\ rows[val[p].id].text = val[p].text

LEMMA PlacedRows ==
  ASSUME NEW rows, NEW val, NEW c, NEW k, NEW list \in Seq(0..MaxValues), Distinct(list),
         Placed(rows, val, c, k, list), NEW live, live = Written(val, list)
  PROVE  Counted(rows, val, c, k, live)
<1>1. Range(live) = WrittenSet(val, list) /\ Distinct(live) /\ 0 \notin Range(live)
  BY PartItems DEF WrittenSet
<1>2. Len(live) \in Nat /\ DOMAIN live = 1..Len(live)
  BY SelectedLists
<1>3. PICK at : Placing(rows, val, c, k, list, at)
  BY DEF Placed
<1>4. /\ \A p \in Range(live) :
           /\ at[p] \in Own(rows, c, k) /\ rows[at[p]].text = val[p].text
           /\ k \in Defaults => at[p] = val[p].id
      /\ \A p, q \in Range(live) : at[p] = at[q] => p = q
      /\ \A i \in Own(rows, c, k) : \E p \in Range(live) : at[p] = i
  BY <1>1, <1>3 DEF Placing
<1> DEFINE ids == Own(rows, c, k)
           f == [n \in 1..Len(live) |-> at[live[n]]]
<1>5. ExistsBijection(1..Len(live), ids)
  <2>1. \A n \in 1..Len(live) : live[n] \in Range(live)
    BY <1>2 DEF Range
  <2>2. \A m, n \in 1..Len(live) : live[m] = live[n] => m = n
    BY <1>1, <1>2, <2>1 DEF Distinct
  <2>3. \A p \in Range(live) : \E n \in 1..Len(live) : live[n] = p
    BY <1>2 DEF Range
  <2>4. f \in [1..Len(live) -> ids]
    BY <1>4, <2>1
  <2>5. \A m, n \in 1..Len(live) : f[m] = f[n] => m = n
    BY <1>4, <2>1, <2>2
  <2>6. \A i \in ids : \E n \in 1..Len(live) : f[n] = i
    BY <1>4, <2>3
  <2> HIDE DEF f, ids
  <2>7. f \in Bijection(1..Len(live), ids)
    BY <2>4, <2>5, <2>6 DEF Bijection, Injection, Surjection, IsInjective
  <2> QED
    BY <2>7 DEF ExistsBijection
<1>6. Cardinality(ids) = Len(live)
  BY <1>2, <1>5, FS_CountingElements
<1>7. {rows[i].text : i \in ids} = {val[p].text : p \in Range(live)}
  <2>1. ASSUME NEW i \in ids PROVE rows[i].text \in {val[p].text : p \in Range(live)}
    BY <1>4
  <2>2. ASSUME NEW p \in Range(live) PROVE val[p].text \in {rows[i].text : i \in ids}
    BY <1>4
  <2> QED
    BY <2>1, <2>2
<1> QED
  BY <1>4, <1>6, <1>7 DEF Counted

\* The row of the company of struct x.
StoredCompany(rows, x, c) ==
  {rows[i].text : i \in Own(rows, c, "company")}
    = {x.company.text : u \in IF x.company = Null THEN {} ELSE {1}} \ {Null}

\* The text of the first row of contact c for a kind of data, what the contact
\* shows by the naming rule, and that it shows it if it has no name.
FirstOwn(rows, c, k) == IF Own(rows, c, k) = {} THEN Null ELSE rows[Min(Own(rows, c, k))].text
RuleOf(rows, c) ==
  IF Own(rows, c, "company") # {} THEN FirstOwn(rows, c, "company")
  ELSE IF FirstOwn(rows, c, "number") # Null THEN FirstOwn(rows, c, "number")
  ELSE FirstOwn(rows, c, "email")
NameRight(name, what, rule) ==
  name.text = Null => name.display = rule \/ (what = "insert" /\ name.display # Null)
NamedRight(rows, c, what) == NameRight(rows[Min(Own(rows, c, "name"))], what, RuleOf(rows, c))

\* What the last successful insertion or update left.
Stores ==
  \A s \in Structs : Wrote(s) =>
    /\ struct[s] # Null
    /\ StoredWell(row, value, struct[s], struct[s].base, contact[struct[s].base].def)
    /\ StoredCompany(row, struct[s], struct[s].base)
    /\ NamedRight(row, struct[s].base, last.what)

LEMMA StoredIsWritten == CInv /\ Stores => WrittenIsStored
<1> SUFFICES ASSUME CInv, Stores, NEW s \in Structs, Wrote(s), NEW x, x = struct[s]
             PROVE  /\ \A k \in Kinds :
                         LET live == Written(value, x.list[k])
                             ids == RowsOf(x.base, k)
                         IN /\ Cardinality(ids) = Len(live)
                            /\ TextsOf(ids) = {value[p].text : p \in Range(live)}
                            /\ k \in Defaults => \A p \in Range(live) :
                                 value[p].id \in ids /\ row[value[p].id].text = value[p].text
                    /\ TextsOf(RowsOf(x.base, "company"))
                         = {x.company.text : u \in IF x.company = Null THEN {} ELSE {1}} \ {Null}
  BY DEF WrittenIsStored
<1>1. x # Null /\ StoredWell(row, value, x, x.base, contact[x.base].def) /\ StoredCompany(row, x, x.base)
  BY DEF Stores
<1>2. ASSUME NEW k \in Kinds
      PROVE  LET live == Written(value, x.list[k])
                 ids == RowsOf(x.base, k)
             IN /\ Cardinality(ids) = Len(live)
                /\ TextsOf(ids) = {value[p].text : p \in Range(live)}
                /\ k \in Defaults => \A p \in Range(live) :
                     value[p].id \in ids /\ row[value[p].id].text = value[p].text
  <2> DEFINE list == x.list[k]
             live == Written(value, list)
             c == x.base
  <2>1. list \in Seq(0..MaxValues) /\ Distinct(list)
    BY <1>1, <1>2, ItemsAreTaken DEF CInv
  <2>2. Placed(row, value, c, k, list)
    BY <1>1, <1>2 DEF StoredWell
  <2>3. Own(row, c, k) = RowsOf(c, k)
    BY DEF Own, RowsOf
  <2> HIDE DEF list, c
  <2>4. Counted(row, value, c, k, live)
    BY <2>1, <2>2, PlacedRows
  <2> HIDE DEF live
  <2>5. /\ Cardinality(RowsOf(c, k)) = Len(live)
        /\ TextsOf(RowsOf(c, k)) = {value[p].text : p \in Range(live)}
        /\ k \in Defaults => \A p \in Range(live) :
             value[p].id \in RowsOf(c, k) /\ row[value[p].id].text = value[p].text
    BY <2>3, <2>4 DEF TextsOf, Counted
  <2> QED
    BY <2>5 DEF live, list, c
<1>3. TextsOf(RowsOf(x.base, "company"))
        = {x.company.text : u \in IF x.company = Null THEN {} ELSE {1}} \ {Null}
  <2>1. Own(row, x.base, "company") = RowsOf(x.base, "company")
    BY DEF Own, RowsOf
  <2> QED
    BY <1>1, <2>1 DEF StoredCompany, TextsOf
<1> QED
  BY <1>2, <1>3

LEMMA StoredIsChosen == CInv /\ Stores => DefaultChosen
<1> SUFFICES ASSUME CInv, Stores, NEW s \in Structs, Wrote(s), NEW k \in Kinds \cap Defaults,
                    NEW x, x = struct[s], NEW def, def = contact[x.base].def[k]
             PROVE  LET marked(list) == {p \in Range(list) : value[p].def}
                        ids == {value[p].id : p \in marked(Written(value, x.list[k]))}
                    IN /\ RowsOf(x.base, k) # {} => def # 0
                       /\ ids # {} /\ marked(Live(value, x.list[k])) = marked(Written(value, x.list[k])) =>
                            def \in ids
  BY DEF DefaultChosen
<1> DEFINE list == x.list[k]
<1>1. x # Null /\ StoredWell(row, value, x, x.base, contact[x.base].def)
  BY DEF Stores
<1>2. list \in Seq(0..MaxValues) /\ Distinct(list)
  BY <1>1, ItemsAreTaken DEF CInv
<1>3. (Own(row, x.base, k) # {} => def # 0) /\ MarkKept(value, list, def)
  BY <1>1 DEF StoredWell
<1>4. Own(row, x.base, k) = RowsOf(x.base, k)
  BY DEF Own, RowsOf
<1> HIDE DEF list
<1>5. /\ Range(Live(value, list)) = {p \in ItemSet(list) : ~value[p].deleted}
      /\ Range(Written(value, list)) = WrittenSet(value, list)
  BY <1>2, PartItems DEF WrittenSet
<1>6. {p \in Range(Written(value, list)) : value[p].def} = Marked(value, list)
  BY <1>5 DEF Marked
<1>7. ASSUME {p \in Range(Live(value, list)) : value[p].def} = Marked(value, list)
      PROVE  Textless(value, list) = {}
  BY <1>5, <1>7 DEF Textless, Marked, WrittenSet
<1> DEFINE ids == {value[p].id : p \in Marked(value, list)}
<1>8. ASSUME ids # {}, Textless(value, list) = {} PROVE def \in ids
  BY <1>3, <1>8 DEF MarkKept
<1>9. ids # {} /\ {p \in Range(Live(value, list)) : value[p].def} = Marked(value, list) => def \in ids
  BY <1>7, <1>8
<1> QED
  BY <1>3, <1>4, <1>6, <1>9 DEF list

LEMMA StoredIsShown == Stores => DisplayShown
<1> SUFFICES ASSUME Stores, NEW s \in Structs, Wrote(s)
             PROVE  LET c == struct[s].base
                        name == row[Min(RowsOf(c, "name"))]
                        first(k) == IF RowsOf(c, k) = {} THEN Null ELSE row[Min(RowsOf(c, k))].text
                        rule == IF RowsOf(c, "company") # {} THEN first("company")
                                ELSE IF first("number") # Null THEN first("number") ELSE first("email")
                    IN name.text = Null =>
                         name.display = rule \/ (last.what = "insert" /\ name.display # Null)
  BY DEF DisplayShown
<1>1. NamedRight(row, struct[s].base, last.what)
  BY DEF Stores
<1>2. \A c, k : RowsOf(c, k) = Own(row, c, k)
  BY DEF RowsOf, Own
<1> QED
  BY <1>1, <1>2 DEF NamedRight, NameRight, RuleOf, FirstOwn

-----------------------------------------------------------------------------
(* What a struct knows of its contact.                                      *)

NameId(x) == IF x.name = Null THEN 0 ELSE x.name.id
CompanyId(x) == IF x.company = Null THEN 0 ELSE x.company.id

\* Name n is the first of the rows own, or was changed; without a change it has
\* a given name only if that row has.
NameKnown(n, rows, own) ==
  n # Null =>
    /\ n.id = 0 => n.changed
    /\ n.id # 0 => \A i \in own : n.id <= i
    /\ n.id # 0 /\ ~n.changed /\ n.given => rows[n.id].text # Null

\* The items, name and company that have ids are the rows of the contact, and
\* the items are in the order of their rows.
Known(val, x, rows) ==
  /\ \A k \in Kinds : Fits(val, x.list[k], Own(rows, x.base, k)) /\ Ordered(val, x.list[k])
  /\ NameKnown(x.name, rows, Own(rows, x.base, "name"))
  /\ NameId(x) \in Own(rows, x.base, "name") \cup {0}
  /\ CompanyId(x) \in Own(rows, x.base, "company") \cup {0}
  /\ Own(rows, x.base, "company") \subseteq {CompanyId(x)}

\* It holds of a struct until it is written or merged with another.
Told(val, x, rows, lc) ==
  x # Null /\ x.use # "merged" =>
    /\ Owed(val, x)
    /\ x.use = "new" => x.base = 0
    /\ x.use = "read" => x.base \in 1..lc
    /\ x.use \in {"new", "read"} => Known(val, x, rows)

OneCompany(rows) ==
  \A i, j \in DOMAIN rows :
    rows[i].contact = rows[j].contact /\ rows[i].kind = "company" /\ rows[j].kind = "company" => i = j

\* What the rows are: each of a contact that there was, with one company.
RowsKnown(rows, lc) == (\A i \in DOMAIN rows : rows[i].contact \in 1..lc) /\ OneCompany(rows)

\* Defaults are rows of the contact.
DefaultsOwn(contacts, rows) ==
  \A c \in DOMAIN contacts, k \in Defaults : contacts[c].def[k] # 0 => contacts[c].def[k] \in Own(rows, c, k)

DInv ==
  /\ IdsTold(value)
  /\ \A s \in Structs : Told(value, struct[s], row, lastcontact)
  /\ RowsKnown(row, lastcontact)
  /\ DefaultsOwn(contact, row)

\* The inductive invariant of a program that writes a struct once and does not
\* clear the text of a value that has a row.
EInv == CInv /\ DInv /\ Stores

\* The items with ids are the same.
SameIds(v, list, w, other) ==
  \A p : /\ p \in ItemSet(list) /\ v[p].id # 0 => p \in ItemSet(other) /\ w[p].id = v[p].id
         /\ p \in ItemSet(other) /\ w[p].id # 0 => p \in ItemSet(list) /\ w[p].id = v[p].id

LEMMA FitsSame ==
  ASSUME NEW v, NEW list, NEW w, NEW other, SameIds(v, list, w, other), NEW ids, Fits(v, list, ids),
         0 \notin ids
  PROVE  Fits(w, other, ids)
<1>1. \A p \in ItemSet(other) : w[p].id \in ids \cup {0}
  BY DEF Fits, SameIds
<1>2. \A p, q \in ItemSet(other) : w[p].id = w[q].id /\ w[p].id # 0 => p = q
  BY DEF Fits, SameIds
<1>3. \A i \in ids : \E p \in ItemSet(other) : w[p].id = i
  BY DEF Fits, SameIds
<1> QED
  BY <1>1, <1>2, <1>3 DEF Fits

LEMMA OrderSame ==
  ASSUME NEW v, NEW list, NEW w, NEW other, NEW taken, Ordered(v, list), Extends(other, list, taken),
         \A p \in ItemSet(other) : p \in taken => w[p].id = 0,
         \A p \in ItemSet(other) : p \notin taken \/ p \in ItemSet(list) => w[p].id = v[p].id
  PROVE  Ordered(w, other)
<1> SUFFICES ASSUME NEW i \in DOMAIN other, NEW j \in DOMAIN other, i < j, other[i] # 0, other[j] # 0,
                    w[other[j]].id # 0
             PROVE  w[other[i]].id # 0 /\ w[other[i]].id < w[other[j]].id
  BY DEF Ordered
<1>1. other[i] \in ItemSet(other) /\ other[j] \in ItemSet(other) /\ other[j] \notin taken
  BY DEF ItemSet, Range
<1>2. PICK g \in DOMAIN list, h \in DOMAIN list : g < h /\ list[g] = other[i] /\ list[h] = other[j]
  BY <1>1 DEF Extends
<1>3. list[g] \in ItemSet(list) /\ list[h] \in ItemSet(list)
  BY <1>2 DEF ItemSet, Range
<1>4. w[other[i]].id = v[list[g]].id /\ w[other[j]].id = v[list[h]].id
  BY <1>1, <1>2, <1>3
<1> QED
  BY <1>2, <1>4 DEF Ordered

\* Name m is name n, or n changed.
SameName(n, m) == m # Null /\ ~m.changed => n # Null /\ ~n.changed /\ (m.given => n.given)

LEMMA NameSame ==
  ASSUME NEW r, NEW q, NEW x, NEW y, NameKnown(x.name, r, Own(r, x.base, "name")),
         NameId(x) \in Own(r, x.base, "name") \cup {0}, NameId(y) = NameId(x), SameName(x.name, y.name),
         Own(q, x.base, "name") = Own(r, x.base, "name"), \A i \in Own(r, x.base, "name") : q[i] = r[i]
  PROVE  NameKnown(y.name, q, Own(q, x.base, "name"))
<1> SUFFICES ASSUME y.name # Null PROVE NameKnown(y.name, q, Own(q, x.base, "name"))
  BY DEF NameKnown
<1>1. NameId(y) = y.name.id
  BY DEF NameId
<1>2. y.name.id = 0 => y.name.changed
  BY <1>1 DEF NameId, SameName, NameKnown
<1>3. y.name.id # 0 => \A i \in Own(r, x.base, "name") : y.name.id <= i
  BY <1>1 DEF NameId, NameKnown
<1>4. y.name.id # 0 /\ ~y.name.changed /\ y.name.given => q[y.name.id].text # Null
  BY <1>1 DEF NameId, SameName, NameKnown
<1> QED
  BY <1>2, <1>3, <1>4 DEF NameKnown

\* Struct x becomes y, which is still what the contact is, or spent.
StillTold(v, x, r, w, y, q) ==
  y # Null /\ y.use # "merged" =>
    /\ x # Null /\ x.use # "merged"
    /\ y.base = x.base /\ y.def = x.def /\ (y.use = x.use \/ y.use = "spent")
    /\ \A k \in Kinds : SameIds(v, x.list[k], w, y.list[k])
    /\ y.use # "spent" =>
         /\ \A k : Own(q, x.base, k) = Own(r, x.base, k) /\ \A i \in Own(r, x.base, k) : q[i] = r[i]
         /\ NameId(y) = NameId(x) /\ CompanyId(y) = CompanyId(x) /\ SameName(x.name, y.name)
         /\ \A k \in Kinds : Ordered(v, x.list[k]) => Ordered(w, y.list[k])

LEMMA ToldStill ==
  ASSUME NEW v, NEW x, NEW r, NEW lc \in Int, Told(v, x, r, lc), NEW w, NEW y, NEW q, NEW ld \in Int, lc <= ld,
         0 \notin DOMAIN r, StillTold(v, x, r, w, y, q)
  PROVE  Told(w, y, q, ld)
<1> SUFFICES ASSUME y # Null, y.use # "merged"
             PROVE  /\ Owed(w, y)
                    /\ y.use = "new" => y.base = 0
                    /\ y.use = "read" => y.base \in 1..ld
                    /\ y.use \in {"new", "read"} => Known(w, y, q)
  BY DEF Told
<1>1. /\ x # Null /\ x.use # "merged"
      /\ y.base = x.base /\ y.def = x.def /\ (y.use = x.use \/ y.use = "spent")
      /\ \A k \in Kinds : SameIds(v, x.list[k], w, y.list[k])
      /\ y.use # "spent" =>
           /\ \A k : Own(q, x.base, k) = Own(r, x.base, k) /\ \A i \in Own(r, x.base, k) : q[i] = r[i]
           /\ NameId(y) = NameId(x) /\ CompanyId(y) = CompanyId(x) /\ SameName(x.name, y.name)
           /\ \A k \in Kinds : Ordered(v, x.list[k]) => Ordered(w, y.list[k])
  BY DEF StillTold
<1>2. /\ Owed(v, x)
      /\ x.use = "new" => x.base = 0
      /\ x.use = "read" => x.base \in 1..lc
      /\ x.use \in {"new", "read"} => Known(v, x, r)
  BY <1>1 DEF Told
<1>3. Owed(w, y)
  BY <1>1, <1>2 DEF Owed, SameIds
<1>4. y.use = "read" => y.base \in 1..ld
  BY <1>1, <1>2
<1>5. ASSUME y.use \in {"new", "read"} PROVE Known(w, y, q)
  <2>1. y.use = x.use /\ Known(v, x, r) /\ y.use # "spent"
    BY <1>1, <1>2, <1>5
  <2>2. \A k \in Kinds : Fits(w, y.list[k], Own(q, y.base, k))
    <3> SUFFICES ASSUME NEW k \in Kinds PROVE Fits(w, y.list[k], Own(q, y.base, k))
      OBVIOUS
    <3>1. Fits(v, x.list[k], Own(r, x.base, k)) /\ SameIds(v, x.list[k], w, y.list[k])
      BY <1>1, <2>1 DEF Known
    <3>2. 0 \notin Own(r, x.base, k)
      BY DEF Own
    <3>3. Own(q, y.base, k) = Own(r, x.base, k)
      BY <1>1, <2>1
    <3> QED
      BY <3>1, <3>2, <3>3, FitsSame
  <2>3. NameKnown(y.name, q, Own(q, x.base, "name"))
    <3>1. NameKnown(x.name, r, Own(r, x.base, "name")) /\ NameId(x) \in Own(r, x.base, "name") \cup {0}
      BY <2>1 DEF Known
    <3>2. /\ NameId(y) = NameId(x) /\ SameName(x.name, y.name) /\ Own(q, x.base, "name") = Own(r, x.base, "name")
          /\ \A i \in Own(r, x.base, "name") : q[i] = r[i]
      BY <1>1, <2>1
    <3> QED
      BY ONLY <3>1, <3>2, NameSame
  <2>4. \A k \in Kinds : Ordered(w, y.list[k])
    BY <1>1, <2>1 DEF Known
  <2> QED
    BY <1>1, <2>1, <2>2, <2>3, <2>4 DEF Known
<1> QED
  BY <1>1, <1>2, <1>3, <1>4, <1>5

LEMMA RowsArePositive == CInv => 0 \notin DOMAIN row /\ lastcontact \in Int /\ lastrow \in Int
  BY DEF CInv, Rows, Contacts

\* Nothing is written and nothing stored.
LEMMA ObjectsTold ==
  ASSUME CInv, DInv, UNCHANGED database, IdsTold(value'),
         \A s \in Structs : StillTold(value, struct[s], row, value', struct'[s], row)
  PROVE  DInv'
<1>1. row' = row /\ lastcontact' = lastcontact /\ contact' = contact
  BY DEF database
<1>2. ASSUME NEW s \in Structs PROVE Told(value', struct'[s], row, lastcontact)
  <2>1. Told(value, struct[s], row, lastcontact) /\ StillTold(value, struct[s], row, value', struct'[s], row)
    BY DEF DInv
  <2>2. 0 \notin DOMAIN row /\ lastcontact \in Int /\ lastcontact <= lastcontact
    BY RowsArePositive
  <2> QED
    BY ONLY <2>1, <2>2, ToldStill
<1>3. RowsKnown(row, lastcontact) /\ DefaultsOwn(contact, row)
  BY DEF DInv
<1> QED
  BY <1>1, <1>2, <1>3 DEF DInv

\* A struct stays as it is, and so do the ids of its items.
LEMMA StillSame ==
  ASSUME NEW v, NEW w, NEW x, NEW r, NEW q,
         x # Null => \A k \in Kinds : \A p \in ItemSet(x.list[k]) : w[p].id = v[p].id,
         x # Null => \A k : Own(q, x.base, k) = Own(r, x.base, k) /\ \A i \in Own(r, x.base, k) : q[i] = r[i]
  PROVE  StillTold(v, x, r, w, x, q)
<1> SUFFICES ASSUME x # Null, x.use # "merged" PROVE StillTold(v, x, r, w, x, q)
  BY DEF StillTold
<1>1. \A k \in Kinds : SameIds(v, x.list[k], w, x.list[k])
  BY DEF SameIds
<1>2. \A k \in Kinds : Ordered(v, x.list[k]) => Ordered(w, x.list[k])
  BY OrderStays
<1> QED
  BY <1>1, <1>2 DEF StillTold, SameName

\* Values change, and those of structs keep their ids.
LEMMA ValuesTold ==
  ASSUME CInv, DInv, UNCHANGED <<struct, database>>, IdsTold(value'),
         \A p \in Embedded(value) : value'[p].id = value[p].id
  PROVE  DInv'
<1>1. ASSUME NEW s \in Structs PROVE StillTold(value, struct[s], row, value', struct[s], row)
  <2>1. struct[s] # Null => \A k \in Kinds : \A p \in ItemSet(struct[s].list[k]) : value'[p].id = value[p].id
    BY ItemsAreTaken DEF CInv
  <2> QED
    BY <2>1, StillSame
<1> QED
  BY <1>1, ObjectsTold

LEMMA OneValueTold ==
  ASSUME CInv, DInv, UNCHANGED <<struct, database>>, NEW p \in Pointers, NEW v, value' = [value EXCEPT ![p] = v],
         value[p] # Null /\ value[p].embedded => v.id = value[p].id,
         v # Null /\ v.id # 0 => v.embedded /\ v.text # Null
  PROVE  DInv'
<1>1. \A q \in Pointers : value'[q] = IF q = p THEN v ELSE value[q]
  BY DEF CInv, Objects
<1>2. IdsTold(value')
  BY <1>1 DEF DInv, IdsTold
<1>3. \A q \in Embedded(value) : value'[q].id = value[q].id
  BY <1>1 DEF Embedded
<1> QED
  BY <1>2, <1>3, ValuesTold

\* What each value call does to a value.
LEMMA ValueFields ==
  ASSUME NEW v \in SomeValues
  PROVE  /\ \A t : [v EXCEPT !.text = t].id = v.id /\ [v EXCEPT !.text = t].text = t
                   /\ [v EXCEPT !.text = t].embedded = v.embedded
         /\ \A b : /\ [v EXCEPT !.def = b].id = v.id /\ [v EXCEPT !.def = b].text = v.text
                   /\ [v EXCEPT !.def = b].embedded = v.embedded
         /\ \A b : /\ [v EXCEPT !.deleted = b].id = v.id /\ [v EXCEPT !.deleted = b].text = v.text
                   /\ [v EXCEPT !.deleted = b].embedded = v.embedded
         /\ [v EXCEPT !.embedded = TRUE].id = v.id /\ [v EXCEPT !.embedded = TRUE].text = v.text
         /\ [v EXCEPT !.embedded = TRUE].embedded
  BY DEF SomeValues, Values

LEMMA NewValueTold ==
  ASSUME CInv, DInv, NEW in \in Inputs, NewValue(in)
  PROVE  DInv'
<1> DEFINE v == [kind |-> in.kind, id |-> 0, text |-> in.text, cell |-> in.cell, def |-> in.def,
                 deleted |-> FALSE, embedded |-> FALSE]
           p == Nth(Free, 1)
<1>1. value' = [value EXCEPT ![p] = v] /\ UNCHANGED <<struct, database>> /\ Free # {}
  BY DEF NewValue
<1>2. p \in Pointers /\ value[p] = Null
  BY <1>1, FirstFree DEF Free
<1>3. v.id = 0
  OBVIOUS
<1> HIDE DEF v, p
<1> QED
  BY <1>1, <1>2, <1>3, OneValueTold

LEMMA FreeValueTold ==
  ASSUME CInv, DInv, NEW p \in Pointers, FreeValue(p)
  PROVE  DInv'
<1>1. /\ UNCHANGED <<struct, database>> /\ value[p] # Null /\ ~value[p].embedded
      /\ value' = Freed(value, {p})
  BY DEF FreeValue
<1>2. value' = [value EXCEPT ![p] = Null]
  BY <1>1 DEF Freed, CInv, Objects
<1> QED
  BY <1>1, <1>2, OneValueTold

\* The program does not clear the text of a value that has a row.
LEMMA SetTold ==
  ASSUME CInv, DInv, Habits = {}, NEW p \in Pointers,
         \/ \E t \in Texts \cup {Null} : SetStr(p, t)
         \/ \E b \in BOOLEAN : SetDefault(p, b) \/ SetDeleted(p, b)
  PROVE  DInv'
<1>1. UNCHANGED <<struct, database>> /\ value[p] # Null
  BY DEF SetStr, SetDefault, SetDeleted
<1>2. value[p] \in SomeValues
  BY <1>1 DEF CInv, Objects
<1>3. value[p].id # 0 => value[p].embedded /\ value[p].text # Null
  BY <1>1 DEF DInv, IdsTold
<1>4. PICK v : value' = [value EXCEPT ![p] = v] /\ v.id = value[p].id /\ v.embedded = value[p].embedded
               /\ (v.id # 0 => v.text # Null)
  <2>1. ASSUME NEW t \in Texts \cup {Null}, SetStr(p, t)
        PROVE  \E v : value' = [value EXCEPT ![p] = v] /\ v.id = value[p].id /\ v.embedded = value[p].embedded
                      /\ (v.id # 0 => v.text # Null)
    <3> DEFINE v == [value[p] EXCEPT !.text = t]
    <3>1. value' = [value EXCEPT ![p] = v] /\ (value[p].id # 0 => t # Null)
      BY <2>1 DEF SetStr
    <3>2. v.id = value[p].id /\ v.embedded = value[p].embedded /\ (v.id # 0 => v.text # Null)
      BY <1>2, <3>1, ValueFields
    <3> HIDE DEF v
    <3> QED
      BY <3>1, <3>2
  <2>2. ASSUME NEW b \in BOOLEAN, SetDefault(p, b)
        PROVE  \E v : value' = [value EXCEPT ![p] = v] /\ v.id = value[p].id /\ v.embedded = value[p].embedded
                      /\ (v.id # 0 => v.text # Null)
    <3> DEFINE v == [value[p] EXCEPT !.def = b]
    <3>1. value' = [value EXCEPT ![p] = v]
      BY <2>2 DEF SetDefault
    <3>2. v.id = value[p].id /\ v.embedded = value[p].embedded /\ (v.id # 0 => v.text # Null)
      BY <1>2, <1>3, <3>1, ValueFields
    <3> HIDE DEF v
    <3> QED
      BY <3>1, <3>2
  <2>3. ASSUME NEW b \in BOOLEAN, SetDeleted(p, b)
        PROVE  \E v : value' = [value EXCEPT ![p] = v] /\ v.id = value[p].id /\ v.embedded = value[p].embedded
                      /\ (v.id # 0 => v.text # Null)
    <3> DEFINE v == [value[p] EXCEPT !.deleted = b]
    <3>1. value' = [value EXCEPT ![p] = v]
      BY <2>3 DEF SetDeleted
    <3>2. v.id = value[p].id /\ v.embedded = value[p].embedded /\ (v.id # 0 => v.text # Null)
      BY <1>2, <1>3, <3>1, ValueFields
    <3> HIDE DEF v
    <3> QED
      BY <3>1, <3>2
  <2> QED
    BY <2>1, <2>2, <2>3
<1> QED
  BY <1>1, <1>3, <1>4, OneValueTold

-----------------------------------------------------------------------------
(* The calls of cts-struct.c keep what a struct knows.                      *)

LEMMA OneStructTold ==
  ASSUME CInv, DInv, UNCHANGED <<value, database>>, NEW s \in Structs, NEW y, struct' = [struct EXCEPT ![s] = y],
         Told(value, y, row, lastcontact)
  PROVE  DInv'
<1>1. row' = row /\ lastcontact' = lastcontact /\ contact' = contact /\ value' = value
  BY DEF database
<1>2. \A t \in Structs : struct'[t] = IF t = s THEN y ELSE struct[t]
  BY DEF CInv, Objects
<1>3. \A t \in Structs : Told(value, struct'[t], row, lastcontact)
  BY <1>2 DEF DInv
<1> QED
  BY <1>1, <1>3 DEF DInv

\* Only the contents of a struct change that have no id.
LEMMA ContentsTold ==
  ASSUME CInv, DInv, UNCHANGED <<value, database>>, NEW s \in Structs, struct[s] # Null,
         NEW y, struct' = [struct EXCEPT ![s] = y],
         y.list = struct[s].list, y.base = struct[s].base, y.def = struct[s].def,
         y.use = struct[s].use \/ (struct[s].use # "merged" /\ y.use = "spent"),
         NameId(y) = NameId(struct[s]), CompanyId(y) = CompanyId(struct[s]), SameName(struct[s].name, y.name)
  PROVE  DInv'
<1>1. StillTold(value, struct[s], row, value, y, row)
  BY DEF StillTold, SameIds
<1>2. Told(value, struct[s], row, lastcontact)
  BY DEF DInv
<1>3. 0 \notin DOMAIN row /\ lastcontact \in Int /\ lastcontact <= lastcontact
  BY RowsArePositive
<1>4. Told(value, y, row, lastcontact)
  BY ONLY <1>1, <1>2, <1>3, ToldStill
<1> QED
  BY <1>4, OneStructTold

\* A contact has an id.
LEMMA NoRowsOfNone ==
  ASSUME DInv
  PROVE  \A k : Own(row, 0, k) = {}
  BY DEF DInv, RowsKnown, Own

LEMMA NewStructTold ==
  ASSUME CInv, DInv, NEW s \in Structs, NewStruct(s)
  PROVE  DInv'
<1>1. struct' = [struct EXCEPT ![s] = Empty] /\ UNCHANGED <<value, database>>
  BY DEF NewStruct
<1> DEFINE y == Empty
<1>2. /\ y.base = 0 /\ y.name = Null /\ y.company = Null /\ y.def = NoDefault /\ y.use = "new"
      /\ \A k \in Kinds : y.list[k] = <<>>
  BY DEF Empty
<1> HIDE DEF y
<1>3. Owed(value, y)
  BY <1>2 DEF Owed, NoDefault
<1>4. Known(value, y, row)
  <2>1. \A k \in Kinds : ItemSet(y.list[k]) = {}
    BY <1>2 DEF ItemSet, Range
  <2>2. \A k : Own(row, y.base, k) = {}
    BY <1>2, NoRowsOfNone
  <2>3. NameId(y) = 0 /\ CompanyId(y) = 0
    BY <1>2 DEF NameId, CompanyId
  <2>4. \A k \in Kinds : Ordered(value, y.list[k])
    BY <1>2 DEF Ordered
  <2> QED
    BY <1>2, <2>1, <2>2, <2>3, <2>4 DEF Known, NameKnown, Fits
<1>5. Told(value, y, row, lastcontact)
  BY <1>2, <1>3, <1>4 DEF Told
<1> QED
  BY <1>1, <1>5, OneStructTold DEF y

\* Storing a name, a company or an image.
LEMMA StoreTold ==
  ASSUME CInv, DInv, NEW s \in Structs,
         \/ \E n \in Names : StoreName(s, n)
         \/ \E t \in Texts \cup {Null} : StoreCompany(s, t)
         \/ \E i \in Images, path \in Paths \cup {Null} : StoreImage(s, i, path)
  PROVE  DInv'
<1> DEFINE x == struct[s]
<1>1. /\ x # Null /\ x.use # "merged" /\ UNCHANGED <<value, database>>
  BY DEF StoreName, StoreCompany, StoreImage, Usable
<1>2. x \in Contents
  BY <1>1 DEF CInv, Objects
<1>3. PICK y : /\ struct' = [struct EXCEPT ![s] = y]
               /\ y.list = x.list /\ y.base = x.base /\ y.def = x.def /\ y.use = x.use
               /\ NameId(y) = NameId(x) /\ CompanyId(y) = CompanyId(x) /\ SameName(x.name, y.name)
  <2>1. ASSUME NEW n \in Names, StoreName(s, n)
        PROVE  \E y : /\ struct' = [struct EXCEPT ![s] = y]
                      /\ y.list = x.list /\ y.base = x.base /\ y.def = x.def /\ y.use = x.use
                      /\ NameId(y) = NameId(x) /\ CompanyId(y) = CompanyId(x) /\ SameName(x.name, y.name)
    <3> DEFINE m == [id |-> IF x.name = Null THEN 0 ELSE x.name.id, given |-> n.given,
                     display |-> n.display, changed |-> TRUE]
               y == [x EXCEPT !.name = m]
    <3>1. struct' = [struct EXCEPT ![s] = y]
      BY <2>1 DEF StoreName
    <3>2. m.id = NameId(x)
      BY DEF NameId
    <3>5. m # Null
      <4>1. m.id \in 0..MaxRows
        BY <1>2, <3>2, ContentsFields, ConstantsAssumption DEF NameId, SomeNames, RealNames
      <4>2. n.given \in BOOLEAN /\ n.display \in Texts \cup {Null}
        BY <2>1, ConstantsAssumption
      <4>3. m \in RealNames
        BY <4>1, <4>2 DEF RealNames
      <4> QED
        BY <4>3, ConstantsAssumption DEF RealNames
    <3>6. m.changed
      OBVIOUS
    <3> HIDE DEF m
    <3>3. /\ y.list = x.list /\ y.base = x.base /\ y.def = x.def /\ y.use = x.use
          /\ y.name = m /\ y.company = x.company
      BY <1>2 DEF Contents
    <3> HIDE DEF y
    <3>4. NameId(y) = NameId(x) /\ CompanyId(y) = CompanyId(x) /\ SameName(x.name, y.name)
      BY <3>2, <3>3, <3>5, <3>6 DEF NameId, CompanyId, SameName
    <3> QED
      BY <3>1, <3>3, <3>4
  <2>2. ASSUME NEW t \in Texts \cup {Null}, StoreCompany(s, t)
        PROVE  \E y : /\ struct' = [struct EXCEPT ![s] = y]
                      /\ y.list = x.list /\ y.base = x.base /\ y.def = x.def /\ y.use = x.use
                      /\ NameId(y) = NameId(x) /\ CompanyId(y) = CompanyId(x) /\ SameName(x.name, y.name)
    <3> DEFINE m == [id |-> IF x.company = Null THEN 0 ELSE x.company.id, text |-> t]
               y == [x EXCEPT !.company = m]
    <3>1. struct' = [struct EXCEPT ![s] = y]
      BY <2>2 DEF StoreCompany
    <3>2. m.id = CompanyId(x)
      BY DEF CompanyId
    <3>5. m # Null
      <4>1. m.id \in 0..MaxRows
        BY <1>2, <3>2, ContentsFields, ConstantsAssumption DEF CompanyId, SomeCompanies
      <4> QED
        BY <2>2, <4>1, ConstantsAssumption
    <3> HIDE DEF m
    <3>3. /\ y.list = x.list /\ y.base = x.base /\ y.def = x.def /\ y.use = x.use
          /\ y.name = x.name /\ y.company = m
      BY <1>2 DEF Contents
    <3> HIDE DEF y
    <3>4. NameId(y) = NameId(x) /\ CompanyId(y) = CompanyId(x) /\ SameName(x.name, y.name)
      BY <3>2, <3>3, <3>5 DEF NameId, CompanyId, SameName
    <3> QED
      BY <3>1, <3>3, <3>4
  <2>3. ASSUME NEW i \in Images, NEW path \in Paths \cup {Null}, StoreImage(s, i, path)
        PROVE  \E y : /\ struct' = [struct EXCEPT ![s] = y]
                      /\ y.list = x.list /\ y.base = x.base /\ y.def = x.def /\ y.use = x.use
                      /\ NameId(y) = NameId(x) /\ CompanyId(y) = CompanyId(x) /\ SameName(x.name, y.name)
    <3> DEFINE y == [x EXCEPT !.image = [x.image EXCEPT ![i] = path], !.changed = x.changed \cup {i}]
    <3>1. struct' = [struct EXCEPT ![s] = y]
      BY <2>3 DEF StoreImage
    <3>3. /\ y.list = x.list /\ y.base = x.base /\ y.def = x.def /\ y.use = x.use
          /\ y.name = x.name /\ y.company = x.company
      BY <1>2 DEF Contents
    <3> HIDE DEF y
    <3>4. NameId(y) = NameId(x) /\ CompanyId(y) = CompanyId(x) /\ SameName(x.name, y.name)
      BY <3>3 DEF NameId, CompanyId, SameName
    <3> QED
      BY <3>1, <3>3, <3>4
  <2> QED
    BY <2>1, <2>2, <2>3
<1> QED
  BY <1>1, <1>3, ContentsTold

\* No two structs have an item in common.
LEMMA ItemsApart ==
  ASSUME CInv, NEW s \in Structs, NEW t \in Structs, s # t, struct[s] # Null, struct[t] # Null,
         NEW k \in Kinds, NEW l \in Kinds, NEW p \in ItemSet(struct[t].list[l])
  PROVE  p \notin ItemSet(struct[s].list[k]) /\ p \in Embedded(value)
<1> DEFINE L == Lists(struct)
<1>1. OwnedBy(L, Embedded(value)) /\ L[s][k] = struct[s].list[k] /\ L[t][l] = struct[t].list[l]
  BY DEF CInv, Objects, Lists
<1> HIDE DEF L
<1>2. p \in Embedded(value)
  BY <1>1 DEF OwnedBy
<1> QED
  BY <1>1, <1>2, Apart

LEMMA StructListsApart ==
  ASSUME CInv, NEW s \in Structs, struct[s] # Null
  PROVE  ListsApart(value, struct[s])
<1> DEFINE L == Lists(struct)
<1>1. struct[s] \in Contents /\ \A k \in Kinds : Takes(value, struct[s].list[k]) /\ Distinct(struct[s].list[k])
  BY ItemsAreTaken DEF CInv, Objects, Takes
<1>2. OwnedBy(L, Embedded(value)) /\ \A k \in Kinds : L[s][k] = struct[s].list[k]
  BY DEF CInv, Objects, Lists
<1> HIDE DEF L
<1>3. ASSUME NEW k \in Kinds, NEW l \in Kinds, NEW p \in ItemSet(struct[s].list[k]), p \in ItemSet(struct[s].list[l])
      PROVE  k = l
  BY <1>2, <1>3, Apart
<1> QED
  BY <1>1, <1>3 DEF ListsApart

\* One struct changes and so do values, but not those of the others.
LEMMA StructTold ==
  ASSUME CInv, DInv, UNCHANGED database, NEW s \in Structs, NEW y, struct' = [struct EXCEPT ![s] = y],
         IdsTold(value'), Told(value', y, row, lastcontact),
         \A p \in Embedded(value) :
           (struct[s] # Null => \A k \in Kinds : p \notin ItemSet(struct[s].list[k])) => value'[p].id = value[p].id
  PROVE  DInv'
<1>1. row' = row /\ lastcontact' = lastcontact /\ contact' = contact
  BY DEF database
<1>2. \A t \in Structs : struct'[t] = IF t = s THEN y ELSE struct[t]
  BY DEF CInv, Objects
<1>3. ASSUME NEW t \in Structs PROVE Told(value', struct'[t], row, lastcontact)
  <2>1. CASE t = s
    BY <1>2, <2>1
  <2>2. CASE t # s
    <3>1. struct'[t] = struct[t]
      BY <1>2, <2>2
    <3>2. struct[t] # Null => \A k \in Kinds : \A p \in ItemSet(struct[t].list[k]) : value'[p].id = value[p].id
      <4> SUFFICES ASSUME struct[t] # Null, NEW l \in Kinds, NEW p \in ItemSet(struct[t].list[l])
                   PROVE  value'[p].id = value[p].id
        OBVIOUS
      <4>1. p \in Embedded(value)
        BY ItemsAreTaken DEF CInv
      <4>2. struct[s] # Null => \A k \in Kinds : p \notin ItemSet(struct[s].list[k])
        BY <2>2, ItemsApart
      <4> QED
        BY <4>1, <4>2
    <3>3. StillTold(value, struct[t], row, value', struct[t], row)
      BY <3>2, StillSame
    <3>4. Told(value, struct[t], row, lastcontact)
      BY DEF DInv
    <3>5. 0 \notin DOMAIN row /\ lastcontact \in Int /\ lastcontact <= lastcontact
      BY RowsArePositive
    <3>6. Told(value', struct[t], row, lastcontact)
      BY ONLY <3>3, <3>4, <3>5, ToldStill
    <3> QED
      BY <3>1, <3>6
  <2> QED
    BY <2>1, <2>2
<1> QED
  BY <1>1, <1>3 DEF DInv

LEMMA FreeStructTold ==
  ASSUME CInv, DInv, NEW s \in Structs, FreeStruct(s)
  PROVE  DInv'
<1> DEFINE freed == {p \in ItemsOf(s) : value[p] # Null /\ value[p].embedded}
<1>1. struct[s] # Null /\ struct' = [struct EXCEPT ![s] = Null] /\ UNCHANGED database
  BY DEF FreeStruct
<1>2. value' = Freed(value, freed)
  BY DEF FreeStruct
<1>3. \A p \in freed : \E k \in Kinds : p \in ItemSet(struct[s].list[k])
  <2>1. ASSUME NEW p \in ItemsOf(s) PROVE \E k \in Kinds : p \in ItemSet(struct[s].list[k])
    <3>1. p # 0 /\ \E k \in Kinds : p \in Range(struct[s].list[k])
      BY <2>1, Zenon DEF ItemsOf
    <3> QED
      BY <3>1 DEF ItemSet
  <2> QED
    BY <2>1
<1> HIDE DEF freed
<1>4. \A p \in Pointers : value'[p] = IF p \in freed THEN Null ELSE value[p]
  BY <1>2 DEF Freed
<1>5. IdsTold(value')
  BY <1>4 DEF IdsTold, DInv
<1>6. \A p \in Embedded(value) :
        (struct[s] # Null => \A k \in Kinds : p \notin ItemSet(struct[s].list[k])) => value'[p].id = value[p].id
  BY <1>1, <1>3, <1>4 DEF Embedded
<1>7. Told(value', Null, row, lastcontact)
  BY DEF Told
<1> QED
  BY <1>1, <1>5, <1>6, <1>7, StructTold

\* contacts_svc_struct_store_list: no value that a program has has an id.
LEMMA ListStoredTold ==
  ASSUME CInv, DInv, NEW s \in Structs, NEW k \in Kinds, NEW M, NEW gone, NEW taken,
         ListStored(s, k, M, gone, taken), \A p \in gone : value[p].id = 0
  PROVE  DInv'
<1> DEFINE x == struct[s]
           y == [x EXCEPT !.list = [x.list EXCEPT ![k] = M]]
<1>1. /\ x # Null /\ x.use # "merged" /\ struct' = [struct EXCEPT ![s].list[k] = M] /\ UNCHANGED database
      /\ ItemSet(M) = (ItemSet(x.list[k]) \ gone) \cup taken /\ gone \subseteq ItemSet(x.list[k])
      /\ \A p \in taken : p \in Pointers /\ value[p] # Null /\ p \notin Embedded(value)
      /\ value' = Freed(Embed(value, taken), gone) /\ Extends(M, x.list[k], taken)
  BY DEF ListStored
<1>2. x \in Contents /\ value \in [Pointers -> {Null} \cup SomeValues]
      /\ struct \in [Structs -> {Null} \cup Contents] /\ x.list \in [Kinds -> Seq(0..MaxValues)]
  BY <1>1, ContentsFields DEF CInv, Objects
<1>3. struct' = [struct EXCEPT ![s] = y]
  BY <1>1, <1>2
<1>4. /\ y.base = x.base /\ y.name = x.name /\ y.company = x.company /\ y.def = x.def /\ y.use = x.use
      /\ \A l \in Kinds : y.list[l] = IF l = k THEN M ELSE x.list[l]
  BY <1>2 DEF Contents
<1> HIDE DEF y
<1>5. /\ \A p \in Pointers \ (taken \cup gone) : value'[p] = value[p]
      /\ \A p \in Pointers \cap gone : value'[p] = Null
      /\ \A p \in taken \ gone : value'[p].id = value[p].id
  <2>1. \A p \in Pointers : value'[p] =
          IF p \in gone THEN Null ELSE IF p \in taken THEN [value[p] EXCEPT !.embedded = TRUE] ELSE value[p]
    BY <1>1 DEF Freed, Embed
  <2>2. \A p \in taken : value[p] \in SomeValues
    BY <1>1, <1>2
  <2> QED
    BY <1>1, <2>1, <2>2, ValueFields
<1>6. \A p \in taken : value[p].id = 0
  BY <1>1 DEF DInv, IdsTold, Embedded
<1>7. IdsTold(value')
  BY <1>1, <1>5, <1>6 DEF DInv, IdsTold
<1>8. ItemSet(x.list[k]) \subseteq Embedded(value)
  BY <1>1, ItemsAreTaken DEF CInv
<1>9. \A p \in Embedded(value) : p \notin gone => value'[p].id = value[p].id
  BY <1>1, <1>5 DEF Embedded
<1>10. \A l \in Kinds : \A p \in ItemSet(x.list[l]) : p \in Embedded(value) /\ p \in Pointers
  BY <1>1, ItemsAreTaken DEF CInv
<1>11. \A p \in taken : p \notin gone /\ value'[p].id = 0
  BY <1>1, <1>5, <1>6, <1>8
<1>12. \A l \in Kinds : l # k => \A p \in ItemSet(x.list[l]) : p \notin gone
  BY <1>1, StructListsApart DEF ListsApart
<1>13. ASSUME NEW l \in Kinds PROVE SameIds(value, x.list[l], value', y.list[l])
  <2>1. CASE l = k
    BY <1>1, <1>4, <1>8, <1>9, <1>11, <2>1 DEF SameIds
  <2>2. CASE l # k
    BY <1>4, <1>9, <1>10, <1>12, <2>2 DEF SameIds
  <2> QED
    BY <2>1, <2>2
<1>order. ASSUME NEW l \in Kinds, Ordered(value, x.list[l]) PROVE Ordered(value', y.list[l])
  <2>1. CASE l = k
    <3>1. \A p \in ItemSet(M) : p \notin taken \/ p \in ItemSet(x.list[k]) => value'[p].id = value[p].id
      BY <1>1, <1>8, <1>9, <1>11
    <3>2. \A p \in ItemSet(M) : p \in taken => value'[p].id = 0
      BY <1>11
    <3>3. Ordered(value', M)
      BY <1>1, <1>order, <2>1, <3>1, <3>2, OrderSame
    <3> QED
      BY <1>4, <2>1, <3>3
  <2>2. CASE l # k
    <3>1. \A p \in ItemSet(x.list[l]) : value'[p].id = value[p].id
      BY <1>9, <1>10, <1>12, <2>2
    <3>2. Ordered(value', x.list[l])
      BY <1>order, <3>1, OrderStays
    <3> QED
      BY <1>4, <2>2, <3>2
  <2> QED
    BY <2>1, <2>2
<1>14. StillTold(value, x, row, value', y, row)
  BY <1>1, <1>4, <1>13, <1>order DEF StillTold, NameId, CompanyId, SameName
<1>15. Told(value', y, row, lastcontact)
  <2>1. Told(value, x, row, lastcontact)
    BY DEF DInv
  <2>2. 0 \notin DOMAIN row /\ lastcontact \in Int /\ lastcontact <= lastcontact
    BY RowsArePositive
  <2> QED
    BY ONLY <1>14, <2>1, <2>2, ToldStill
<1>16. \A p \in Embedded(value) :
         (struct[s] # Null => \A l \in Kinds : p \notin ItemSet(struct[s].list[l])) => value'[p].id = value[p].id
  BY <1>1, <1>9
<1> QED
  BY <1>1, <1>3, <1>7, <1>15, <1>16, StructTold

LEMMA StoreOwnTold ==
  ASSUME CInv, DInv, NEW s \in Structs, NEW k \in Kinds, NEW added \in {<<>>} \cup {<<p>> : p \in Loose(k)},
         StoreOwn(s, k, added)
  PROVE  DInv'
<1>1. \A p \in Dropped(s, k) : value[p].id = 0
  BY DEF Dropped
<1> QED
  BY <1>1, StoreOwnStored, ListStoredTold

LEMMA StoreListTold ==
  ASSUME CInv, DInv, NEW s \in Structs, NEW k \in Kinds, NEW p \in OfKind(k), NEW q \in OfKind(k),
         StoreList(s, k, IF p = q THEN <<p>> ELSE <<p, q>>)
  PROVE  DInv'
BY StoreListStored, ListStoredTold

\* contacts_svc_update_contact that is refused.
LEMMA UpdateRefusedTold ==
  ASSUME CInv, DInv, NEW s \in Structs, UpdateRefused(s)
  PROVE  DInv'
<1> DEFINE x == struct[s]
           n == NamedForUpdate(x)
           y == [x EXCEPT !.name = n, !.use = "spent"]
<1>1. /\ x # Null /\ x.use # "merged" /\ UNCHANGED <<value, database>>
      /\ UNCHANGED struct \/ struct' = [struct EXCEPT ![s].name = n, ![s].use = "spent"]
  BY DEF UpdateRefused, Usable
<1>2. x \in Contents /\ struct \in [Structs -> {Null} \cup Contents]
  BY <1>1 DEF CInv, Objects
<1>3. CASE UNCHANGED struct
  BY <1>1, <1>3 DEF DInv, database
<1>4. CASE struct' = [struct EXCEPT ![s].name = n, ![s].use = "spent"]
  <2>1. struct' = [struct EXCEPT ![s] = y]
    BY <1>2, <1>4
  <2>2. /\ y.list = x.list /\ y.base = x.base /\ y.def = x.def /\ y.use = "spent"
    <3> HIDE DEF n
    <3> QED
      BY <1>2 DEF Contents
  <2> HIDE DEF y
  <2>3. StillTold(value, x, row, value, y, row)
    BY <1>1, <2>2 DEF StillTold, SameIds
  <2>4. Told(value, x, row, lastcontact)
    BY DEF DInv
  <2>5. 0 \notin DOMAIN row /\ lastcontact \in Int /\ lastcontact <= lastcontact
    BY RowsArePositive
  <2>6. Told(value, y, row, lastcontact)
    BY ONLY <2>3, <2>4, <2>5, ToldStill
  <2> QED
    BY <1>1, <2>1, <2>6, OneStructTold
<1> QED
  BY <1>1, <1>3, <1>4

\* The name and the company of a struct without ids add none.
LEMMA MergedIds ==
  ASSUME NEW a \in Contents, NEW b \in Contents, NameId(b) = 0, CompanyId(b) = 0,
         b.name # Null => b.name.changed, NEW x,
         x.name = MergeName(a.name, b.name), x.company = MergeCompany(a.company, b.company)
  PROVE  NameId(x) = NameId(a) /\ CompanyId(x) = CompanyId(a) /\ SameName(a.name, x.name)
<1>1. a.name \in SomeNames /\ b.name \in SomeNames /\ a.company \in SomeCompanies /\ b.company \in SomeCompanies
  BY ContentsFields
<1>2. Null \notin RealNames /\ \A c \in SomeCompanies : c # Null => \A t \in Texts \cup {Null} : [c EXCEPT !.text = t] # Null
  BY ConstantsAssumption DEF RealNames, SomeCompanies
<1>3. NameId(x) = NameId(a) /\ SameName(a.name, x.name)
  <2>1. CASE a.name = Null \/ b.name = Null
    BY <2>1 DEF MergeName, NameId, SameName
  <2>2. CASE a.name # Null /\ b.name # Null
    <3> DEFINE n == a.name
               m == b.name
               given == n.given \/ m.given
               display == IF n.display = Null THEN m.display ELSE n.display
               changed == n.changed \/ (~n.given /\ m.given) \/ (n.display = Null /\ m.display # Null)
               z == [n EXCEPT !.given = given, !.display = display, !.changed = changed]
    <3>1. x.name = z
      BY <2>2 DEF MergeName
    <3>2. given \in BOOLEAN /\ changed \in BOOLEAN /\ display \in Texts \cup {Null} /\ n \in RealNames
      BY <1>1, <2>2 DEF SomeNames, RealNames
    <3>6. ~changed /\ given => ~n.changed /\ n.given
      BY <3>2
    <3>7. ~changed => ~n.changed
      BY <3>2
    <3> HIDE DEF given, display, changed
    <3>3. z \in RealNames /\ z.id = n.id /\ z.given = given /\ z.changed = changed
      BY <3>2 DEF RealNames
    <3> HIDE DEF z
    <3>4. x.name # Null
      BY <1>2, <3>1, <3>3
    <3>5. SameName(n, z)
      BY <2>2, <3>3, <3>6, <3>7 DEF SameName
    <3> QED
      BY <2>2, <3>1, <3>3, <3>4, <3>5 DEF NameId
  <2> QED
    BY <2>1, <2>2
<1>4. CompanyId(x) = CompanyId(a)
  <2>1. CASE a.company = Null \/ b.company = Null
    BY <2>1 DEF MergeCompany, CompanyId
  <2>2. CASE a.company # Null /\ b.company # Null
    <3> DEFINE c == a.company
               d == b.company
               text == IF c.text = Null THEN d.text ELSE c.text
               z == [c EXCEPT !.text = text]
    <3>1. x.company = z
      BY <2>2 DEF MergeCompany
    <3>2. text \in Texts \cup {Null} /\ c # Null /\ c \in SomeCompanies
      BY <1>1, <2>2 DEF SomeCompanies
    <3> HIDE DEF text
    <3>3. z # Null
      BY <1>2, <3>2
    <3>4. z.id = c.id
      BY <3>2 DEF SomeCompanies
    <3> HIDE DEF z
    <3> QED
      BY <2>2, <3>1, <3>3, <3>4 DEF CompanyId
  <2> QED
    BY <2>1, <2>2
<1> QED
  BY <1>3, <1>4

LEMMA MergeTold ==
  ASSUME CInv, DInv, NEW s \in Structs, NEW t \in Structs, Merge(s, t)
  PROVE  DInv'
<1> DEFINE a == struct[s]
           b == struct[t]
<1>1. PICK x, y : Merged(s, t, x, y)
  BY MergeMerges
<1>2. /\ Usable(s) /\ Usable(t) /\ s # t /\ UNCHANGED <<value, database>>
      /\ struct' = [struct EXCEPT ![s] = x, ![t] = y] /\ x \in Contents /\ y \in Contents
      /\ x.base = (IF a.base = 0 THEN b.base ELSE a.base) /\ x.def = a.def
      /\ x.name = MergeName(a.name, b.name) /\ x.company = MergeCompany(a.company, b.company)
      /\ x.use = (IF b.use = "new" THEN a.use ELSE "spent") /\ y.use = "merged"
      /\ \A k \in Kinds :
           /\ ItemSet(x.list[k]) \subseteq ItemSet(a.list[k]) \cup ItemSet(b.list[k])
           /\ ItemSet(a.list[k]) \subseteq ItemSet(x.list[k])
           /\ Extends(x.list[k], a.list[k], ItemSet(b.list[k]))
  BY <1>1 DEF Merged
<1>3. a \in Contents /\ b \in Contents /\ a # Null /\ b # Null /\ a.use # "merged" /\ b.use # "merged"
  BY <1>2 DEF CInv, Objects, Usable
<1>4. /\ row' = row /\ lastcontact' = lastcontact /\ contact' = contact /\ value' = value
      /\ \A u \in Structs : struct'[u] = IF u = t THEN y ELSE IF u = s THEN x ELSE struct[u]
  BY <1>2 DEF database, CInv, Objects
<1>5. Told(value, a, row, lastcontact) /\ Told(value, b, row, lastcontact)
  BY DEF DInv
<1> HIDE DEF a, b
<1>6. Told(value, x, row, lastcontact)
  <2>1. CASE b.use # "new"
    <3>1. Owed(value, a)
      BY <1>3, <1>5 DEF Told
    <3>2. Owed(value, x)
      BY <1>2, <3>1 DEF Owed
    <3> QED
      BY <1>2, <2>1, <3>2 DEF Told
  <2>2. CASE b.use = "new"
    <3>1. b.base = 0 /\ Known(value, b, row)
      BY <1>3, <1>5, <2>2 DEF Told
    <3>2. \A k : Own(row, b.base, k) = {}
      BY <3>1, NoRowsOfNone
    <3>3. \A k \in Kinds : \A p \in ItemSet(b.list[k]) : value[p].id = 0
      BY <3>1, <3>2 DEF Known, Fits
    <3>4. NameId(b) = 0 /\ CompanyId(b) = 0
      BY <3>1, <3>2 DEF Known
    <3>n. b.name # Null => b.name.changed
      BY <3>1, <3>4 DEF Known, NameKnown, NameId
    <3>5. NameId(x) = NameId(a) /\ CompanyId(x) = CompanyId(a) /\ SameName(a.name, x.name)
      BY <1>2, <1>3, <3>4, <3>n, MergedIds
    <3>6. \A k \in Kinds : SameIds(value, a.list[k], value, x.list[k])
      BY <1>2, <3>3 DEF SameIds
    <3>o. ASSUME NEW k \in Kinds, Ordered(value, a.list[k]) PROVE Ordered(value, x.list[k])
      BY <1>2, <3>3, <3>o, OrderSame
    <3>7. StillTold(value, a, row, value, x, row)
      BY <1>2, <1>3, <2>2, <3>1, <3>5, <3>6, <3>o DEF StillTold
    <3>8. 0 \notin DOMAIN row /\ lastcontact \in Int /\ lastcontact <= lastcontact
      BY RowsArePositive
    <3> QED
      BY ONLY <1>5, <3>7, <3>8, ToldStill
  <2> QED
    BY <2>1, <2>2
<1>7. Told(value, y, row, lastcontact)
  BY <1>2 DEF Told
<1>8. \A u \in Structs : Told(value, struct'[u], row, lastcontact)
  BY <1>4, <1>6, <1>7 DEF DInv
<1> QED
  BY <1>4, <1>8 DEF DInv

-----------------------------------------------------------------------------
(* New structs with new values.                                             *)

\* As Fits and Ordered, of the values that a list is made from.
FitsMade(items, ids) ==
  /\ \A i, j \in DOMAIN items : i < j /\ items[j].id # 0 => items[i].id # 0 /\ items[i].id < items[j].id
  /\ \A i \in DOMAIN items : items[i].id \in ids \cup {0}
  /\ \A i, j \in DOMAIN items : items[i].id = items[j].id /\ items[i].id # 0 => i = j
  /\ \A n \in ids : \E i \in DOMAIN items : items[i].id = n

LEMMA MadeItems ==
  ASSUME CInv, NEW t \in Structs, NEW made, NEW x, Makes(t, made, x)
  PROVE  /\ \A k \in Kinds :
              /\ DOMAIN x.list[k] = DOMAIN made[k]
              /\ \A i \in DOMAIN made[k] : x.list[k][i] \in ItemSet(x.list[k]) /\ value'[x.list[k][i]] = made[k][i]
              /\ \A p \in ItemSet(x.list[k]) : \E i \in DOMAIN made[k] : p = x.list[k][i]
         /\ \A p \in Pointers : value'[p] = value[p] \/ \E k \in Kinds : p \in ItemSet(x.list[k])
         /\ \A p \in Embedded(value) : value'[p] = value[p]
<1> DEFINE list == x.list
           val == value'
<1>1. list = Allocate(made).list /\ val = Allocate(made).value /\ made \in SomeLists /\ Places(made) # {}
      /\ value \in [Pointers -> {Null} \cup SomeValues]
  BY DEF Makes, CInv, Objects
<1> HIDE DEF list, val
<1>2. (\A k \in Kinds : Range(list[k]) \subseteq Free) /\ Filled(made, list, val)
  BY <1>1, Allocated
<1>3. \A p \in Free : p # 0 /\ p \notin Embedded(value)
  BY PointersAreNumbers DEF Free, Embedded
<1>4. \A k \in Kinds : ItemSet(list[k]) = Range(list[k])
  BY <1>2, <1>3 DEF ItemSet
<1>5. \A k \in Kinds :
        /\ DOMAIN list[k] = DOMAIN made[k]
        /\ \A i \in DOMAIN made[k] : list[k][i] \in ItemSet(list[k]) /\ val[list[k][i]] = made[k][i]
        /\ \A p \in ItemSet(list[k]) : \E i \in DOMAIN made[k] : p = list[k][i]
  <2> SUFFICES ASSUME NEW k \in Kinds
               PROVE  /\ DOMAIN list[k] = DOMAIN made[k]
                      /\ \A i \in DOMAIN made[k] : list[k][i] \in ItemSet(list[k]) /\ val[list[k][i]] = made[k][i]
                      /\ \A p \in ItemSet(list[k]) : \E i \in DOMAIN made[k] : p = list[k][i]
    OBVIOUS
  <2> DEFINE l == list[k]
             m == made[k]
  <2>1. DOMAIN l = DOMAIN m /\ (\A i \in DOMAIN m : val[l[i]] = m[i]) /\ ItemSet(l) = Range(l)
    BY <1>2, <1>4 DEF Filled
  <2> HIDE DEF l, m
  <2>2. \A i \in DOMAIN m : l[i] \in ItemSet(l)
    BY <2>1 DEF Range
  <2>3. \A p \in ItemSet(l) : \E i \in DOMAIN m : p = l[i]
    BY <2>1 DEF Range
  <2> QED
    BY <2>1, <2>2, <2>3 DEF l, m
<1>6. \A p \in Pointers : val[p] = value[p] \/ \E k \in Kinds : p \in ItemSet(list[k])
  <2>1. \A p \in Pointers : val[p] = value[p] \/ \E k \in Kinds : p \in Range(list[k])
    BY <1>2 DEF Filled
  <2> QED
    BY ONLY <1>4, <2>1
<1>7. \A p \in Embedded(value) : val[p] = value[p]
  <2>1. ASSUME NEW p \in Embedded(value), NEW k \in Kinds PROVE p \notin ItemSet(list[k])
    BY <1>2, <1>3, <1>4
  <2>2. \A p \in Embedded(value) : p \in Pointers
    BY DEF Embedded
  <2> QED
    BY <1>6, <2>1, <2>2
<1> QED
  BY <1>5, <1>6, <1>7 DEF list, val

LEMMA MadeTold ==
  ASSUME CInv, DInv, NEW t \in Structs, NEW made, NEW x, Makes(t, made, x),
         \A k \in Kinds : \A i \in DOMAIN made[k] : made[k][i].id # 0 => made[k][i].embedded /\ made[k][i].text # Null,
         x.use # "merged",
         \A k \in Defaults : x.def[k] # 0 => k \in Kinds /\ \E i \in DOMAIN made[k] : made[k][i].id # 0,
         x.use = "new" => x.base = 0,
         x.use = "read" => x.base \in 1..lastcontact,
         x.use \in {"new", "read"} =>
           /\ \A k \in Kinds : FitsMade(made[k], Own(row, x.base, k))
           /\ NameKnown(x.name, row, Own(row, x.base, "name"))
           /\ NameId(x) \in Own(row, x.base, "name") \cup {0}
           /\ CompanyId(x) \in Own(row, x.base, "company") \cup {0}
           /\ Own(row, x.base, "company") \subseteq {CompanyId(x)}
  PROVE  DInv'
<1>1. /\ \A k \in Kinds :
           /\ DOMAIN x.list[k] = DOMAIN made[k]
           /\ \A i \in DOMAIN made[k] : x.list[k][i] \in ItemSet(x.list[k]) /\ value'[x.list[k][i]] = made[k][i]
           /\ \A p \in ItemSet(x.list[k]) : \E i \in DOMAIN made[k] : p = x.list[k][i]
      /\ \A p \in Pointers : value'[p] = value[p] \/ \E k \in Kinds : p \in ItemSet(x.list[k])
      /\ \A p \in Embedded(value) : value'[p] = value[p]
  BY MadeItems
<1>2. IdsTold(value')
  <2> SUFFICES ASSUME NEW p \in Pointers, value'[p] # Null, value'[p].id # 0
               PROVE  value'[p].embedded /\ value'[p].text # Null
    BY DEF IdsTold
  <2>1. CASE value'[p] = value[p]
    BY <2>1 DEF DInv, IdsTold
  <2>2. CASE \E k \in Kinds : p \in ItemSet(x.list[k])
    <3>1. PICK k \in Kinds : p \in ItemSet(x.list[k])
      BY <2>2
    <3>2. PICK i \in DOMAIN made[k] : p = x.list[k][i]
      BY <1>1, <3>1
    <3>3. value'[p] = made[k][i]
      BY <1>1, <3>2
    <3> QED
      BY <3>3
  <2> QED
    BY <1>1, <2>1, <2>2
<1>3. Owed(value', x)
  BY <1>1 DEF Owed
<1>4. ASSUME NEW k \in Kinds, NEW ids, FitsMade(made[k], ids)
      PROVE  Fits(value', x.list[k], ids)
  <2>1. \A p \in ItemSet(x.list[k]) : value'[p].id \in ids \cup {0}
    BY <1>1, <1>4 DEF FitsMade
  <2>2. \A p, q \in ItemSet(x.list[k]) : value'[p].id = value'[q].id /\ value'[p].id # 0 => p = q
    <3> SUFFICES ASSUME NEW p \in ItemSet(x.list[k]), NEW q \in ItemSet(x.list[k]),
                        value'[p].id = value'[q].id, value'[p].id # 0
                 PROVE  p = q
      OBVIOUS
    <3>0. /\ \A n \in DOMAIN made[k] : value'[x.list[k][n]] = made[k][n]
          /\ \A u \in ItemSet(x.list[k]) : \E n \in DOMAIN made[k] : u = x.list[k][n]
      BY <1>1
    <3>1. PICK i \in DOMAIN made[k] : p = x.list[k][i] /\ value'[p] = made[k][i]
      BY ONLY <3>0, p \in ItemSet(x.list[k])
    <3>2. PICK j \in DOMAIN made[k] : q = x.list[k][j] /\ value'[q] = made[k][j]
      BY ONLY <3>0, q \in ItemSet(x.list[k])
    <3>3. made[k][i].id = made[k][j].id /\ made[k][i].id # 0
      BY <3>1, <3>2
    <3>4. \A m, n \in DOMAIN made[k] : made[k][m].id = made[k][n].id /\ made[k][m].id # 0 => m = n
      BY <1>4 DEF FitsMade
    <3>5. i = j
      BY ONLY <3>3, <3>4, i \in DOMAIN made[k], j \in DOMAIN made[k]
    <3> QED
      BY <3>1, <3>2, <3>5
  <2>3. \A n \in ids : \E p \in ItemSet(x.list[k]) : value'[p].id = n
    BY <1>1, <1>4 DEF FitsMade
  <2> QED
    BY <2>1, <2>2, <2>3 DEF Fits
<1>o. ASSUME NEW k \in Kinds, NEW ids, FitsMade(made[k], ids)
      PROVE  Ordered(value', x.list[k])
  <2>1. \A n \in DOMAIN x.list[k] : n \in DOMAIN made[k] /\ value'[x.list[k][n]] = made[k][n]
    BY <1>1
  <2>2. \A i, j \in DOMAIN made[k] :
          i < j /\ made[k][j].id # 0 => made[k][i].id # 0 /\ made[k][i].id < made[k][j].id
    BY <1>o DEF FitsMade
  <2> QED
    BY ONLY <2>1, <2>2 DEF Ordered
<1>5. x.use \in {"new", "read"} => Known(value', x, row)
  BY <1>4, <1>o DEF Known
<1>6. Told(value', x, row, lastcontact)
  BY <1>3, <1>5 DEF Told
<1>7. UNCHANGED database /\ struct' = [struct EXCEPT ![t] = x]
  BY DEF Makes
<1> QED
  BY <1>1, <1>2, <1>6, <1>7, StructTold

LEMMA DuplicateTold ==
  ASSUME CInv, DInv, NEW s \in Structs, NEW t \in Structs, Duplicate(s, t)
  PROVE  DInv'
<1> DEFINE y == struct[s]
<1>1. PICK made, x : /\ Makes(t, made, x) /\ \A k \in Kinds : made[k] = Copies(y.list[k])
                     /\ x = [y EXCEPT !.list = x.list]
  BY DuplicateMakes
<1>2. y # Null /\ y.use # "merged" /\ y \in Contents /\ NoNulls(y)
  BY DEF Duplicate, Usable, CInv, Objects
<1>3. Told(value, y, row, lastcontact)
  BY DEF DInv
<1>4. ListsApart(value, y)
  BY <1>2, StructListsApart
<1> HIDE DEF y
<1>5. /\ x.base = y.base /\ x.name = y.name /\ x.company = y.company /\ x.def = y.def /\ x.use = y.use
  <2> DEFINE l == x.list
  <2>1. x = [y EXCEPT !.list = l]
    BY <1>1
  <2> HIDE DEF l
  <2> QED
    BY <1>2, <2>1 DEF Contents
<1>6. NameId(x) = NameId(y) /\ CompanyId(x) = CompanyId(y)
  BY <1>5 DEF NameId, CompanyId
<1>7. ASSUME NEW k \in Kinds
      PROVE  /\ DOMAIN made[k] = DOMAIN y.list[k]
             /\ \A i \in DOMAIN y.list[k] :
                  made[k][i] = value[y.list[k][i]] /\ y.list[k][i] \in ItemSet(y.list[k])
             /\ \A p \in ItemSet(y.list[k]) : p \in Pointers /\ value[p] # Null /\ \E i \in DOMAIN y.list[k] : y.list[k][i] = p
  <2>1. made[k] = [i \in DOMAIN y.list[k] |-> value[y.list[k][i]]]
    BY <1>1 DEF Copies
  <2>2. 0 \notin Range(y.list[k])
    BY <1>2 DEF NoNulls
  <2>3. \A p \in ItemSet(y.list[k]) : p \in Pointers /\ value[p] # Null
    BY <1>4 DEF ListsApart, Takes, Embedded
  <2> QED
    BY <2>1, <2>2, <2>3 DEF ItemSet, Range
<1>8. \A k \in Kinds : \A i \in DOMAIN made[k] : made[k][i].id # 0 => made[k][i].embedded /\ made[k][i].text # Null
  BY <1>7 DEF DInv, IdsTold
<1>9. /\ Owed(value, y) /\ (y.use = "new" => y.base = 0) /\ (y.use = "read" => y.base \in 1..lastcontact)
      /\ y.use \in {"new", "read"} => Known(value, y, row)
  BY <1>2, <1>3 DEF Told
<1>10. \A k \in Defaults : x.def[k] # 0 => k \in Kinds /\ \E i \in DOMAIN made[k] : made[k][i].id # 0
  BY <1>5, <1>7, <1>9 DEF Owed
<1>11. ASSUME NEW k \in Kinds, NEW ids, Fits(value, y.list[k], ids), Ordered(value, y.list[k])
       PROVE  FitsMade(made[k], ids)
  <2>1. \A i \in DOMAIN made[k] : made[k][i].id \in ids \cup {0}
    BY <1>7, <1>11 DEF Fits
  <2>2. \A i, j \in DOMAIN made[k] : made[k][i].id = made[k][j].id /\ made[k][i].id # 0 => i = j
    <3>1. \A i, j \in DOMAIN y.list[k] : y.list[k][i] = y.list[k][j] /\ y.list[k][i] # 0 => i = j
      BY <1>4 DEF ListsApart, Distinct
    <3>2. \A p \in ItemSet(y.list[k]) : p # 0
      BY DEF ItemSet
    <3> QED
      BY <1>7, <1>11, <3>1, <3>2 DEF Fits
  <2>3. \A n \in ids : \E i \in DOMAIN made[k] : made[k][i].id = n
    <3> SUFFICES ASSUME NEW n \in ids PROVE \E i \in DOMAIN made[k] : made[k][i].id = n
      OBVIOUS
    <3>1. PICK p \in ItemSet(y.list[k]) : value[p].id = n
      BY <1>11 DEF Fits
    <3>2. PICK i \in DOMAIN y.list[k] : y.list[k][i] = p
      BY <1>7
    <3> QED
      BY <1>7, <3>1, <3>2
  <2>4. \A i, j \in DOMAIN made[k] :
          i < j /\ made[k][j].id # 0 => made[k][i].id # 0 /\ made[k][i].id < made[k][j].id
    <3>1. \A p \in ItemSet(y.list[k]) : p # 0
      BY DEF ItemSet
    <3> QED
      BY <1>7, <1>11, <3>1 DEF Ordered
  <2> QED
    BY <2>1, <2>2, <2>3, <2>4 DEF FitsMade
<1>12. x.use \in {"new", "read"} =>
           /\ \A k \in Kinds : FitsMade(made[k], Own(row, x.base, k))
           /\ NameKnown(x.name, row, Own(row, x.base, "name"))
           /\ NameId(x) \in Own(row, x.base, "name") \cup {0}
           /\ CompanyId(x) \in Own(row, x.base, "company") \cup {0}
           /\ Own(row, x.base, "company") \subseteq {CompanyId(x)}
  BY <1>5, <1>6, <1>9, <1>11 DEF Known
<1>13. x.use # "merged" /\ (x.use = "new" => x.base = 0) /\ (x.use = "read" => x.base \in 1..lastcontact)
  BY <1>2, <1>5, <1>9
<1> QED
  BY <1>1, <1>8, <1>10, <1>12, <1>13, MadeTold

\* contacts_svc_get_contact: every row becomes an item, the name and the company.
LEMMA GetTold ==
  ASSUME CInv, DInv, NEW s \in Structs, NEW c \in DOMAIN contact, Get(s, c)
  PROVE  DInv'
<1>1. PICK made, x :
        /\ Makes(s, made, x)
        /\ \A k \in Kinds : made[k] = [j \in 1..Cardinality(RowsOf(c, k)) |-> Item(c, k, Nth(RowsOf(c, k), j))]
        /\ x.base = c /\ x.name = ReadName(c) /\ x.company = ReadCompany(c) /\ x.def = contact[c].def
        /\ x.use = "read"
  BY GetMakes
<1>2. \A k : RowsOf(c, k) = Own(row, c, k)
  BY DEF RowsOf, Own
<1>3. lastrow \in Nat /\ DOMAIN row \subseteq 1..lastrow /\ c \in 1..lastcontact
  BY DEF CInv, Rows, Contacts
<1>4. ASSUME NEW k \in Kinds
      PROVE  /\ FitsMade(made[k], Own(row, c, k))
             /\ \A i \in DOMAIN made[k] : made[k][i].id # 0 => made[k][i].embedded /\ made[k][i].text # Null
  <2> DEFINE R == RowsOf(c, k)
             n == Cardinality(R)
  <2>1. R \in SUBSET (1..lastrow)
    BY <1>3 DEF RowsOf
  <2>2. \A i \in R : row[i].text # Null
    <3>1. \A i \in R : row[i].text \in Texts
      BY RowsFields
    <3> QED
      BY <3>1, NullIsNone
  <2>3. made[k] = [j \in 1..n |-> Item(c, k, Nth(R, j))]
    BY <1>1
  <2> HIDE DEF R
  <2>4. /\ \A j \in 1..n : Nth(R, j) \in R /\ Rank(R, Nth(R, j)) = j
        /\ \A i \in R : Rank(R, i) \in 1..n /\ Nth(R, Rank(R, i)) = i
        /\ \A l, m \in 1..n : l < m => Nth(R, l) < Nth(R, m)
    BY <1>3, <2>1, NthEnumerates
  <2>5. \A i : Item(c, k, i).id = i /\ Item(c, k, i).embedded /\ Item(c, k, i).text = row[i].text
    BY DEF Item
  <2> HIDE DEF n
  <2>6. DOMAIN made[k] = 1..n /\ \A j \in 1..n : /\ made[k][j].id = Nth(R, j) /\ made[k][j].embedded
                                                /\ made[k][j].text = row[Nth(R, j)].text
    BY <2>3, <2>5
  <2>7. FitsMade(made[k], R)
    <3>1. \A i \in R : i # 0
      BY <1>3, <2>1
    <3> QED
      BY <2>4, <2>6, <3>1 DEF FitsMade
  <2> QED
    BY <1>2, <2>2, <2>4, <2>6, <2>7 DEF R
<1>5. \A k : RowsOf(c, k) # {} => Min(RowsOf(c, k)) \in RowsOf(c, k)
  <2> SUFFICES ASSUME NEW k, RowsOf(c, k) # {} PROVE Min(RowsOf(c, k)) \in RowsOf(c, k)
    OBVIOUS
  <2>1. RowsOf(c, k) \subseteq Nat
    BY <1>3 DEF RowsOf
  <2> QED
    BY <2>1, Smallest
<1>6. NameId(x) \in Own(row, c, "name") \cup {0}
  <2>1. CASE RowsOf(c, "name") = {}
    BY <1>1, <2>1 DEF ReadName, NameId
  <2>2. CASE RowsOf(c, "name") # {}
    <3>1. x.name = Null \/ x.name.id = Min(RowsOf(c, "name"))
      BY <1>1, <2>2 DEF ReadName
    <3> QED
      BY <1>2, <1>5, <2>2, <3>1 DEF NameId
  <2> QED
    BY <2>1, <2>2
<1>n. NameKnown(x.name, row, Own(row, c, "name"))
  <2> SUFFICES ASSUME x.name # Null PROVE NameKnown(x.name, row, Own(row, c, "name"))
    BY DEF NameKnown
  <2> DEFINE i == Min(RowsOf(c, "name"))
  <2>1. /\ RowsOf(c, "name") # {}
        /\ x.name = [id |-> i, given |-> row[i].text # Null, display |-> row[i].display, changed |-> FALSE]
    BY <1>1 DEF ReadName
  <2>2. i \in RowsOf(c, "name") /\ \A j \in RowsOf(c, "name") : i <= j
    <3>1. RowsOf(c, "name") \subseteq Nat
      BY <1>3 DEF RowsOf
    <3> QED
      BY <2>1, <3>1, Smallest
  <2>3. i # 0
    BY <1>3, <2>2 DEF RowsOf
  <2> HIDE DEF i
  <2> DEFINE given == row[i].text # Null
  <2>4. x.name.id = i /\ x.name.given = given
    <3>1. x.name = [id |-> i, given |-> given, display |-> row[i].display, changed |-> FALSE]
      BY <2>1
    <3> HIDE DEF given
    <3> QED
      BY <3>1
  <2> QED
    BY <1>2, <2>2, <2>3, <2>4 DEF NameKnown
<1>7. CompanyId(x) \in Own(row, c, "company") \cup {0} /\ Own(row, c, "company") \subseteq {CompanyId(x)}
  <2>1. CASE RowsOf(c, "company") = {}
    BY <1>1, <1>2, <2>1 DEF ReadCompany, CompanyId
  <2>2. CASE RowsOf(c, "company") # {}
    <3> DEFINE i == Min(RowsOf(c, "company"))
    <3>1. x.company = [id |-> i, text |-> row[i].text]
      BY <1>1, <2>2 DEF ReadCompany
    <3>2. i \in RowsOf(c, "company") /\ row[i].text \in Texts /\ i \in 0..MaxRows
      BY <1>5, <2>2, RowsFields
    <3> HIDE DEF i
    <3>3. x.company # Null
      <4>1. x.company \in [id : 0..MaxRows, text : Texts \cup {Null}]
        BY <3>1, <3>2
      <4> QED
        BY <4>1, ConstantsAssumption
    <3>4. CompanyId(x) = i
      BY <3>1, <3>3 DEF CompanyId
    <3>5. \A j \in Own(row, c, "company") : j = i
      BY <1>2, <3>2 DEF DInv, RowsKnown, OneCompany, Own
    <3> QED
      BY <1>2, <3>2, <3>4, <3>5
  <2> QED
    BY <2>1, <2>2
<1>8. \A k \in Defaults : x.def[k] # 0 => k \in Kinds /\ \E i \in DOMAIN made[k] : made[k][i].id # 0
  <2> SUFFICES ASSUME NEW k \in Defaults, x.def[k] # 0
               PROVE  k \in Kinds /\ \E i \in DOMAIN made[k] : made[k][i].id # 0
    OBVIOUS
  <2>1. x.def[k] \in Own(row, c, k)
    BY <1>1 DEF DInv, DefaultsOwn
  <2>2. k \in Kinds
    <3>1. row[x.def[k]] \in DataRows /\ row[x.def[k]].kind = k
      BY <2>1 DEF Own, CInv, Rows
    <3> QED
      BY <3>1 DEF DataRows, Defaults
  <2>3. FitsMade(made[k], Own(row, c, k))
    BY <1>4, <2>2
  <2> QED
    BY <2>1, <2>2, <2>3 DEF FitsMade
<1>9. /\ \A k \in Kinds : FitsMade(made[k], Own(row, x.base, k))
      /\ NameKnown(x.name, row, Own(row, x.base, "name"))
      /\ NameId(x) \in Own(row, x.base, "name") \cup {0}
      /\ CompanyId(x) \in Own(row, x.base, "company") \cup {0}
      /\ Own(row, x.base, "company") \subseteq {CompanyId(x)}
  BY <1>1, <1>4, <1>6, <1>7, <1>n
<1>10. x.use # "merged" /\ x.use # "new" /\ x.base \in 1..lastcontact
  BY <1>1, <1>3
<1> QED
  BY <1>1, <1>4, <1>8, <1>9, <1>10, MadeTold

-----------------------------------------------------------------------------
(* The rows of one contact change.                                          *)

\* What a struct knows when the rows of contact c change, which no struct that
\* was read from it matches any more.
LEMMA StructsOvertaken ==
  ASSUME CInv, DInv, NEW t \in Structs, NEW c \in Int, c # 0, NEW w, NEW q, NEW ld \in Int, lastcontact <= ld,
         NEW x, x = struct[t], NEW y,
         y # x => x # Null /\ x.use = "read" /\ y = [x EXCEPT !.use = "spent"],
         y = x => x = Null \/ x.base # c \/ x.use # "read",
         x # Null => \A k \in Kinds : \A p \in ItemSet(x.list[k]) : w[p].id = value[p].id,
         OtherRows(row, q, c)
  PROVE  Told(w, y, q, ld)
<1>1. Told(value, x, row, lastcontact) /\ 0 \notin DOMAIN row /\ lastcontact \in Int
  BY RowsArePositive DEF DInv
<1>2. x \in {Null} \cup Contents
  BY DEF CInv, Objects
<1>3. CASE y = x
  <2>1. x # Null /\ x.use = "new" => x.base = 0
    BY <1>1 DEF Told
  <2>2. x # Null /\ x.use # "merged" => x.use \in {"new", "read", "spent"}
    BY <1>2 DEF Contents
  <2>3. x # Null /\ x.use # "merged" /\ x.use # "spent" =>
          \A k : Own(q, x.base, k) = Own(row, x.base, k) /\ \A i \in Own(row, x.base, k) : q[i] = row[i]
    BY <1>3, <2>1, <2>2 DEF OtherRows
  <2>5. x # Null => \A k \in Kinds : Ordered(value, x.list[k]) => Ordered(w, x.list[k])
    BY OrderStays
  <2>4. StillTold(value, x, row, w, x, q)
    BY <2>3, <2>5 DEF StillTold, SameIds, SameName
  <2> QED
    BY ONLY <1>1, <1>3, <2>4, lastcontact <= ld, ld \in Int, ToldStill
<1>4. CASE y # x
  <2> DEFINE z == [x EXCEPT !.use = "spent"]
  <2>1. z.use = "spent" /\ z.base = x.base /\ z.def = x.def /\ z.list = x.list
    BY <1>2, <1>4 DEF Contents
  <2>2. x # Null /\ x.use = "read" /\ y = z
    BY <1>4
  <2> HIDE DEF z
  <2>3. StillTold(value, x, row, w, y, q)
    BY <2>1, <2>2 DEF StillTold, SameIds
  <2> QED
    BY ONLY <1>1, <2>3, lastcontact <= ld, ld \in Int, ToldStill
<1> QED
  BY <1>3, <1>4

\* The rows and the defaults of contact c change.
LEMMA ContactTold ==
  ASSUME CInv, DInv, NEW c, c \in 1..lastcontact', lastcontact' \in Int, lastcontact <= lastcontact',
         OtherRows(row, row', c),
         \A d \in DOMAIN contact' : d = c \/ (d \in DOMAIN contact /\ contact'[d].def = contact[d].def),
         c \in DOMAIN contact' =>
           \A k \in Defaults : contact'[c].def[k] # 0 => contact'[c].def[k] \in Own(row', c, k),
         \A i, j \in Own(row', c, "company") : i = j,
         IdsTold(value'), \A t \in Structs : Told(value', struct'[t], row', lastcontact')
  PROVE  DInv'
<1>1. lastcontact \in Int
  BY RowsArePositive
<1>2. ASSUME NEW i \in DOMAIN row', row'[i].contact # c
      PROVE  i \in DOMAIN row /\ row[i].contact = row'[i].contact /\ row[i].kind = row'[i].kind
  <2>1. i \in Own(row', row'[i].contact, row'[i].kind)
    BY DEF Own
  <2>2. i \in Own(row, row'[i].contact, row'[i].kind)
    BY <1>2, <2>1 DEF OtherRows
  <2> QED
    BY <2>2 DEF Own
<1>3. \A i \in DOMAIN row' : row'[i].contact \in 1..lastcontact'
  <2> SUFFICES ASSUME NEW i \in DOMAIN row' PROVE row'[i].contact \in 1..lastcontact'
    OBVIOUS
  <2>1. CASE row'[i].contact # c
    <3>1. row'[i].contact \in 1..lastcontact
      BY <1>2, <2>1 DEF DInv, RowsKnown
    <3> QED
      BY <1>1, <3>1
  <2> QED
    BY <2>1
<1>4. OneCompany(row')
  <2> SUFFICES ASSUME NEW i \in DOMAIN row', NEW j \in DOMAIN row', row'[i].contact = row'[j].contact,
                      row'[i].kind = "company", row'[j].kind = "company"
               PROVE  i = j
    BY DEF OneCompany
  <2>1. CASE row'[i].contact = c
    BY <2>1 DEF Own
  <2>2. CASE row'[i].contact # c
    BY <1>2, <2>2 DEF DInv, RowsKnown, OneCompany
  <2> QED
    BY <2>1, <2>2
<1>5. DefaultsOwn(contact', row')
  BY DEF DefaultsOwn, DInv, OtherRows
<1> QED
  BY <1>3, <1>4, <1>5 DEF DInv, RowsKnown

\* No struct was read from c, when its rows change but no struct.
LEMMA AllOvertaken ==
  ASSUME CInv, DInv, NEW c \in Int, c # 0, UNCHANGED <<value, lastcontact>>, struct' = Overtaken(struct, Null, c),
         Null \notin Structs, OtherRows(row, row', c)
  PROVE  \A t \in Structs : Told(value', struct'[t], row', lastcontact')
<1> SUFFICES ASSUME NEW t \in Structs PROVE Told(value', struct'[t], row', lastcontact')
  OBVIOUS
<1> DEFINE x == struct[t]
           y == struct'[t]
<1> DEFINE o == Overtaken(struct, Null, c)[t]
<1>1. /\ y # x => x # Null /\ x.use = "read" /\ y = [x EXCEPT !.use = "spent"]
      /\ y = x => x = Null \/ x.base # c \/ x.use # "read" \/ x = [x EXCEPT !.use = "spent"]
  <2>1. /\ o # x => x # Null /\ x.use = "read" /\ o = [x EXCEPT !.use = "spent"]
        /\ o = x => x = Null \/ x.base # c \/ x.use # "read" \/ x = [x EXCEPT !.use = "spent"]
    <3>1. t # Null
      OBVIOUS
    <3>2. o = IF x # Null /\ x.base = c /\ x.use = "read" THEN [x EXCEPT !.use = "spent"] ELSE x
      BY <3>1 DEF Overtaken
    <3> HIDE DEF o, x
    <3> QED
      BY <3>2
  <2>2. y = o
    BY ONLY struct' = Overtaken(struct, Null, c)
  <2> HIDE DEF x, y, o
  <2> QED
    BY <2>1, <2>2
<1> HIDE DEF o
<1>2. x \in {Null} \cup Contents /\ lastcontact \in Int
  BY RowsArePositive DEF CInv, Objects
<1> HIDE DEF x, y
<1>3. x # Null /\ x.use = "read" => x # [x EXCEPT !.use = "spent"]
  BY <1>2 DEF Contents
<1> QED
  BY <1>1, <1>2, <1>3, StructsOvertaken DEF x, y

\* The data state before anything is written.
LEMMA DataAtFirst ==
  ASSUME CInv, NEW def \in [Defaults -> 0..MaxRows], NEW D, D = [Data EXCEPT !.def = def]
  PROVE  DataTyped(D, value) /\ D.row = row /\ D.last = lastrow /\ D.value = value /\ D.def = def
<1> DEFINE d == [row |-> row, last |-> lastrow, value |-> value, def |-> def]
<1>1. D = d
  BY DEF Data
<1>2. d.row = row /\ d.last = lastrow /\ d.value = value /\ d.def = def
      /\ d = [row |-> d.row, last |-> d.last, value |-> d.value, def |-> d.def]
  OBVIOUS
<1>3. /\ lastrow \in 0..MaxRows /\ MaxRows \in Nat /\ lastrow \in Nat /\ DOMAIN row \subseteq 1..lastrow
      /\ row \in [DOMAIN row -> DataRows] /\ value \in [Pointers -> {Null} \cup SomeValues]
  BY ConstantsAssumption DEF CInv, Rows, Objects
<1> HIDE DEF d
<1>4. DataTyped(d, value)
  BY <1>2, <1>3 DEF DataTyped, Shaped
<1> QED
  BY <1>1, <1>2, <1>4

LEMMA PutTold ==
  ASSUME CInv, DInv, NEW c \in 1..lastcontact, NEW p \in Pointers, Put(c, p)
  PROVE  DInv'
<1> DEFINE v == value[p]
           one == Row(c, v.kind, v.text, v.cell, Null)
           D == Added(Data, <<one>>)
<1>1. /\ v # Null /\ v.kind \in Defaults /\ v.text # Null
      /\ row' = D.row /\ lastrow' = D.last
      /\ contact' = IF v.def /\ c \in DOMAIN contact
                    THEN [contact EXCEPT ![c].def[v.kind] = D.last] ELSE contact
      /\ struct' = Overtaken(struct, Null, c) /\ UNCHANGED <<value, lastcontact>>
  BY DEF Put
<1>2. Data = [Data EXCEPT !.def = NoDefault] /\ NoDefault \in [Defaults -> 0..MaxRows]
  BY ConstantsAssumption DEF Data, NoDefault
<1>3. DataTyped(Data, value) /\ Data.row = row /\ Data.last = lastrow
  BY <1>2, DataAtFirst
<1> HIDE DEF v
<1>4. one.contact = c /\ one.kind = v.kind
  BY DEF Row
<1> HIDE DEF one
<1>5. Len(<<one>>) = 1 /\ Len(<<one>>) \in Nat /\ <<one>>[1] = one
  OBVIOUS
<1>6. /\ DOMAIN D.row = DOMAIN row \cup (lastrow + 1 .. lastrow + 1)
      /\ \A i \in DOMAIN row : D.row[i] = row[i] /\ i \notin lastrow + 1 .. lastrow + 1
      /\ D.row[lastrow + 1] = one /\ D.last = lastrow + 1 /\ lastrow \in Nat
  <2> DEFINE new == <<one>>
             A == Added(Data, new)
  <2>1. Len(new) \in Nat
    OBVIOUS
  <2> HIDE DEF new
  <2>2. /\ DOMAIN A.row = DOMAIN Data.row \cup (Data.last + 1 .. Data.last + Len(new))
        /\ \A i \in DOMAIN Data.row : A.row[i] = Data.row[i] /\ i \notin Data.last + 1 .. Data.last + Len(new)
        /\ \A n \in 1..Len(new) : A.row[Data.last + n] = new[n]
        /\ A.last = Data.last + Len(new) /\ Data.last \in Nat
    BY <1>3, <2>1, AddedWhere
  <2> HIDE DEF A
  <2>3. Len(new) = 1 /\ new[1] = one
    BY DEF new
  <2>4. A = D
    BY DEF A, new
  <2> HIDE DEF D
  <2> QED
    BY <1>3, <2>2, <2>3, <2>4
<1> HIDE DEF D
<1>7. Appended(row, row', lastrow, 1, c, v.kind)
  <2> DEFINE r == D.row
  <2>1. /\ DOMAIN r = DOMAIN row \cup (lastrow + 1 .. lastrow + 1) /\ lastrow \in Nat
        /\ \A i \in DOMAIN row : r[i] = row[i] /\ i \notin lastrow + 1 .. lastrow + 1
        /\ r[lastrow + 1].contact = c /\ r[lastrow + 1].kind = v.kind
    BY <1>4, <1>6
  <2> HIDE DEF r
  <2>2. \A j \in 1..1 : r[lastrow + j].contact = c /\ r[lastrow + j].kind = v.kind
    BY <2>1
  <2>3. Appended(row, r, lastrow, 1, c, v.kind)
    BY <2>1, <2>2 DEF Appended
  <2> QED
    BY <1>1, <2>3 DEF r
<1>8. /\ Own(row', c, v.kind) = Own(row, c, v.kind) \cup (lastrow + 1 .. lastrow + 1)
      /\ SameOthers(row, row', c, {v.kind})
  <2> DEFINE r == row'
             k == v.kind
             m == 1
  <2> HIDE DEF r, k, m
  <2>1. Appended(row, r, lastrow, m, c, k)
    BY <1>7 DEF r, k, m
  <2>2. /\ Own(r, c, k) = Own(row, c, k) \cup (lastrow + 1 .. lastrow + m)
        /\ \A i \in Own(row, c, k) : r[i] = row[i]
        /\ SameOthers(row, r, c, {k})
    BY ONLY <2>1, InsertedOwn
  <2> QED
    BY <2>2 DEF r, k, m
<1>9. \A d, k : d # c \/ k \notin {v.kind} =>
           Own(row', d, k) = Own(row, d, k) /\ \A i \in Own(row, d, k) : row'[i] = row[i]
  BY <1>8, OthersKept
<1>10. lastcontact \in Int /\ c \in Int /\ c # 0 /\ Null \notin Structs /\ contact \in [DOMAIN contact -> ContactRows]
  BY ConstantsAssumption DEF CInv, Contacts
<1>others. OtherRows(row, row', c)
  BY <1>9 DEF OtherRows
<1>11. \A t \in Structs : Told(value', struct'[t], row', lastcontact')
  BY <1>1, <1>10, <1>others, AllOvertaken
<1>12. \A i, j \in Own(row', c, "company") : i = j
  <2>1. "company" \notin {v.kind}
    BY <1>1 DEF Defaults
  <2>2. Own(row', c, "company") = Own(row, c, "company")
    BY <1>9, <2>1
  <2> QED
    BY <2>2 DEF DInv, RowsKnown, OneCompany, Own
<1>13. \A d \in DOMAIN contact' : d = c \/ (d \in DOMAIN contact /\ contact'[d].def = contact[d].def)
  BY <1>1
<1>14. c \in DOMAIN contact' =>
         \A k \in Defaults : contact'[c].def[k] # 0 => contact'[c].def[k] \in Own(row', c, k)
  <2> SUFFICES ASSUME c \in DOMAIN contact', NEW k \in Defaults, contact'[c].def[k] # 0
               PROVE  contact'[c].def[k] \in Own(row', c, k)
    OBVIOUS
  <2>1. c \in DOMAIN contact
    BY <1>1
  <2>2. Own(row, c, k) \subseteq Own(row', c, k)
    <3>1. CASE k = v.kind
      BY <1>8, <3>1
    <3>2. CASE k # v.kind
      BY <1>9, <3>2
    <3> QED
      BY <3>1, <3>2
  <2>3. contact[c].def[k] # 0 => contact[c].def[k] \in Own(row, c, k)
    BY <2>1 DEF DInv, DefaultsOwn
  <2>4. contact[c] \in ContactRows
    BY <1>10, <2>1
  <2>5. contact[c].def \in [Defaults -> 0..MaxRows]
    BY <2>4 DEF ContactRows
  <2>6. contact'[c].def[k] = contact[c].def[k] \/ (k = v.kind /\ contact'[c].def[k] = D.last)
    BY <1>1, <2>1, <2>4, <2>5 DEF ContactRows
  <2>7. D.last \in Own(row', c, v.kind)
    BY <1>6, <1>8
  <2> QED
    BY <2>2, <2>3, <2>6, <2>7
<1>15. IdsTold(value') /\ lastcontact' = lastcontact /\ lastcontact <= lastcontact
  BY <1>1, <1>10 DEF DInv
<1> QED
  BY <1>10, <1>11, <1>others, <1>12, <1>13, <1>14, <1>15, ContactTold

LEMMA DeleteTold ==
  ASSUME CInv, DInv, NEW c \in DOMAIN contact, Delete(c)
  PROVE  DInv'
<1>1. /\ contact' = Restrict(contact, DOMAIN contact \ {c})
      /\ row' = Restrict(row, {i \in DOMAIN row : row[i].contact # c})
      /\ struct' = Overtaken(struct, Null, c) /\ UNCHANGED <<value, lastrow, lastcontact>>
  BY DEF Delete
<1>2. lastcontact \in Int /\ c \in 1..lastcontact /\ c \in Int /\ c # 0 /\ Null \notin Structs
  BY ConstantsAssumption DEF CInv, Contacts
<1>3. DOMAIN row' = {i \in DOMAIN row : row[i].contact # c} /\ \A i \in DOMAIN row' : row'[i] = row[i]
  BY <1>1 DEF Restrict
<1>4. OtherRows(row, row', c)
  BY <1>3 DEF Own, OtherRows
<1>5. \A t \in Structs : Told(value', struct'[t], row', lastcontact')
  BY <1>1, <1>2, <1>4, AllOvertaken
<1>6. \A i, j \in Own(row', c, "company") : i = j
  BY <1>3 DEF Own
<1>7. c \notin DOMAIN contact' /\ \A d \in DOMAIN contact' : d \in DOMAIN contact /\ contact'[d].def = contact[d].def
  BY <1>1 DEF Restrict
<1>8. IdsTold(value') /\ lastcontact' = lastcontact /\ lastcontact <= lastcontact
  BY <1>1, <1>2 DEF DInv
<1> QED
  BY <1>2, <1>4, <1>5, <1>6, <1>7, <1>8, ContactTold

-----------------------------------------------------------------------------
(* A struct is written.                                                     *)

LEMMA MinIs ==
  ASSUME NEW S, S \subseteq Int, NEW m \in S, \A i \in S : m <= i
  PROVE  Min(S) = m
<1> DEFINE P(i) == i \in S /\ \A j \in S : i <= j
<1>1. \A i : P(i) => i = m
  OBVIOUS
<1>2. P(m)
  OBVIOUS
<1>3. Min(S) = CHOOSE i \in S : \A j \in S : i <= j
  BY DEF Min
<1> QED
  BY <1>1, <1>2, <1>3

\* The first row of a list that was written is that of the first item written.
LEMMA FirstShown ==
  ASSUME NEW rows, DOMAIN rows \subseteq Int, NEW val, NEW c, NEW k \in Defaults,
         NEW list \in Seq(0..MaxValues), Distinct(list), Placed(rows, val, c, k, list), Rising(val, list),
         NEW live, live = Written(val, list)
  PROVE  /\ live = <<>> => FirstOwn(rows, c, k) = Null
         /\ live # <<>> => FirstOwn(rows, c, k) = val[live[1]].text
<1>1. /\ Range(live) = WrittenSet(val, list) /\ Distinct(live) /\ 0 \notin Range(live)
      /\ InOrder(live, list) /\ Len(live) \in Nat /\ DOMAIN live = 1..Len(live) /\ live \in Seq(0..MaxValues)
  BY SelectedLists, PartItems, PartsInOrder DEF WrittenSet
<1>2. PICK at : Placing(rows, val, c, k, list, at)
  BY DEF Placed
<1>3. /\ \A p \in Range(live) : val[p].id \in Own(rows, c, k) /\ rows[val[p].id].text = val[p].text
      /\ \A i \in Own(rows, c, k) : \E p \in Range(live) : val[p].id = i
  <2>1. \A p \in WrittenSet(val, list) : at[p] = val[p].id /\ at[p] \in Own(rows, c, k) /\ rows[at[p]].text = val[p].text
    BY <1>2 DEF Placing
  <2>2. \A i \in Own(rows, c, k) : \E p \in WrittenSet(val, list) : at[p] = i
    BY <1>2 DEF Placing
  <2> QED
    BY <1>1, <2>1, <2>2
<1>4. Own(rows, c, k) \subseteq Int
  BY DEF Own
<1>5. CASE live = <<>>
  <2>1. Range(live) = {}
    BY <1>5 DEF Range
  <2>2. Own(rows, c, k) = {}
    BY <1>3, <2>1
  <2> QED
    BY <1>5, <2>2 DEF FirstOwn
<1>6. CASE live # <<>>
  <2> DEFINE p == live[1]
             m == val[p].id
  <2>1. 1 \in DOMAIN live
    BY <1>1, <1>6, EmptySeq
  <2>2. p \in Range(live) /\ At(live, p) = 1
    BY <1>1, <2>1, Positions
  <2> HIDE DEF p
  <2>3. m \in Own(rows, c, k) /\ rows[m].text = val[p].text
    BY <1>3, <2>2
  <2>4. PICK a \in DOMAIN list : list[a] = p
    BY <1>1, <2>2 DEF WrittenSet, ItemSet, Range
  <2>5. ASSUME NEW i \in Own(rows, c, k) PROVE m <= i
    <3>1. PICK q \in Range(live) : val[q].id = i
      BY <1>3
    <3>2. PICK b \in DOMAIN list : list[b] = q
      BY <1>1, <3>1 DEF WrittenSet, ItemSet, Range
    <3>3. At(live, q) \in DOMAIN live
      BY <1>1, <3>1, Positions
    <3>4. ~(b < a)
      <4>1. b < a => At(live, q) < At(live, p)
        BY <1>1, <2>2, <2>4, <3>1, <3>2 DEF InOrder
      <4> QED
        BY <1>1, <2>2, <3>3, <4>1
    <3>5. a < b => m < i
      BY <1>1, <2>2, <2>4, <3>1, <3>2 DEF Rising
    <3>6. a = b => m = i
      BY <2>4, <3>1, <3>2
    <3>7. a \in Int /\ b \in Int
      BY LenProperties
    <3>8. m \in Int /\ i \in Int
      BY <1>4, <2>3
    <3> HIDE DEF m
    <3> QED
      BY <3>4, <3>5, <3>6, <3>7, <3>8
  <2>6. Min(Own(rows, c, k)) = m
    <3> HIDE DEF m
    <3> QED
      BY <1>4, <2>3, <2>5, MinIs
  <2>7. FirstOwn(rows, c, k) = val[p].text
    BY <2>3, <2>6 DEF FirstOwn
  <2> QED
    BY <1>6, <2>7 DEF p
<1> QED
  BY <1>5, <1>6

CompanyTexts(x) == {x.company.text : u \in IF x.company = Null THEN {} ELSE {1}} \ {Null}

LEMMA OneText ==
  ASSUME NEW x, x.company # Null, x.company.text # Null
  PROVE  CompanyTexts(x) = {x.company.text}
<1>1. CompanyTexts(x) = {x.company.text : u \in {1}} \ {Null}
  BY DEF CompanyTexts
<1>2. {x.company.text : u \in {1}} = {x.company.text}
  OBVIOUS
<1> QED
  BY <1>1, <1>2

LEMMA NoText ==
  ASSUME NEW x, x.company = Null \/ x.company.text = Null
  PROVE  CompanyTexts(x) = {}
<1>1. CASE x.company = Null
  BY <1>1 DEF CompanyTexts
<1>2. CASE x.company # Null /\ x.company.text = Null
  <2>1. CompanyTexts(x) = {x.company.text : u \in {1}} \ {Null}
    BY <1>2 DEF CompanyTexts
  <2>2. {x.company.text : u \in {1}} = {Null}
    BY <1>2
  <2> QED
    BY <2>1, <2>2
<1> QED
  BY <1>1, <1>2

LEMMA CompanyShown ==
  ASSUME NEW rows, DOMAIN rows \subseteq Nat, NEW x, NEW c, StoredCompany(rows, x, c)
  PROVE  IF x.company # Null /\ x.company.text # Null
         THEN Own(rows, c, "company") # {} /\ FirstOwn(rows, c, "company") = x.company.text
         ELSE Own(rows, c, "company") = {}
<1> DEFINE own == Own(rows, c, "company")
           T == {rows[i].text : i \in own}
<1>1. T = CompanyTexts(x)
  BY DEF StoredCompany, CompanyTexts
<1>2. CASE x.company # Null /\ x.company.text # Null
  <2>1. T = {x.company.text}
    BY <1>1, <1>2, OneText
  <2>2. own # {}
    BY <2>1
  <2>3. Min(own) \in own
    <3>1. own \subseteq Nat
      BY DEF Own
    <3> HIDE DEF own
    <3> QED
      BY <2>2, <3>1, Smallest
  <2>4. rows[Min(own)].text \in T
    BY <2>3
  <2> QED
    BY <1>2, <2>1, <2>2, <2>4 DEF FirstOwn
<1>3. CASE ~(x.company # Null /\ x.company.text # Null)
  <2>1. T = {}
    BY <1>1, <1>3, NoText
  <2>2. own = {}
    BY <2>1
  <2> QED
    BY <1>3, <2>2
<1> QED
  BY <1>2, <1>3

\* What cts_contact_get_valid_first_number_or_email finds is the first row.
LEMMA FirstTextShown ==
  ASSUME NEW c, NEW x, ListsApart(value, x), NEW D, DataTyped(D, value),
         SameBut(value, D.value, ItemsOfKinds(x, AllKinds)), NEW k \in Defaults,
         k \in Kinds => Placed(D.row, D.value, c, k, x.list[k]) /\ Rising(D.value, x.list[k])
  PROVE  FirstOwn(D.row, c, k) = FirstText(Listed(x, k))
<1>1. DOMAIN D.row \subseteq 1..D.last /\ D.last \in Nat /\ D.row \in [DOMAIN D.row -> DataRows]
  BY DEF DataTyped, Shaped
<1>2. CASE k \in Kinds
  <2> DEFINE list == x.list[k]
             new == Written(value, list)
             v == D.value
  <2>1. Takes(value, list) /\ Distinct(list) /\ list \in Seq(0..MaxValues)
    BY <1>2 DEF ListsApart, Takes
  <2>2. \A p \in ItemSet(list) : p \in ItemsOfKinds(x, AllKinds) /\ p \in Pointers
    <3>1. k \in AllKinds \cap Kinds
      BY <1>2 DEF AllKinds, Defaults
    <3>2. \A p \in ItemSet(list) : p \in Pointers
      BY <2>1 DEF Takes, Embedded
    <3> QED
      BY <3>1, <3>2 DEF ItemsOfKinds
  <2>3. \A p \in ItemSet(list) : v[p].deleted = value[p].deleted /\ v[p].text = value[p].text
    <3> HIDE DEF v, list
    <3> QED
      BY <2>2 DEF SameBut, v
  <2>4. Placed(D.row, v, c, k, list) /\ Rising(v, list) /\ Listed(x, k) = list
    BY <1>2 DEF Listed
  <2> HIDE DEF list, v
  <2>5. Written(v, list) = new
    <3>1. \A i \in DOMAIN list : list[i] # 0 => list[i] \in ItemSet(list)
      BY DEF ItemSet, Range
    <3>2. {i \in DOMAIN list : list[i] # 0 /\ ~v[list[i]].deleted /\ v[list[i]].text # Null}
            = {i \in DOMAIN list : list[i] # 0 /\ ~value[list[i]].deleted /\ value[list[i]].text # Null}
      BY <2>3, <3>1
    <3> QED
      BY <3>2 DEF Written
  <2>6. new # <<>> => new[1] \in ItemSet(list)
    <3>1. Range(new) \subseteq ItemSet(list) /\ new \in Seq(0..MaxValues) /\ DOMAIN new = 1..Len(new)
      BY <2>1, PartItems, SelectedLists
    <3> HIDE DEF new
    <3>2. new # <<>> => 1 \in DOMAIN new
      BY <3>1, EmptySeq
    <3> QED
      BY <3>1, <3>2 DEF Range
  <2>7. /\ new = <<>> => FirstOwn(D.row, c, k) = Null
        /\ new # <<>> => FirstOwn(D.row, c, k) = v[new[1]].text
    <3>1. DOMAIN D.row \subseteq Int
      BY <1>1
    <3> HIDE DEF new
    <3> QED
      BY <2>1, <2>4, <2>5, <3>1, FirstShown
  <2>8. FirstText(list) = IF new = <<>> THEN Null ELSE value[new[1]].text
    BY DEF FirstText
  <2> HIDE DEF new
  <2> QED
    BY <2>3, <2>4, <2>6, <2>7, <2>8
<1>3. CASE k \notin Kinds
  <2>1. \A i \in DOMAIN D.row : D.row[i].kind # k
    <3>1. k \notin {"name", "company"} \cup Kinds
      BY <1>3 DEF Defaults
    <3>2. \A q \in DataRows : q.kind \in {"name", "company"} \cup Kinds
      BY DEF DataRows
    <3>3. \A i \in DOMAIN D.row : D.row[i] \in DataRows
      BY <1>1
    <3> QED
      BY <3>1, <3>2, <3>3
  <2>2. FirstOwn(D.row, c, k) = Null
    BY <2>1 DEF FirstOwn, Own
  <2>3. ASSUME NEW list \in Seq(0..MaxValues), ItemSet(list) = {}
        PROVE  Written(value, list) = <<>>
    <3>1. Range(Written(value, list)) = {} /\ Written(value, list) \in Seq(0..MaxValues)
      BY <2>3, PartItems, SelectedLists
    <3> QED
      BY <3>1, EmptyList
  <2>4. Written(value, <<>>) = <<>>
    <3>1. <<>> \in Seq(0..MaxValues) /\ ItemSet(<<>>) = {}
      BY DEF ItemSet, Range
    <3> QED
      BY <2>3, <3>1
  <2>5. Listed(x, k) = <<>> /\ FirstText(<<>>) = Null
    BY <1>3, <2>4 DEF Listed, FirstText
  <2> QED
    BY <2>2, <2>5
<1> QED
  BY <1>2, <1>3

LEMMA RuleIsShown ==
  ASSUME NEW c, NEW x, ListsApart(value, x), NEW D, DataTyped(D, value),
         SameBut(value, D.value, ItemsOfKinds(x, AllKinds)), StoredCompany(D.row, x, c),
         \A k \in Defaults \cap Kinds : Placed(D.row, D.value, c, k, x.list[k]) /\ Rising(D.value, x.list[k])
  PROVE  RuleOf(D.row, c) = Shown(x)
<1>1. \A k \in Defaults : FirstOwn(D.row, c, k) = FirstText(Listed(x, k))
  BY FirstTextShown
<1>2. FirstOwn(D.row, c, "number") = FirstText(Listed(x, "number"))
      /\ FirstOwn(D.row, c, "email") = FirstText(Listed(x, "email"))
  BY <1>1 DEF Defaults
<1>3. IF x.company # Null /\ x.company.text # Null
      THEN Own(D.row, c, "company") # {} /\ FirstOwn(D.row, c, "company") = x.company.text
      ELSE Own(D.row, c, "company") = {}
  <2>1. DOMAIN D.row \subseteq Nat
    BY DEF DataTyped, Shaped
  <2> QED
    BY <2>1, CompanyShown
<1> QED
  BY <1>2, <1>3 DEF RuleOf, Shown

\* A is a data state in which the name and the company of struct s were written
\* as those of contact c by an insertion or an update.
NamesWritten(s, c, what, A) ==
  /\ A.value = value /\ A.def = struct[s].def
  /\ SameOthers(row, A.row, c, {"name", "company"})
  /\ StoredCompany(A.row, struct[s], c)
  /\ \A i, j \in Own(A.row, c, "company") : i = j
  /\ Own(A.row, c, "name") # {}
  /\ NameRight(A.row[Min(Own(A.row, c, "name"))], what, Shown(struct[s]))

\* D is one in which the rest was written too, and the contact gets the defaults
\* def.
WellWritten(s, c, what, D, def) ==
  /\ IdsTold(D.value)
  /\ StoredWell(D.row, D.value, struct[s], c, def) /\ StoredCompany(D.row, struct[s], c)
  /\ \A y : y.list = struct[s].list /\ y.def = def => Owed(D.value, y)
  /\ \A t \in Structs : t # s /\ struct[t] # Null =>
       \A k \in Kinds : \A p \in ItemSet(struct[t].list[k]) : D.value[p].id = value[p].id
  /\ OtherRows(row, D.row, c)
  /\ \A i, j \in Own(D.row, c, "company") : i = j
  /\ NamedRight(D.row, c, what)

LEMMA ThroughAtFirst ==
  ASSUME NEW v, NEW A, DataTyped(A, v), A.value = v, IdsTold(v), NEW c, NEW x
  PROVE  Through(v, A.row, A.def, A, c, x, {})
<1>1. SameOthers(A.row, A.row, c, {})
  BY DEF SameOthers
<1>2. SameBut(v, A.value, ItemsOfKinds(x, {}))
  BY DEF SameBut, ItemsOfKinds
<1>3. {} \cap Kinds = {} /\ Defaults \cap {} \cap Kinds = {}
  OBVIOUS
<1> QED
  BY <1>1, <1>2, <1>3 DEF Through

LEMMA StructIsWritten ==
  ASSUME CInv, DInv, NEW s \in Structs, Usable(s), NEW c, NEW what, NEW A, NamesWritten(s, c, what, A),
         \A k \in Defaults \cap Kinds : Ready(A.row, value, c, k, struct[s].list[k]), DataTyped(A, value),
         NEW D, Through(value, A.row, struct[s].def, D, c, struct[s], AllKinds),
         NEW def, def = FirstForDefault(D.value, struct[s], D.def)
  PROVE  WellWritten(s, c, what, D, def)
<1> DEFINE x == struct[s]
<1>1. x # Null /\ x.use # "merged" /\ Told(value, x, row, lastcontact)
  BY DEF Usable, DInv
<1>2. ListsApart(value, x) /\ Owed(value, x)
  BY <1>1, StructListsApart DEF Told
<1>3. /\ A.value = value /\ SameOthers(row, A.row, c, {"name", "company"}) /\ StoredCompany(A.row, x, c)
      /\ \A i, j \in Own(A.row, c, "company") : i = j
      /\ Own(A.row, c, "name") # {} /\ NameRight(A.row[Min(Own(A.row, c, "name"))], what, Shown(x))
  BY DEF NamesWritten
<1>4. Through(value, A.row, x.def, D, c, x, AllKinds) /\ def = FirstForDefault(D.value, x, D.def)
  OBVIOUS
<1>5. StoredWell(D.row, D.value, x, c, def) /\ \A y : y.list = x.list /\ y.def = def => Owed(D.value, y)
  BY <1>2, <1>4, StructStored
<1>6. /\ SameOthers(A.row, D.row, c, AllKinds) /\ SameBut(value, D.value, ItemsOfKinds(x, AllKinds))
      /\ IdsTold(D.value) /\ DataTyped(D, value)
      /\ \A k \in Defaults \cap Kinds : Placed(D.row, D.value, c, k, x.list[k]) /\ Rising(D.value, x.list[k])
  <2>1. Kinds \subseteq AllKinds
    BY ConstantsAssumption DEF AllKinds
  <2> QED
    BY <1>4, <2>1 DEF Through
<1>7. \A t \in Structs : t # s /\ struct[t] # Null =>
        \A k \in Kinds : \A p \in ItemSet(struct[t].list[k]) : D.value[p].id = value[p].id
  <2> SUFFICES ASSUME NEW t \in Structs, t # s, struct[t] # Null, NEW l \in Kinds, NEW p \in ItemSet(struct[t].list[l])
               PROVE  D.value[p].id = value[p].id
    OBVIOUS
  <2>1. \A k \in Kinds : p \notin ItemSet(x.list[k])
    BY <1>1, ItemsApart
  <2>2. p \in Pointers
    BY ItemsAreTaken DEF CInv, Embedded
  <2>3. p \notin ItemsOfKinds(x, AllKinds)
    BY <2>1 DEF ItemsOfKinds
  <2> QED
    BY <1>6, <2>2, <2>3 DEF SameBut
<1> HIDE DEF x
<1>8. OtherRows(row, D.row, c)
  <2>1. SameOthers(row, D.row, c, {"name", "company"} \cup AllKinds)
    BY <1>3, <1>6, OthersChain
  <2> QED
    BY <2>1, OthersKept DEF OtherRows
<1>9. Own(D.row, c, "company") = Own(A.row, c, "company")
      /\ \A i \in Own(A.row, c, "company") : D.row[i] = A.row[i]
  <2>1. "company" \notin AllKinds
    BY DEF AllKinds
  <2> QED
    BY <1>6, <2>1, OthersKept
<1>10. StoredCompany(D.row, x, c)
  <2>1. {D.row[i].text : i \in Own(D.row, c, "company")} = {A.row[i].text : i \in Own(A.row, c, "company")}
    BY <1>9
  <2> QED
    BY <1>3, <2>1 DEF StoredCompany
<1>11. \A i, j \in Own(D.row, c, "company") : i = j
  BY <1>3, <1>9
<1>12. NamedRight(D.row, c, what)
  <2>1. DOMAIN A.row \subseteq Nat
    BY DEF DataTyped, Shaped
  <2>2. Min(Own(A.row, c, "name")) \in Own(A.row, c, "name")
    <3>1. Own(A.row, c, "name") \subseteq Nat
      BY <2>1 DEF Own
    <3> QED
      BY <1>3, <3>1, Smallest
  <2>3. Own(D.row, c, "name") = Own(A.row, c, "name") /\ \A i \in Own(A.row, c, "name") : D.row[i] = A.row[i]
    <3>1. "name" \notin AllKinds
      BY DEF AllKinds
    <3> QED
      BY <1>6, <3>1, OthersKept
  <2>4. RuleOf(D.row, c) = Shown(x)
    BY <1>2, <1>6, <1>10, RuleIsShown
  <2> QED
    BY <1>3, <2>2, <2>3, <2>4 DEF NamedRight
<1> QED
  BY <1>5, <1>6, <1>7, <1>8, <1>10, <1>11, <1>12 DEF WellWritten, x

\* A struct whose contact was written.
Spent(y, x, c, def) ==
  /\ y # Null /\ y.base = c /\ y.list = x.list /\ y.def = def /\ y.company = x.company /\ y.use = "spent"

LEMMA SpentTold ==
  ASSUME NEW s, NEW c, NEW what, NEW D, NEW def, WellWritten(s, c, what, D, def), NEW y, Spent(y, struct[s], c, def),
         NEW q, NEW ld
  PROVE  Told(D.value, y, q, ld)
<1>1. Owed(D.value, y)
  BY DEF WellWritten, Spent
<1> QED
  BY <1>1 DEF Told, Spent

\* The rows are rolled back, and the values keep their ids.
LEMMA RolledBackTold ==
  ASSUME CInv, DInv, NEW s \in Structs, Usable(s), NEW c, NEW what, NEW D, NEW def, WellWritten(s, c, what, D, def),
         NEW y, Spent(y, struct[s], c, def),
         UNCHANGED database, value' = D.value, struct' = [struct EXCEPT ![s] = y]
  PROVE  DInv'
<1>1. row' = row /\ lastcontact' = lastcontact /\ contact' = contact
  BY DEF database
<1>2. \A t \in Structs : struct'[t] = IF t = s THEN y ELSE struct[t]
  BY DEF CInv, Objects
<1>3. ASSUME NEW t \in Structs PROVE Told(value', struct'[t], row, lastcontact)
  <2>1. CASE t = s
    BY <1>2, <2>1, SpentTold
  <2>2. CASE t # s
    <3>1. struct[t] # Null => \A k \in Kinds : \A p \in ItemSet(struct[t].list[k]) : value'[p].id = value[p].id
      BY <2>2 DEF WellWritten
    <3>2. StillTold(value, struct[t], row, value', struct[t], row)
      BY <3>1, StillSame
    <3>3. Told(value, struct[t], row, lastcontact)
      BY DEF DInv
    <3>4. 0 \notin DOMAIN row /\ lastcontact \in Int /\ lastcontact <= lastcontact
      BY RowsArePositive
    <3>5. Told(value', struct[t], row, lastcontact)
      BY ONLY <3>2, <3>3, <3>4, ToldStill
    <3> QED
      BY <1>2, <2>2, <3>5
  <2> QED
    BY <2>1, <2>2
<1>4. IdsTold(value')
  BY DEF WellWritten
<1> QED
  BY <1>1, <1>3, <1>4 DEF DInv

\* They are committed.
LEMMA CommittedTold ==
  ASSUME CInv, DInv, NEW s \in Structs, Usable(s), NEW c, c \in 1..lastcontact', lastcontact' \in Int,
         lastcontact <= lastcontact', NEW what, NEW D, NEW def, WellWritten(s, c, what, D, def),
         row' = D.row, value' = D.value, c \in DOMAIN contact', contact'[c].def = def,
         \A d \in DOMAIN contact' : d = c \/ (d \in DOMAIN contact /\ contact'[d].def = contact[d].def),
         Spent(struct'[s], struct[s], c, def),
         \A t \in Structs : t # s =>
           /\ struct'[t] # struct[t] =>
                struct[t] # Null /\ struct[t].use = "read" /\ struct'[t] = [struct[t] EXCEPT !.use = "spent"]
           /\ struct'[t] = struct[t] => struct[t] = Null \/ struct[t].base # c \/ struct[t].use # "read"
  PROVE  /\ DInv'
         /\ last' = [what |-> what, struct |-> s, ok |-> TRUE] => Stores'
<1>1. /\ IdsTold(value') /\ StoredWell(row', value', struct[s], c, def) /\ StoredCompany(row', struct[s], c)
      /\ \A t \in Structs : t # s /\ struct[t] # Null =>
           \A k \in Kinds : \A p \in ItemSet(struct[t].list[k]) : value'[p].id = value[p].id
      /\ OtherRows(row, row', c)
      /\ \A i, j \in Own(row', c, "company") : i = j
      /\ NamedRight(row', c, what)
  BY DEF WellWritten
<1>2. ASSUME NEW t \in Structs PROVE Told(value', struct'[t], row', lastcontact')
  <2>1. CASE t = s
    BY <2>1, SpentTold
  <2>2. CASE t # s
    <3>1. /\ struct'[t] # struct[t] =>
               struct[t] # Null /\ struct[t].use = "read" /\ struct'[t] = [struct[t] EXCEPT !.use = "spent"]
          /\ struct'[t] = struct[t] => struct[t] = Null \/ struct[t].base # c \/ struct[t].use # "read"
          /\ struct[t] # Null => \A k \in Kinds : \A p \in ItemSet(struct[t].list[k]) : value'[p].id = value[p].id
      BY <1>1, <2>2
    <3>2. c \in Int /\ c # 0
      OBVIOUS
    <3> DEFINE a == struct[t]
               b == struct'[t]
    <3> HIDE DEF a, b
    <3>3. /\ b # a => a # Null /\ a.use = "read" /\ b = [a EXCEPT !.use = "spent"]
          /\ b = a => a = Null \/ a.base # c \/ a.use # "read"
          /\ a # Null => \A k \in Kinds : \A p \in ItemSet(a.list[k]) : value'[p].id = value[p].id
      BY <3>1 DEF a, b
    <3>4. a = struct[t]
      BY DEF a
    <3>5. Told(value', b, row', lastcontact')
      <4> DEFINE w == value'
                 q == row'
                 ld == lastcontact'
      <4> HIDE DEF w, q, ld
      <4>1. a # Null => \A k \in Kinds : \A p \in ItemSet(a.list[k]) : w[p].id = value[p].id
        BY <3>3 DEF w
      <4>2. OtherRows(row, q, c) /\ ld \in Int /\ lastcontact <= ld
        BY <1>1 DEF q, ld
      <4>3. /\ b # a => a # Null /\ a.use = "read" /\ b = [a EXCEPT !.use = "spent"]
            /\ b = a => a = Null \/ a.base # c \/ a.use # "read"
        BY <3>3
      <4>4. Told(w, b, q, ld)
        BY ONLY CInv, DInv, t \in Structs, <3>2, <3>4, <4>1, <4>2, <4>3, StructsOvertaken
      <4> QED
        BY <4>4 DEF w, q, ld
    <3> QED
      BY <3>5 DEF b
  <2> QED
    BY <2>1, <2>2
<1>3. \A k \in Defaults : contact'[c].def[k] # 0 => contact'[c].def[k] \in Own(row', c, k)
  BY <1>1 DEF StoredWell
<1>4. DInv'
  BY <1>1, <1>2, <1>3, ContactTold
<1>5. ASSUME last' = [what |-> what, struct |-> s, ok |-> TRUE] PROVE Stores'
  <2>1. last'.what = what /\ \A t \in Structs : Wrote(t)' => t = s
    BY <1>5 DEF Wrote
  <2>2. struct'[s] # Null /\ struct'[s].base = c /\ struct'[s].list = struct[s].list
        /\ struct'[s].company = struct[s].company
    BY DEF Spent
  <2>3. StoredWell(row', value', struct'[s], c, contact'[c].def)
    BY <1>1, <2>2 DEF StoredWell
  <2>4. StoredCompany(row', struct'[s], c)
    BY <1>1, <2>2 DEF StoredCompany
  <2> QED
    BY <1>1, <2>1, <2>2, <2>3, <2>4 DEF Stores
<1> QED
  BY <1>4, <1>5

-----------------------------------------------------------------------------
(* Insertion.                                                               *)

\* Rows of a name and a company, or of the kinds K of them; the company is that
\* of struct x.
RowsOfNames(new, c, x, K) ==
  /\ Len(new) \in Nat
  /\ \A n \in 1..Len(new) : new[n].contact = c /\ new[n].kind \in K
  /\ \A m, n \in 1..Len(new) : new[m].kind = "company" /\ new[n].kind = "company" => m = n
  /\ {new[n].text : n \in {m \in 1..Len(new) : new[m].kind = "company"}} = CompanyTexts(x)

LEMMA NamesOfCompany ==
  ASSUME NEW c, NEW x, NEW name, name.contact = c, name.kind = "name"
  PROVE  /\ RowsOfNames(CompanyRows(c, x.company), c, x, {"company"})
         /\ RowsOfNames(<<name>> \o CompanyRows(c, x.company), c, x, {"name", "company"})
<1>1. CASE x.company = Null \/ x.company.text = Null
  <2>1. CompanyRows(c, x.company) = <<>> /\ CompanyTexts(x) = {}
    BY <1>1, NoText DEF CompanyRows
  <2>2. Len(<<>>) = 0 /\ 1..0 = {} /\ <<name>> \o <<>> = <<name>> /\ Len(<<name>>) = 1 /\ <<name>>[1] = name
    OBVIOUS
  <2>3. RowsOfNames(<<>>, c, x, {"company"})
    <3>1. {<<>>[n].text : n \in {m \in 1..Len(<<>>) : <<>>[m].kind = "company"}} = {}
      BY <2>2
    <3> QED
      BY <2>1, <2>2, <3>1 DEF RowsOfNames
  <2>4. RowsOfNames(<<name>>, c, x, {"name", "company"})
    <3> DEFINE one == <<name>>
    <3>1. Len(one) = 1 /\ one[1].contact = c /\ one[1].kind = "name"
      BY <2>2
    <3> HIDE DEF one
    <3>2. \A n \in 1..Len(one) : one[n].contact = c /\ one[n].kind = "name"
      BY <3>1
    <3>3. {m \in 1..Len(one) : one[m].kind = "company"} = {}
      BY <3>2
    <3>4. {one[n].text : n \in {m \in 1..Len(one) : one[m].kind = "company"}} = {}
      BY <3>3
    <3>5. RowsOfNames(one, c, x, {"name", "company"})
      BY <2>1, <3>1, <3>2, <3>4 DEF RowsOfNames
    <3> QED
      BY <3>5 DEF one
  <2> QED
    BY <2>1, <2>2, <2>3, <2>4
<1>2. CASE x.company # Null /\ x.company.text # Null
  <2> DEFINE r == Row(c, "company", x.company.text, FALSE, Null)
  <2>1. CompanyRows(c, x.company) = <<r>> /\ CompanyTexts(x) = {x.company.text}
    BY <1>2, OneText, Zenon DEF CompanyRows
  <2>2. r.contact = c /\ r.kind = "company" /\ r.text = x.company.text
    BY DEF Row
  <2> HIDE DEF r
  <2>3. RowsOfNames(<<r>>, c, x, {"company"})
    <3> DEFINE one == <<r>>
    <3>1. Len(one) = 1 /\ one[1] = r
      OBVIOUS
    <3> HIDE DEF one
    <3>2. 1..Len(one) = {1}
      BY <3>1
    <3>3. {m \in 1..Len(one) : one[m].kind = "company"} = {1}
      BY <2>2, <3>1, <3>2
    <3>4. {one[n].text : n \in {m \in 1..Len(one) : one[m].kind = "company"}} = CompanyTexts(x)
      BY <2>1, <2>2, <3>1, <3>3
    <3>5. RowsOfNames(one, c, x, {"company"})
      BY <2>2, <3>1, <3>2, <3>4 DEF RowsOfNames
    <3> QED
      BY <3>5 DEF one
  <2>4. RowsOfNames(<<name>> \o <<r>>, c, x, {"name", "company"})
    <3> DEFINE two == <<name>> \o <<r>>
    <3>1. Len(two) = 2 /\ two[1] = name /\ two[2] = r
      OBVIOUS
    <3> HIDE DEF two
    <3>2. 1..Len(two) = {1, 2}
      BY <3>1
    <3>3. {m \in 1..Len(two) : two[m].kind = "company"} = {2}
      BY <2>2, <3>1, <3>2
    <3>4. {two[n].text : n \in {m \in 1..Len(two) : two[m].kind = "company"}} = CompanyTexts(x)
      BY <2>1, <2>2, <3>1, <3>3
    <3>5. RowsOfNames(two, c, x, {"name", "company"})
      BY <2>2, <3>1, <3>2, <3>4 DEF RowsOfNames
    <3> QED
      BY <3>5 DEF two
  <2> QED
    BY <2>1, <2>3, <2>4
<1> QED
  BY <1>1, <1>2

\* What the rows of the name and the company are after some of them were added.
NamesDone(old, new, x, c, K) ==
  /\ SameOthers(old, new, c, K) /\ StoredCompany(new, x, c)
  /\ \A i, j \in Own(new, c, "company") : i = j

LEMMA NamesAdded ==
  ASSUME NEW D, NEW val, DataTyped(D, val), NEW new, NEW c, NEW x, NEW K, "company" \in K,
         RowsOfNames(new, c, x, K),
         Own(D.row, c, "company") = {}, NEW A, A = Added(D, new)
  PROVE  NamesDone(D.row, A.row, x, c, K)
<1> DEFINE m == D.last
           more == m + 1 .. m + Len(new)
           r == D.row
           q == A.row
           C == {n \in 1..Len(new) : new[n].kind = "company"}
<1>1. /\ Len(new) \in Nat
      /\ \A n \in 1..Len(new) : new[n].contact = c /\ new[n].kind \in K
      /\ \A a, b \in C : a = b
      /\ {new[n].text : n \in C} = CompanyTexts(x)
  BY DEF RowsOfNames
<1>2. /\ DOMAIN q = DOMAIN r \cup more
      /\ \A i \in DOMAIN r : q[i] = r[i] /\ i \notin more
      /\ \A n \in 1..Len(new) : q[m + n] = new[n]
      /\ m \in Nat
  BY <1>1, AddedWhere
<1>3. \A i \in more : i - m \in 1..Len(new) /\ m + (i - m) = i
  BY <1>1, <1>2
<1>4. \A n \in 1..Len(new) : m + n \in more /\ (m + n) - m = n
  BY <1>1, <1>2
<1> HIDE DEF m, r, q, more
<1>5. \A i \in more : q[i] = new[i - m]
  BY <1>2, <1>3
<1>6. \A i \in more : q[i].contact = c /\ q[i].kind \in K
  BY <1>1, <1>3, <1>5
<1>7. SameOthers(r, q, c, K)
  <2>1. \A i : i \in Others(q, c, K) <=> i \in Others(r, c, K)
    BY <1>2, <1>6 DEF Others
  <2>2. \A i \in Others(r, c, K) : q[i] = r[i]
    BY <1>2 DEF Others
  <2> QED
    BY <2>1, <2>2 DEF SameOthers
<1>8. \A i : i \in Own(q, c, "company") <=> i \in more /\ i - m \in C
  <2>1. \A i \in more : i - m \in C <=> q[i].kind = "company"
    BY <1>3, <1>5
  <2>2. \A i \in DOMAIN r : ~(q[i].contact = c /\ q[i].kind = "company")
    <3>1. Own(r, c, "company") = {}
      BY DEF r
    <3> QED
      BY <1>2, <3>1 DEF Own
  <2> QED
    BY <1>2, <1>6, <2>1, <2>2 DEF Own
<1>9. \A i, j \in Own(q, c, "company") : i = j
  <2> SUFFICES ASSUME NEW i \in Own(q, c, "company"), NEW j \in Own(q, c, "company") PROVE i = j
    OBVIOUS
  <2>1. i \in more /\ j \in more /\ i - m \in C /\ j - m \in C
    BY <1>8
  <2>2. i - m = j - m /\ m + (i - m) = i /\ m + (j - m) = j
    BY <1>1, <1>3, <2>1
  <2> QED
    BY <2>2
<1>10. {q[i].text : i \in Own(q, c, "company")} = {new[n].text : n \in C}
  <2>1. ASSUME NEW i \in Own(q, c, "company") PROVE q[i].text \in {new[n].text : n \in C}
    BY <1>5, <1>8
  <2>2. ASSUME NEW n \in C PROVE new[n].text \in {q[i].text : i \in Own(q, c, "company")}
    <3>1. m + n \in more /\ (m + n) - m = n
      BY <1>4
    <3>2. m + n \in Own(q, c, "company")
      BY <1>8, <3>1
    <3>3. q[m + n] = new[n]
      BY <1>5, <3>1
    <3> QED
      BY <3>2, <3>3
  <2> QED
    BY <2>1, <2>2
<1>11. StoredCompany(q, x, c)
  BY <1>1, <1>10 DEF StoredCompany, CompanyTexts
<1> QED
  BY <1>7, <1>9, <1>11 DEF NamesDone, r, q

\* The first of the rows that are added is the first of its kind.
LEMMA FirstAdded ==
  ASSUME NEW D, NEW val, DataTyped(D, val), NEW new, Len(new) \in Nat, 1 <= Len(new), NEW c, NEW k,
         new[1].contact = c, new[1].kind = k, Own(D.row, c, k) = {}, NEW A, A = Added(D, new)
  PROVE  Own(A.row, c, k) # {} /\ A.row[Min(Own(A.row, c, k))] = new[1]
<1> DEFINE j == D.last + 1
           own == Own(A.row, c, k)
<1>1. /\ DOMAIN A.row = DOMAIN D.row \cup (D.last + 1 .. D.last + Len(new))
      /\ \A i \in DOMAIN D.row : A.row[i] = D.row[i]
      /\ A.row[j] = new[1] /\ D.last \in Nat
  BY AddedWhere
<1>2. j \in own
  BY <1>1 DEF Own
<1>3. \A i \in own : i \in D.last + 1 .. D.last + Len(new)
  BY <1>1 DEF Own
<1>4. own \subseteq Int /\ \A i \in own : j <= i
  BY <1>1, <1>3
<1> HIDE DEF j, own
<1>5. Min(own) = j
  BY <1>2, <1>4, MinIs
<1> QED
  BY <1>1, <1>2, <1>5 DEF own

\* cts_insert_contact_handle_no_name.
LEMMA InsertedName ==
  ASSUME NEW x, x.name \in SomeNames, NEW c, NEW n, n = NamedForInsert(x)
  PROVE  NameRight(NameRow(c, n), "insert", Shown(x))
<1> DEFINE r == NameRow(c, n)
           shown == Shown(x)
<1>1. r.display = n.display /\ (n.given => r.text = "given")
  BY DEF NameRow, Row
<1> HIDE DEF r, shown
<1> SUFFICES ASSUME r.text = Null PROVE r.display = shown \/ r.display # Null
  BY DEF NameRight, r, shown
<1>2. ~n.given
  BY <1>1, ConstantsAssumption
<1>3. CASE x.name = Null
  BY <1>1, <1>3 DEF NamedForInsert, shown
<1>4. CASE x.name # Null /\ (x.name.given \/ x.name.display # Null)
  BY <1>1, <1>2, <1>4 DEF NamedForInsert
<1>5. CASE x.name # Null /\ ~(x.name.given \/ x.name.display # Null)
  <2>1. n = [x.name EXCEPT !.display = shown]
    BY <1>5 DEF NamedForInsert, shown
  <2>2. x.name \in RealNames
    BY <1>5 DEF SomeNames
  <2>3. n.display = shown
    BY <2>1, <2>2 DEF RealNames
  <2> QED
    BY <1>1, <2>3
<1> QED
  BY <1>3, <1>4, <1>5

\* A call that was refused or rolled back leaves nothing to compare.
LEMMA StoresNothing ==
  (\E what, s : last' = [what |-> what, struct |-> s, ok |-> FALSE]) \/ last' = [what |-> "edit"] => Stores'
BY DEF Stores, Wrote

\* A read struct that is not s is not one of a contact that is inserted.
LEMMA NoneRead ==
  ASSUME CInv, DInv, NEW t \in Structs
  PROVE  struct[t] = Null \/ struct[t].base # lastcontact + 1 \/ struct[t].use # "read"
<1>1. Told(value, struct[t], row, lastcontact) /\ lastcontact \in Int
  BY RowsArePositive DEF DInv
<1>2. struct[t] # Null /\ struct[t].use = "read" => struct[t].base \in 1..lastcontact
  BY <1>1 DEF Told
<1> QED
  BY <1>1, <1>2

LEMMA ThroughDefault ==
  ASSUME NEW v, NEW r, NEW d, NEW D, NEW c, NEW x, ListsApart(v, x), Through(v, r, d, D, c, x, AllKinds)
  PROVE  FirstForDefault(D.value, x, D.def) \in [Defaults -> 0..MaxRows]
<1>1. /\ D.value \in [Pointers -> {Null} \cup SomeValues] /\ Embedded(D.value) = Embedded(v)
      /\ D.def \in [Defaults -> 0..MaxRows]
  BY DEF Through, DataTyped
<1>2. x \in Contents /\ \A k \in Kinds : Takes(v, x.list[k])
  BY DEF ListsApart
<1>3. \A k \in Kinds : Takes(D.value, x.list[k])
  BY <1>1, <1>2 DEF Takes
<1> QED
  BY <1>1, <1>2, <1>3, FirstDefaultTyped

\* contacts_svc_insert_contact.
LEMMA InsertTold ==
  ASSUME CInv, DInv, NEW s \in Structs, Insert(s)
  PROVE  DInv' /\ Stores'
<1> DEFINE x == struct[s]
           c == lastcontact + 1
           n == NamedForInsert(x)
           D0 == [Data EXCEPT !.def = x.def]
           new == <<NameRow(c, n)>> \o CompanyRows(c, x.company)
           A == Added(D0, new)
           D == InsertLists(A, c, x)
           def == FirstForDefault(D.value, x, D.def)
           y == [x EXCEPT !.base = c, !.name = n, !.def = def, !.use = "spent"]
<1>1. /\ Usable(s) /\ lastcontact < MaxContacts
      /\ D.last <= MaxRows /\ value' = D.value /\ struct' = [struct EXCEPT ![s] = y]
      /\ \/ /\ row' = D.row /\ lastrow' = D.last /\ lastcontact' = c
            /\ \E image \in Copied(x.image) :
                 contact' = [i \in DOMAIN contact \cup {c} |->
                   IF i = c THEN [def |-> def, image |-> image] ELSE contact[i]]
            /\ last' = [what |-> "insert", struct |-> s, ok |-> TRUE]
         \/ UNCHANGED database /\ last' = [what |-> "insert", struct |-> s, ok |-> FALSE]
  <2>1. Usable(s) /\ lastcontact < MaxContacts
    BY DEF Insert
  <2>2. /\ D.last <= MaxRows /\ value' = D.value /\ struct' = [struct EXCEPT ![s] = y]
        /\ \/ /\ row' = D.row /\ lastrow' = D.last /\ lastcontact' = c
              /\ \E image \in Copied(x.image) :
                   contact' = [i \in DOMAIN contact \cup {c} |->
                     IF i = c THEN [def |-> def, image |-> image] ELSE contact[i]]
              /\ Called("insert", s, TRUE)
           \/ UNCHANGED database /\ Called("insert", s, FALSE)
    BY DEF Insert
  <2> HIDE DEF x, c, n, D, def, y
  <2> QED
    BY <2>1, <2>2 DEF Called
<1>2. lastcontact \in Nat /\ c \in 1..MaxContacts /\ MaxContacts \in Nat /\ MaxRows \in Nat
      /\ DOMAIN contact \subseteq 1..lastcontact /\ c = lastcontact + 1
  BY <1>1, ConstantsAssumption DEF CInv, Contacts
<1>3. /\ x \in Contents /\ x.company \in SomeCompanies /\ x.name \in SomeNames /\ x.def \in [Defaults -> 0..MaxRows]
      /\ ListsApart(value, x) /\ x # Null
  BY <1>1, UsableStructs, ContentsFields, StructListsApart DEF Usable
<1>4. DataTyped(D0, value) /\ D0.row = row /\ D0.last = lastrow /\ D0.value = value /\ D0.def = x.def
  BY <1>3, DataAtFirst
<1>5. x = struct[s]
  OBVIOUS
<1> HIDE DEF x, c, D0
<1>6. n \in RealNames
  <2>1. value \in [Pointers -> {Null} \cup SomeValues] /\ \A k \in Kinds : Takes(value, x.list[k])
    BY <1>3 DEF ListsApart, CInv, Objects
  <2> QED
    BY <1>3, <2>1, ShownTyped
<1> HIDE DEF n
<1>7. new \in Seq(DataRows) /\ RowsOfNames(new, c, x, {"name", "company"}) /\ Len(new) \in Nat
  <2>1. NameRow(c, n).contact = c /\ NameRow(c, n).kind = "name"
    BY DEF NameRow, Row
  <2>2. RowsOfNames(new, c, x, {"name", "company"})
    BY <2>1, NamesOfCompany
  <2>3. new \in Seq(DataRows)
    BY <1>2, <1>3, <1>6, WrittenRows
  <2> QED
    BY <2>2, <2>3 DEF RowsOfNames
<1>first. 1 <= Len(new) /\ new[1] = NameRow(c, n) /\ new[1].contact = c /\ new[1].kind = "name"
  <2>1. NameRow(c, n).contact = c /\ NameRow(c, n).kind = "name"
    BY DEF NameRow, Row
  <2> DEFINE name == NameRow(c, n)
             rest == CompanyRows(c, x.company)
             company == Row(c, "company", x.company.text, FALSE, Null)
  <2>2. rest = <<>> \/ rest = <<company>>
    BY DEF CompanyRows
  <2> HIDE DEF name, rest, company
  <2>3. new = <<name>> \o rest
    BY DEF name, rest
  <2>4. 1 <= Len(new) /\ new[1] = name
    BY <2>2, <2>3
  <2> QED
    BY <2>1, <2>4 DEF name
<1> HIDE DEF new
<1>8. DataTyped(A, value) /\ A.value = value /\ A.def = x.def
  <2>1. Shaped(D0)
    BY <1>4 DEF DataTyped
  <2> QED
    BY <1>4, <1>7, <2>1, AddedRows
<1>9. \A k : Own(row, c, k) = {}
  BY <1>2 DEF DInv, RowsKnown, Own
<1>10. NamesDone(row, A.row, x, c, {"name", "company"})
  <2>1. Own(D0.row, c, "company") = {}
    BY <1>4, <1>9
  <2> DEFINE K == {"name", "company"}
  <2>3. "company" \in K /\ RowsOfNames(new, c, x, K)
    BY <1>7
  <2> HIDE DEF K
  <2>2. NamesDone(D0.row, A.row, x, c, K)
    BY <1>4, <2>1, <2>3, NamesAdded
  <2> QED
    BY <1>4, <2>2 DEF K
<1>named. Own(A.row, c, "name") # {} /\ NameRight(A.row[Min(Own(A.row, c, "name"))], "insert", Shown(x))
  <2>1. Own(D0.row, c, "name") = {}
    BY <1>4, <1>9
  <2>2. Own(A.row, c, "name") # {} /\ A.row[Min(Own(A.row, c, "name"))] = NameRow(c, n)
    BY <1>4, <1>7, <1>first, <2>1, FirstAdded
  <2>3. NameRight(NameRow(c, n), "insert", Shown(x))
    BY <1>3, InsertedName DEF n
  <2> QED
    BY <2>2, <2>3
<1> HIDE DEF A
<1>11. NamesWritten(s, c, "insert", A)
  BY <1>5, <1>8, <1>10, <1>named DEF NamesDone, NamesWritten
<1>12. \A l \in Kinds : Own(A.row, c, l) = {}
  <2> SUFFICES ASSUME NEW l \in Kinds PROVE Own(A.row, c, l) = {}
    OBVIOUS
  <2>1. l \notin {"name", "company"}
    BY ConstantsAssumption
  <2>2. SameOthers(row, A.row, c, {"name", "company"})
    BY <1>10 DEF NamesDone
  <2>3. Own(A.row, c, l) = Own(row, c, l)
    BY <2>1, <2>2, OthersKept
  <2> QED
    BY <1>9, <2>3
<1>13. Through(value, A.row, x.def, D, c, x, AllKinds)
  <2>1. Through(value, A.row, A.def, A, c, x, {})
    <3>1. IdsTold(value)
      BY DEF DInv
    <3> QED
      BY <1>8, <3>1, ThroughAtFirst
  <2>2. Through(value, A.row, x.def, A, c, x, {})
    BY <1>8, <2>1
  <2>3. D = InsertLists(A, c, x) /\ D.last <= MaxRows
    BY <1>1
  <2> HIDE DEF D
  <2> QED
    BY ONLY <1>2, <1>3, <1>12, <2>2, <2>3, InsertListsDone
<1> HIDE DEF D
<1>14. def = FirstForDefault(D.value, x, D.def) /\ def \in [Defaults -> 0..MaxRows]
  BY <1>3, <1>13, ThroughDefault
<1> HIDE DEF def
<1>15. WellWritten(s, c, "insert", D, def)
  <2>1. \A k \in Defaults \cap Kinds : Ready(A.row, value, c, k, x.list[k])
    BY <1>12 DEF Ready
  <2> QED
    BY <1>1, <1>5, <1>8, <1>11, <1>13, <1>14, <2>1, StructIsWritten
<1>16. Spent(y, x, c, def)
  <2>1. /\ y.base = c /\ y.list = x.list /\ y.def = def /\ y.company = x.company /\ y.use = "spent"
    BY <1>3 DEF Contents
  <2>2. y # Null
    <3>1. c \in 0..MaxContacts /\ def \in [Defaults -> 0..MaxRows]
      BY <1>2, <1>14
    <3>2. y \in Contents
      BY <1>3, <1>6, <3>1 DEF Contents, RealNames
    <3> QED
      BY <3>2, NullIsNone
  <2> QED
    BY <2>1, <2>2 DEF Spent
<1> HIDE DEF y
<1>17. CASE UNCHANGED database /\ last' = [what |-> "insert", struct |-> s, ok |-> FALSE]
  BY <1>1, <1>5, <1>15, <1>16, <1>17, RolledBackTold, StoresNothing
<1>18. ASSUME row' = D.row, lastcontact' = c, last' = [what |-> "insert", struct |-> s, ok |-> TRUE],
              NEW image,
              contact' = [i \in DOMAIN contact \cup {c} |->
                IF i = c THEN [def |-> def, image |-> image] ELSE contact[i]]
       PROVE  DInv' /\ Stores'
  <2>1. /\ c \in 1..lastcontact' /\ lastcontact' \in Int /\ lastcontact <= lastcontact'
    BY <1>2, <1>18
  <2>2. c \in DOMAIN contact' /\ contact'[c].def = def
    BY <1>18
  <2>3. \A d \in DOMAIN contact' : d = c \/ (d \in DOMAIN contact /\ contact'[d].def = contact[d].def)
    BY <1>18
  <2>4. \A t \in Structs : struct'[t] = IF t = s THEN y ELSE struct[t]
    BY <1>1 DEF CInv, Objects
  <2>5. Spent(struct'[s], struct[s], c, def)
    BY <1>5, <1>16, <2>4
  <2>6. \A t \in Structs : t # s =>
          /\ struct'[t] # struct[t] =>
               struct[t] # Null /\ struct[t].use = "read" /\ struct'[t] = [struct[t] EXCEPT !.use = "spent"]
          /\ struct'[t] = struct[t] => struct[t] = Null \/ struct[t].base # c \/ struct[t].use # "read"
    BY <1>2, <2>4, NoneRead
  <2>7. Usable(s) /\ row' = D.row /\ value' = D.value
    BY <1>1, <1>18
  <2>8. DInv' /\ (last' = [what |-> "insert", struct |-> s, ok |-> TRUE] => Stores')
    BY ONLY CInv, DInv, s \in Structs, <1>15, <2>1, <2>2, <2>3, <2>5, <2>6, <2>7, CommittedTold
  <2> QED
    BY <1>18, <2>8
<1> QED
  BY <1>1, <1>17, <1>18

-----------------------------------------------------------------------------
(* Update.                                                                  *)

\* A row of contact c keeps its contact and its kind.
LEMMA RowReplaced ==
  ASSUME NEW rows, NEW c, NEW k, NEW i \in Own(rows, c, k), NEW K, k \in K, NEW r, r.contact = c, r.kind = k,
         NEW q, DOMAIN q = DOMAIN rows, \A j \in DOMAIN rows : q[j] = IF j = i THEN r ELSE rows[j]
  PROVE  SameOthers(rows, q, c, K) /\ \A l : Own(q, c, l) = Own(rows, c, l)
<1>1. i \in DOMAIN rows /\ rows[i].contact = c /\ rows[i].kind = k
  BY DEF Own
<1>2. \A j \in DOMAIN rows : q[j].contact = rows[j].contact /\ q[j].kind = rows[j].kind
  BY <1>1
<1>3. \A j : j \in Others(q, c, K) <=> j \in Others(rows, c, K)
  BY <1>2 DEF Others
<1>4. i \notin Others(rows, c, K)
  BY <1>1 DEF Others
<1>5. \A j \in Others(rows, c, K) : q[j] = rows[j]
  BY <1>4 DEF Others
<1>6. \A l : Own(q, c, l) = Own(rows, c, l)
  BY <1>2 DEF Own
<1> QED
  BY <1>3, <1>5, <1>6 DEF SameOthers

LEMMA NameUpdated ==
  ASSUME NEW D, NEW val, DataTyped(D, val), NEW n, NEW c, n.id \in Own(D.row, c, "name") \cup {0},
         NEW E, E = UpdateName(D, n)
  PROVE  /\ SameOthers(D.row, E.row, c, {"name", "company"}) /\ \A l : Own(E.row, c, l) = Own(D.row, c, l)
         /\ E.value = D.value /\ E.def = D.def
         /\ n.id # 0 => E.row[n.id] = IF n.changed THEN NameRow(c, n) ELSE D.row[n.id]
<1>1. Shaped(D) /\ DOMAIN D.row \subseteq 1..D.last /\ D.last \in Nat /\ D.row \in [DOMAIN D.row -> DataRows]
  BY DEF DataTyped, Shaped
<1>2. CASE n.changed /\ n.id \in DOMAIN D.row
  <2> DEFINE r == NameRow(D.row[n.id].contact, n)
             rows == [D.row EXCEPT ![n.id] = r]
             B == [row |-> rows, last |-> D.last, value |-> D.value, def |-> D.def]
  <2>1. E = [D EXCEPT !.row = rows]
    BY <1>2 DEF UpdateName
  <2>2. n.id \in Own(D.row, c, "name")
    BY <1>1, <1>2
  <2>3. r.contact = c /\ r.kind = "name" /\ r = NameRow(c, n)
    BY <2>2 DEF NameRow, Row, Own
  <2> HIDE DEF r
  <2>4. DOMAIN rows = DOMAIN D.row /\ \A j \in DOMAIN D.row : rows[j] = IF j = n.id THEN r ELSE D.row[j]
    BY <1>1
  <2>5. rows[n.id] = NameRow(c, n)
    BY <1>2, <2>3, <2>4
  <2> HIDE DEF rows
  <2>6. SameOthers(D.row, rows, c, {"name", "company"}) /\ \A l : Own(rows, c, l) = Own(D.row, c, l)
    <3> DEFINE names == {"name", "company"}
               id == n.id
    <3>1. id \in Own(D.row, c, "name") /\ "name" \in names
      BY <2>2
    <3>2. \A j \in DOMAIN D.row : rows[j] = IF j = id THEN r ELSE D.row[j]
      BY <2>4
    <3> HIDE DEF names, id
    <3>3. SameOthers(D.row, rows, c, names) /\ \A l : Own(rows, c, l) = Own(D.row, c, l)
      BY <2>3, <2>4, <3>1, <3>2, RowReplaced
    <3> QED
      BY <3>3 DEF names
  <2>7. E = B
    BY <1>1, <2>1, DataChanged
  <2>8. B.row = rows /\ B.value = D.value /\ B.def = D.def
    OBVIOUS
  <2> HIDE DEF B
  <2> QED
    BY <1>2, <2>6, <2>7, <2>8, <2>5
<1>3. CASE ~(n.changed /\ n.id \in DOMAIN D.row)
  <2>1. E = D
    BY <1>3 DEF UpdateName
  <2>2. n.id # 0 => ~n.changed
    BY <1>3 DEF Own
  <2> QED
    BY <2>1, <2>2 DEF SameOthers
<1> QED
  BY <1>2, <1>3

LEMMA CompanyUpdated ==
  ASSUME NEW D, NEW val, DataTyped(D, val), NEW c, NEW x, CompanyId(x) \in Own(D.row, c, "company") \cup {0},
         Own(D.row, c, "company") \subseteq {CompanyId(x)}, NEW E, E = UpdateCompany(D, c, x.company)
  PROVE  NamesDone(D.row, E.row, x, c, {"company"}) /\ E.value = D.value /\ E.def = D.def
<1> DEFINE names == {"company"}
           own == Own(D.row, c, "company")
           id == x.company.id
<1>1. Shaped(D) /\ DOMAIN D.row \subseteq 1..D.last /\ D.last \in Nat /\ D.row \in [DOMAIN D.row -> DataRows]
  BY DEF DataTyped, Shaped
<1>2. 0 \notin own
  BY <1>1 DEF Own
<1>3. CASE x.company = Null
  <2>1. E = D /\ CompanyId(x) = 0 /\ CompanyTexts(x) = {}
    BY <1>3, NoText DEF UpdateCompany, CompanyId
  <2>2. own = {}
    BY <1>2, <2>1
  <2>3. StoredCompany(D.row, x, c)
    <3>1. {D.row[i].text : i \in own} = {}
      BY <2>2
    <3> QED
      BY <2>1, <3>1 DEF StoredCompany, CompanyTexts
  <2>4. SameOthers(D.row, D.row, c, names)
    BY DEF SameOthers
  <2> QED
    BY <2>1, <2>2, <2>3, <2>4 DEF NamesDone
<1>4. CASE x.company # Null /\ id = 0
  <2> DEFINE new == CompanyRows(c, x.company)
  <2>1. E = Added(D, new) /\ CompanyId(x) = 0
    BY <1>4 DEF UpdateCompany, CompanyId
  <2>2. own = {}
    BY <1>2, <2>1
  <2>3. RowsOfNames(new, c, x, {"company"}) /\ Len(new) \in Nat
    <3> DEFINE name == Row(c, "name", Null, FALSE, Null)
    <3>1. name.contact = c /\ name.kind = "name"
      BY DEF Row
    <3> HIDE DEF name
    <3>2. RowsOfNames(new, c, x, {"company"})
      BY <3>1, NamesOfCompany
    <3> QED
      BY <3>2 DEF RowsOfNames
  <2> HIDE DEF new
  <2>4. NamesDone(D.row, E.row, x, c, {"company"})
    <3> HIDE DEF names
    <3>1. RowsOfNames(new, c, x, names) /\ "company" \in names
      BY <2>3 DEF names
    <3>2. NamesDone(D.row, E.row, x, c, names)
      BY <2>1, <2>2, <3>1, NamesAdded
    <3> QED
      BY <3>2 DEF names
  <2>5. Added(D, new).value = D.value /\ Added(D, new).def = D.def
    <3>1. Shaped(D) /\ Len(new) \in Nat
      BY <1>1, <2>3
    <3> QED
      BY ONLY <3>1, AddedRows
  <2> QED
    BY <2>1, <2>4, <2>5
<1>5. ASSUME NEW rows, E = [D EXCEPT !.row = rows], NamesDone(D.row, rows, x, c, {"company"})
      PROVE  NamesDone(D.row, E.row, x, c, {"company"}) /\ E.value = D.value /\ E.def = D.def
  <2> DEFINE B == [row |-> rows, last |-> D.last, value |-> D.value, def |-> D.def]
  <2>1. E = B
    BY <1>1, <1>5, DataChanged
  <2>2. B.row = rows /\ B.value = D.value /\ B.def = D.def
    OBVIOUS
  <2> HIDE DEF B
  <2> QED
    BY <1>5, <2>1, <2>2
<1>6. ASSUME x.company # Null, id # 0
      PROVE  own = {id} /\ id \in DOMAIN D.row /\ D.row[id].contact = c /\ D.row[id].kind = "company"
  <2>1. CompanyId(x) = id
    BY <1>6 DEF CompanyId
  <2> QED
    BY <1>6, <2>1 DEF Own
<1>7. CASE x.company # Null /\ id # 0 /\ x.company.text = Null
  <2> DEFINE rows == Restrict(D.row, DOMAIN D.row \ {id})
  <2>1. E = [D EXCEPT !.row = rows] /\ CompanyTexts(x) = {}
    BY <1>7, NoText DEF UpdateCompany
  <2>2. DOMAIN rows = DOMAIN D.row \ {id} /\ \A j \in DOMAIN rows : rows[j] = D.row[j]
    BY DEF Restrict
  <2> HIDE DEF rows
  <2>3. id \notin Others(D.row, c, names)
    BY <1>6, <1>7 DEF Others
  <2>4. SameOthers(D.row, rows, c, names)
    <3>1. \A j : j \in Others(rows, c, names) <=> j \in Others(D.row, c, names)
      BY <2>2, <2>3 DEF Others
    <3>2. \A j \in Others(D.row, c, names) : rows[j] = D.row[j]
      BY <2>2, <2>3 DEF Others
    <3> QED
      BY <3>1, <3>2 DEF SameOthers
  <2>5. Own(rows, c, "company") = {}
    <3>1. \A j \in Own(rows, c, "company") : j \in own /\ j # id
      BY <2>2 DEF Own
    <3> QED
      BY <1>6, <1>7, <3>1
  <2>6. StoredCompany(rows, x, c)
    <3>1. {rows[i].text : i \in Own(rows, c, "company")} = {}
      BY <2>5
    <3> QED
      BY <2>1, <3>1 DEF StoredCompany, CompanyTexts
  <2>7. NamesDone(D.row, rows, x, c, {"company"})
    BY <2>4, <2>5, <2>6 DEF NamesDone
  <2> QED
    BY <1>5, <2>1, <2>7
<1>8. CASE x.company # Null /\ id # 0 /\ x.company.text # Null
  <2> DEFINE r == [D.row[id] EXCEPT !.text = x.company.text]
             rows == [D.row EXCEPT ![id] = r]
  <2>1. E = [D EXCEPT !.row = rows]
    BY <1>6, <1>8 DEF UpdateCompany
  <2>2. CompanyTexts(x) = {x.company.text}
    BY <1>8, OneText
  <2>3. r.contact = c /\ r.kind = "company" /\ r.text = x.company.text
    <3>1. D.row[id] \in DataRows
      BY <1>1, <1>6, <1>8
    <3> QED
      BY <1>6, <1>8, <3>1 DEF DataRows
  <2> HIDE DEF r
  <2>4. DOMAIN rows = DOMAIN D.row /\ \A j \in DOMAIN D.row : rows[j] = IF j = id THEN r ELSE D.row[j]
    BY <1>1
  <2> HIDE DEF rows
  <2>5. SameOthers(D.row, rows, c, names) /\ \A l : Own(rows, c, l) = Own(D.row, c, l)
    <3>1. id \in Own(D.row, c, "company") /\ "company" \in names
      BY <1>6, <1>8
    <3> HIDE DEF names, id
    <3> QED
      BY <2>3, <2>4, <3>1, RowReplaced
  <2>6. Own(rows, c, "company") = {id} /\ rows[id] = r
    BY <1>6, <1>8, <2>4, <2>5
  <2>7. StoredCompany(rows, x, c)
    <3>1. {rows[i].text : i \in Own(rows, c, "company")} = {x.company.text}
      BY <2>3, <2>6
    <3> QED
      BY <2>2, <3>1 DEF StoredCompany, CompanyTexts
  <2>8. NamesDone(D.row, rows, x, c, {"company"})
    BY <2>5, <2>6, <2>7 DEF NamesDone
  <2> QED
    BY <1>5, <2>1, <2>8
<1> QED
  BY <1>3, <1>4, <1>7, <1>8

\* The name and the company of a struct that matches its contact are updated.
LEMMA NamesUpdated ==
  ASSUME NEW D, NEW val, DataTyped(D, val), NEW c \in 1..MaxContacts, NEW x, NEW n \in RealNames,
         n.id = NameId(x), x.company \in SomeCompanies,
         NameId(x) \in Own(D.row, c, "name") \cup {0},
         CompanyId(x) \in Own(D.row, c, "company") \cup {0}, Own(D.row, c, "company") \subseteq {CompanyId(x)},
         NEW B, B = UpdateName(D, n), NEW A, A = UpdateCompany(B, c, x.company)
  PROVE  /\ DataTyped(A, val) /\ NamesDone(D.row, A.row, x, c, {"name", "company"})
         /\ A.value = D.value /\ A.def = D.def /\ Own(A.row, c, "name") = Own(D.row, c, "name")
         /\ n.id # 0 => A.row[n.id] = IF n.changed THEN NameRow(c, n) ELSE D.row[n.id]
<1> DEFINE names == {"name", "company"}
<1>1. DataTyped(B, val)
  BY UpdateNameTyped
<1>2. /\ SameOthers(D.row, B.row, c, names) /\ (\A l : Own(B.row, c, l) = Own(D.row, c, l))
      /\ B.value = D.value /\ B.def = D.def
      /\ n.id # 0 => B.row[n.id] = IF n.changed THEN NameRow(c, n) ELSE D.row[n.id]
  BY NameUpdated
<1>3. DataTyped(A, val)
  BY <1>1, UpdateCompanyTyped
<1>4. NamesDone(B.row, A.row, x, c, {"company"}) /\ A.value = B.value /\ A.def = B.def
  <2>1. CompanyId(x) \in Own(B.row, c, "company") \cup {0} /\ Own(B.row, c, "company") \subseteq {CompanyId(x)}
    BY <1>2
  <2> QED
    BY <1>1, <2>1, CompanyUpdated
<1>5. SameOthers(D.row, A.row, c, names)
  <2> DEFINE one == {"company"}
  <2>1. SameOthers(B.row, A.row, c, one) /\ names \cup one = names
    BY <1>4 DEF NamesDone
  <2> HIDE DEF names, one
  <2>2. SameOthers(D.row, A.row, c, names \cup one)
    BY <1>2, <2>1, OthersChain
  <2> QED
    BY <2>1, <2>2
<1>6. /\ Own(A.row, c, "name") = Own(D.row, c, "name")
      /\ n.id # 0 => A.row[n.id] = IF n.changed THEN NameRow(c, n) ELSE D.row[n.id]
  <2>1. SameOthers(B.row, A.row, c, {"company"}) /\ "name" \notin {"company"}
    BY <1>4 DEF NamesDone
  <2>2. Own(A.row, c, "name") = Own(B.row, c, "name") /\ \A i \in Own(B.row, c, "name") : A.row[i] = B.row[i]
    BY <2>1, OthersKept
  <2>3. n.id # 0 => n.id \in Own(B.row, c, "name")
    BY <1>2
  <2> QED
    BY <1>2, <2>2, <2>3
<1> QED
  BY <1>2, <1>3, <1>4, <1>5, <1>6 DEF NamesDone

LEMMA NameIdKept ==
  ASSUME NEW x, x.name \in SomeNames
  PROVE  NamedForUpdate(x).id = NameId(x)
<1>1. CASE x.name = Null
  BY <1>1 DEF NamedForUpdate, NameId
<1>2. CASE x.name # Null
  <2>1. x.name \in RealNames
    BY <1>2 DEF SomeNames
  <2>2. \A t : [x.name EXCEPT !.display = t, !.changed = TRUE].id = x.name.id
    BY <2>1 DEF RealNames
  <2> QED
    BY <1>2, <2>2 DEF NamedForUpdate, NameId
<1> QED
  BY <1>1, <1>2

\* cts_update_contact_handle_no_name.
LEMMA UpdatedName ==
  ASSUME NEW x, x.name \in SomeNames, NEW c, NEW n, n = NamedForUpdate(x), n.changed => x.name # Null,
         NEW old, x.name # Null /\ ~x.name.changed /\ x.name.given => old.text # Null,
         NEW r, r = IF n.changed THEN NameRow(c, n) ELSE old
  PROVE  NameRight(r, "update", Shown(x))
<1> DEFINE q == NameRow(c, n)
           shown == Shown(x)
<1>1. q.display = n.display /\ (n.given => q.text = "given")
  BY DEF NameRow, Row
<1>2. r = IF n.changed THEN q ELSE old
  OBVIOUS
<1> HIDE DEF q, shown
<1> SUFFICES ASSUME r.text = Null PROVE r.display = shown
  BY DEF NameRight, shown
<1>3. x.name # Null
  BY DEF NamedForUpdate
<1>4. CASE x.name.given
  <2>1. n = x.name
    BY <1>3, <1>4 DEF NamedForUpdate
  <2> QED
    BY <1>1, <1>2, <1>3, <1>4, <2>1, ConstantsAssumption
<1>5. CASE ~x.name.given
  <2>1. n = [x.name EXCEPT !.display = shown, !.changed = TRUE]
    BY <1>3, <1>5 DEF NamedForUpdate, shown
  <2>2. x.name \in RealNames
    BY <1>3 DEF SomeNames
  <2>3. n.display = shown /\ n.changed
    BY <2>1, <2>2 DEF RealNames
  <2> QED
    BY <1>1, <1>2, <2>3
<1> QED
  BY <1>4, <1>5

\* contacts_svc_update_contact.
LEMMA UpdateTold ==
  ASSUME Habits = {}, CInv, DInv, NEW s \in Structs, Update(s)
  PROVE  DInv' /\ Stores'
<1> DEFINE x == struct[s]
           c == x.base
           n == NamedForUpdate(x)
           D0 == [Data EXCEPT !.def = x.def]
           B == UpdateName(D0, n)
           A == UpdateCompany(B, c, x.company)
           D == UpdateLists(A, c, x)
           def == FirstForDefault(D.value, x, D.def)
           y == [x EXCEPT !.name = n, !.def = def, !.use = "spent"]
           written == [struct EXCEPT ![s] = y]
<1>1. /\ Usable(s) /\ c \in DOMAIN contact /\ x.use = "read" /\ (n.changed => n.id # 0)
      /\ D.last <= MaxRows /\ value' = D.value
      /\ \/ /\ struct' = Overtaken(written, s, c)
            /\ row' = D.row /\ lastrow' = D.last /\ UNCHANGED lastcontact
            /\ \E image \in Copied(ImagesBound(x, contact[c].image)) :
                 contact' = [contact EXCEPT ![c] = [def |-> def, image |-> image]]
            /\ last' = [what |-> "update", struct |-> s, ok |-> TRUE]
         \/ struct' = written /\ UNCHANGED database /\ last' = [what |-> "update", struct |-> s, ok |-> FALSE]
  <2>1. Usable(s) /\ c \in DOMAIN contact /\ x.use = "read"
    BY DEF Update
  <2>2. /\ n.changed => n.id # 0
        /\ D.last <= MaxRows /\ value' = D.value
        /\ \/ /\ struct' = Overtaken(written, s, c)
              /\ row' = D.row /\ lastrow' = D.last /\ UNCHANGED lastcontact
              /\ \E image \in Copied(ImagesBound(x, contact[c].image)) :
                   contact' = [contact EXCEPT ![c] = [def |-> def, image |-> image]]
              /\ Called("update", s, TRUE)
           \/ struct' = written /\ UNCHANGED database /\ Called("update", s, FALSE)
    BY DEF Update
  <2> HIDE DEF x, c, n, D, def, written
  <2> QED
    BY <2>1, <2>2 DEF Called
<1>2. lastcontact \in Nat /\ c \in 1..MaxContacts /\ c \in 1..lastcontact /\ contact \in [DOMAIN contact -> ContactRows]
  <2>1. lastcontact \in 0..MaxContacts /\ MaxContacts \in Nat /\ DOMAIN contact \subseteq 1..lastcontact
        /\ contact \in [DOMAIN contact -> ContactRows]
    BY ConstantsAssumption DEF CInv, Contacts
  <2>2. c \in 1..lastcontact
    BY <1>1, <2>1
  <2> HIDE DEF c
  <2> QED
    BY <2>1, <2>2
<1>3. /\ x \in Contents /\ x.company \in SomeCompanies /\ x.def \in [Defaults -> 0..MaxRows]
      /\ ListsApart(value, x) /\ x # Null /\ x.name \in SomeNames
  BY <1>1, UsableStructs, ContentsFields, StructListsApart DEF Usable
<1>4. DataTyped(D0, value) /\ D0.row = row /\ D0.last = lastrow /\ D0.value = value /\ D0.def = x.def
  BY <1>3, DataAtFirst
<1>5. x = struct[s] /\ c = x.base
  OBVIOUS
<1>6. Known(value, x, row)
  <2>1. Told(value, x, row, lastcontact)
    BY DEF DInv
  <2> QED
    BY <1>1, <1>3, <2>1 DEF Told
<1> HIDE DEF x, D0
<1>7. n \in RealNames /\ n.id = NameId(x)
  <2>1. value \in [Pointers -> {Null} \cup SomeValues] /\ \A k \in Kinds : Takes(value, x.list[k])
    BY <1>3 DEF ListsApart, CInv, Objects
  <2> QED
    BY <1>3, <2>1, ShownTyped, NameIdKept
<1> HIDE DEF n, c
<1>8. /\ DataTyped(A, value) /\ A.value = value /\ A.def = x.def /\ NamesDone(row, A.row, x, c, {"name", "company"})
      /\ Own(A.row, c, "name") = Own(row, c, "name")
      /\ n.id # 0 => A.row[n.id] = IF n.changed THEN NameRow(c, n) ELSE row[n.id]
  <2>1. /\ NameId(x) \in Own(D0.row, c, "name") \cup {0}
        /\ CompanyId(x) \in Own(D0.row, c, "company") \cup {0}
        /\ Own(D0.row, c, "company") \subseteq {CompanyId(x)}
    BY <1>4, <1>5, <1>6 DEF Known
  <2>2. /\ DataTyped(A, value) /\ NamesDone(D0.row, A.row, x, c, {"name", "company"})
        /\ A.value = D0.value /\ A.def = D0.def /\ Own(A.row, c, "name") = Own(D0.row, c, "name")
        /\ n.id # 0 => A.row[n.id] = IF n.changed THEN NameRow(c, n) ELSE D0.row[n.id]
    BY <1>2, <1>3, <1>4, <1>7, <2>1, NamesUpdated
  <2> QED
    BY <1>4, <2>2
<1> HIDE DEF A, B
<1>named. Own(A.row, c, "name") # {} /\ NameRight(A.row[Min(Own(A.row, c, "name"))], "update", Shown(x))
  <2> DEFINE own == Own(row, c, "name")
  <2>1. NameKnown(x.name, row, own) /\ NameId(x) \in own \cup {0}
    BY <1>5, <1>6 DEF Known
  <2>2. x.name # Null /\ x.name.id = n.id /\ n.id # 0
    <3>1. CASE x.name = Null
      BY <1>1, <1>7, <3>1 DEF n, NamedForUpdate, NameId
    <3>2. CASE x.name # Null
      <4>1. x.name.id = n.id
        BY <1>7, <3>2 DEF NameId
      <4>2. n.id = 0 => x.name.changed
        BY <2>1, <3>2, <4>1 DEF NameKnown
      <4>3. x.name.changed => n.changed
        <5>1. x.name \in RealNames
          BY <1>3, <3>2 DEF SomeNames
        <5>2. \A t : [x.name EXCEPT !.display = t, !.changed = TRUE].changed
          BY <5>1 DEF RealNames
        <5> QED
          BY <3>2, <5>2 DEF n, NamedForUpdate
      <4> QED
        BY <1>1, <3>2, <4>1, <4>2, <4>3
    <3> QED
      BY <3>1, <3>2
  <2>3. n.id \in own /\ \A i \in own : n.id <= i
    BY <1>7, <2>1, <2>2 DEF NameKnown
  <2>4. own \subseteq Int
    BY <1>4 DEF Own, DataTyped, Shaped
  <2> HIDE DEF own
  <2>5. Min(own) = n.id /\ own # {}
    BY <2>3, <2>4, MinIs
  <2> DEFINE r == A.row[n.id]
  <2>6. r = IF n.changed THEN NameRow(c, n) ELSE row[n.id]
    BY <1>8, <2>2
  <2>7. x.name # Null /\ ~x.name.changed /\ x.name.given => row[n.id].text # Null
    BY <2>1, <2>2 DEF NameKnown
  <2>8. NameRight(r, "update", Shown(x))
    <3> HIDE DEF r
    <3>1. n = NamedForUpdate(x)
      BY DEF n
    <3> QED
      BY ONLY <1>3, <2>2, <2>6, <2>7, <3>1, UpdatedName
  <2> QED
    BY <1>8, <2>5, <2>8 DEF own
<1>9. NamesWritten(s, c, "update", A)
  BY <1>5, <1>8, <1>named DEF NamesDone, NamesWritten
<1>10. \A l \in Kinds : Fits(value, x.list[l], Own(A.row, c, l))
  <2> SUFFICES ASSUME NEW l \in Kinds PROVE Fits(value, x.list[l], Own(A.row, c, l))
    OBVIOUS
  <2>1. l \notin {"name", "company"}
    BY ConstantsAssumption
  <2>2. SameOthers(row, A.row, c, {"name", "company"})
    BY <1>8 DEF NamesDone
  <2>3. Own(A.row, c, l) = Own(row, c, l)
    BY <2>1, <2>2, OthersKept
  <2> QED
    BY <1>5, <1>6, <2>3 DEF Known
<1>11. Through(value, A.row, x.def, D, c, x, AllKinds)
  <2>1. Through(value, A.row, A.def, A, c, x, {})
    <3>1. IdsTold(value)
      BY DEF DInv
    <3> QED
      BY <1>8, <3>1, ThroughAtFirst
  <2>2. Through(value, A.row, x.def, A, c, x, {})
    BY <1>8, <2>1
  <2>3. D = UpdateLists(A, c, x) /\ D.last <= MaxRows
    BY <1>1
  <2> HIDE DEF D
  <2> QED
    BY ONLY <1>2, <1>3, <1>10, <2>2, <2>3, UpdateListsDone
<1> HIDE DEF D
<1>12. def = FirstForDefault(D.value, x, D.def) /\ def \in [Defaults -> 0..MaxRows]
  BY <1>3, <1>11, ThroughDefault
<1> HIDE DEF def
<1>13. WellWritten(s, c, "update", D, def)
  <2>1. \A k \in Defaults \cap Kinds : Ready(A.row, value, c, k, x.list[k])
    BY <1>6 DEF Known, Ready
  <2> QED
    BY <1>1, <1>5, <1>8, <1>9, <1>11, <1>12, <2>1, StructIsWritten
<1>14. Spent(y, x, c, def)
  <2>1. /\ y.base = c /\ y.list = x.list /\ y.def = def /\ y.company = x.company /\ y.use = "spent"
    BY <1>3, <1>5 DEF Contents
  <2>2. y \in Contents
    BY <1>3, <1>7, <1>12 DEF Contents, RealNames
  <2> QED
    BY <2>1, <2>2, NullIsNone DEF Spent
<1> HIDE DEF y
<1>15. \A t \in Structs : written[t] = IF t = s THEN y ELSE struct[t]
  BY DEF CInv, Objects
<1>16. CASE struct' = written /\ UNCHANGED database /\ last' = [what |-> "update", struct |-> s, ok |-> FALSE]
  BY <1>1, <1>5, <1>13, <1>14, <1>16, RolledBackTold, StoresNothing
<1> HIDE DEF written
<1>17. ASSUME struct' = Overtaken(written, s, c), row' = D.row, UNCHANGED lastcontact, NEW image,
              contact' = [contact EXCEPT ![c] = [def |-> def, image |-> image]],
              last' = [what |-> "update", struct |-> s, ok |-> TRUE]
       PROVE  DInv' /\ Stores'
  <2>1. c \in 1..lastcontact' /\ lastcontact' \in Int /\ lastcontact <= lastcontact'
    BY <1>2, <1>17
  <2>2. c \in DOMAIN contact' /\ contact'[c].def = def
    BY <1>1, <1>17
  <2>3. \A d \in DOMAIN contact' : d = c \/ (d \in DOMAIN contact /\ contact'[d].def = contact[d].def)
    BY <1>17
  <2>4. ASSUME NEW t \in Structs
        PROVE  struct'[t] = IF t # s /\ written[t] # Null /\ written[t].base = c /\ written[t].use = "read"
                            THEN [written[t] EXCEPT !.use = "spent"] ELSE written[t]
    BY <1>17 DEF Overtaken
  <2>5. Spent(struct'[s], struct[s], c, def)
    <3>1. struct'[s] = y
      BY <1>15, <2>4
    <3> QED
      BY <1>5, <1>14, <3>1
  <2>6. \A t \in Structs : t # s =>
          /\ struct'[t] # struct[t] =>
               struct[t] # Null /\ struct[t].use = "read" /\ struct'[t] = [struct[t] EXCEPT !.use = "spent"]
          /\ struct'[t] = struct[t] => struct[t] = Null \/ struct[t].base # c \/ struct[t].use # "read"
    <3> SUFFICES ASSUME NEW t \in Structs, t # s
                 PROVE  /\ struct'[t] # struct[t] =>
                             struct[t] # Null /\ struct[t].use = "read" /\ struct'[t] = [struct[t] EXCEPT !.use = "spent"]
                        /\ struct'[t] = struct[t] => struct[t] = Null \/ struct[t].base # c \/ struct[t].use # "read"
      OBVIOUS
    <3> DEFINE a == struct[t]
               b == struct'[t]
    <3>1. b = IF a # Null /\ a.base = c /\ a.use = "read" THEN [a EXCEPT !.use = "spent"] ELSE a
      BY <1>15, <2>4
    <3>2. a \in {Null} \cup Contents
      BY DEF CInv, Objects
    <3> HIDE DEF a, b
    <3>3. a # Null /\ a.use = "read" => a # [a EXCEPT !.use = "spent"]
      BY <3>2 DEF Contents
    <3>4. /\ b # a => a # Null /\ a.use = "read" /\ b = [a EXCEPT !.use = "spent"]
          /\ b = a => a = Null \/ a.base # c \/ a.use # "read"
      BY <3>1, <3>3
    <3> QED
      BY <3>4 DEF a, b
  <2>7. Usable(s) /\ row' = D.row /\ value' = D.value
    BY <1>1, <1>17
  <2>8. DInv' /\ (last' = [what |-> "update", struct |-> s, ok |-> TRUE] => Stores')
    BY ONLY CInv, DInv, s \in Structs, <1>13, <2>1, <2>2, <2>3, <2>5, <2>6, <2>7, CommittedTold
  <2> QED
    BY <1>17, <2>8
<1> QED
  BY <1>1, <1>16, <1>17

-----------------------------------------------------------------------------
(* The invariant.                                                           *)

LEMMA EInvInit == Init => EInv
<1> SUFFICES ASSUME Init PROVE EInv
  OBVIOUS
<1>1. value = [p \in Pointers |-> Null] /\ struct = [s \in Structs |-> Null] /\ last = [what |-> "edit"]
  BY DEF Init
<1>2. PICK found \in Stored : /\ row = found.row /\ contact = found.contact
                              /\ lastrow = Len(found.row) /\ lastcontact = Len(found.contact)
  BY DEF Init
<1>3. /\ \E n \in 0..MaxContacts : contact \in [1..n -> ContactRows]
      /\ \A i \in DOMAIN row : row[i].contact \in DOMAIN contact
      /\ \A c \in DOMAIN contact :
           /\ \A i, j \in Own(row, c, "company") : i = j
           /\ \A k \in Defaults : contact[c].def[k] \in Own(row, c, k) \cup {0}
  BY <1>2, StoredAssumption DEF Own
<1>4. DOMAIN contact = 1..lastcontact
  <2>1. PICK n \in 0..MaxContacts : contact \in [1..n -> ContactRows]
    BY <1>3
  <2>2. lastcontact = n
    BY <1>2, <2>1, ConstantsAssumption
  <2> QED
    BY <2>1, <2>2
<1>5. RowsKnown(row, lastcontact)
  <2>1. OneCompany(row)
    BY <1>3 DEF OneCompany, Own
  <2> QED
    BY <1>3, <1>4, <2>1 DEF RowsKnown
<1>6. DefaultsOwn(contact, row)
  BY <1>3 DEF DefaultsOwn
<1>7. IdsTold(value) /\ \A s \in Structs : Told(value, struct[s], row, lastcontact)
  BY <1>1 DEF IdsTold, Told
<1>8. Stores
  BY <1>1 DEF Stores, Wrote
<1> QED
  BY <1>5, <1>6, <1>7, <1>8, InvInit DEF EInv, DInv

LEMMA EInvStep ==
  ASSUME Habits = {}
  PROVE  EInv /\ [Next]_vars => EInv'
<1> SUFFICES ASSUME CInv, DInv, Stores, [Next]_vars PROVE DInv' /\ Stores'
  BY InvStep DEF EInv
<1>1. ASSUME ValueNext PROVE DInv' /\ Stores'
  <2>1. last' = [what |-> "edit"]
    BY <1>1 DEF ValueNext, NewValue, FreeValue, StealStr, SetStr, SetDefault, SetDeleted, Edited
  <2>2. ASSUME NEW p \in Pointers, StealStr(p) PROVE DInv'
    BY <2>2, SetTold DEF StealStr
  <2>3. ASSUME NEW p \in Pointers,
               (\E t \in Texts \cup {Null} : SetStr(p, t)) \/ (\E b \in BOOLEAN : SetDefault(p, b) \/ SetDeleted(p, b))
        PROVE  DInv'
    BY <2>3, SetTold
  <2>4. DInv'
    BY <1>1, <2>2, <2>3, NewValueTold, FreeValueTold DEF ValueNext
  <2> QED
    BY <2>1, <2>4, StoresNothing
<1>2. ASSUME NEW s \in Structs, StoreNext(s) PROVE DInv' /\ Stores'
  <2>1. ASSUME NEW k \in Kinds, NEW added \in {<<>>} \cup {<<p>> : p \in Loose(k)}, StoreOwn(s, k, added)
        PROVE  DInv' /\ last' = [what |-> "edit"]
    BY <2>1, StoreOwnTold DEF StoreOwn, Edited
  <2>2. ASSUME NEW k \in Kinds, NEW p \in OfKind(k), NEW q \in OfKind(k),
               StoreList(s, k, IF p = q THEN <<p>> ELSE <<p, q>>)
        PROVE  DInv' /\ last' = [what |-> "edit"]
    BY <2>2, StoreListTold DEF StoreList, Edited
  <2>3. ASSUME \/ \E n \in Names : StoreName(s, n)
               \/ \E t \in Texts \cup {Null} : StoreCompany(s, t)
               \/ \E i \in Images, path \in Paths \cup {Null} : StoreImage(s, i, path)
        PROVE  DInv' /\ last' = [what |-> "edit"]
    BY <2>3, StoreTold DEF StoreName, StoreCompany, StoreImage, Edited
  <2>4. DInv' /\ last' = [what |-> "edit"]
    BY <1>2, <2>1, <2>2, <2>3, Zenon DEF StoreNext
  <2> QED
    BY <2>4, StoresNothing
<1>3. ASSUME NEW s \in Structs, StructNext(s) PROVE DInv' /\ Stores'
  <2>1. ASSUME \/ NewStruct(s) \/ FreeStruct(s)
               \/ \E t \in Structs : Merge(s, t) \/ Duplicate(s, t)
               \/ \E c \in DOMAIN contact : Get(s, c)
        PROVE  DInv' /\ Stores'
    <3>1. DInv'
      BY <2>1, NewStructTold, FreeStructTold, MergeTold, DuplicateTold, GetTold
    <3>2. last' = [what |-> "edit"]
      BY <2>1 DEF NewStruct, FreeStruct, Merge, Duplicate, Get, Edited
    <3> QED
      BY <3>1, <3>2, StoresNothing
  <2>2. ASSUME UpdateRefused(s) PROVE DInv' /\ Stores'
    <3>1. last' = [what |-> "update", struct |-> s, ok |-> FALSE]
      BY <2>2 DEF UpdateRefused, Called
    <3> QED
      BY <2>2, <3>1, UpdateRefusedTold, StoresNothing
  <2> QED
    BY <1>3, <2>1, <2>2, UpdateTold, InsertTold DEF StructNext
<1>4. ASSUME NEW c \in 1..lastcontact, NEW p \in Pointers, Put(c, p) PROVE DInv' /\ Stores'
  <2>1. last' = [what |-> "edit"]
    BY <1>4 DEF Put, Edited
  <2> QED
    BY <1>4, <2>1, PutTold, StoresNothing
<1>5. ASSUME NEW c \in DOMAIN contact, Delete(c) PROVE DInv' /\ Stores'
  <2>1. last' = [what |-> "edit"]
    BY <1>5 DEF Delete, Edited
  <2> QED
    BY <1>5, <2>1, DeleteTold, StoresNothing
<1>6. ASSUME UNCHANGED vars PROVE DInv' /\ Stores'
  <2>1. /\ value' = value /\ struct' = struct /\ row' = row /\ contact' = contact /\ lastcontact' = lastcontact
        /\ last' = last
    BY <1>6 DEF vars, objects, database
  <2>2. DInv'
    BY <2>1 DEF DInv
  <2>3. Stores'
    BY <2>1 DEF Stores, Wrote
  <2> QED
    BY <2>2, <2>3
<1> QED
  BY <1>1, <1>2, <1>3, <1>4, <1>5, <1>6 DEF Next

LEMMA EInvAlways ==
  ASSUME Habits = {}
  PROVE  Spec => []EInv
BY EInvInit, EInvStep, PTL DEF Spec

\* For a program that writes a struct once and does not clear the text of a
\* value that has a row, the default number and e-mail of every contact are rows
\* of that contact, through insertions and updates that are committed or rolled
\* back, merges, copies, contacts_svc_put_contact_value and deletions.
THEOREM DefaultsAreOwn ==
  ASSUME Habits = {}
  PROVE  Spec => []DefaultIsOwn
<1>1. EInv => DefaultIsOwn
  BY DEF EInv, DInv, DefaultsOwn, DefaultIsOwn, RowsOf, Own
<1> QED
  BY <1>1, EInvAlways, PTL

\* For such a program, the rows of a contact that contacts_svc_insert_contact or
\* contacts_svc_update_contact wrote are the items of the struct that are not
\* deleted and have a text, each once, with the ids the values of a number or an
\* e-mail were given, and its company.
THEOREM WrittenIsWhatIsStored ==
  ASSUME Habits = {}
  PROVE  Spec => []WrittenIsStored
<1>1. EInv => WrittenIsStored
  BY StoredIsWritten DEF EInv
<1> QED
  BY <1>1, EInvAlways, PTL

\* For such a program, a contact without a name shows the text of its first
\* company, number or e-mail row after an insertion or update that succeeded;
\* after an insertion it may show the display name of the struct instead.
THEOREM NamesAreShown ==
  ASSUME Habits = {}
  PROVE  Spec => []DisplayShown
<1>1. EInv => DisplayShown
  BY StoredIsShown DEF EInv
<1> QED
  BY <1>1, EInvAlways, PTL

\* For such a program, the contact has a default number if it has numbers, and
\* one that was marked when one was marked and every marked one has a text; the
\* same of e-mails.
THEOREM MarkedIsDefault ==
  ASSUME Habits = {}
  PROVE  Spec => []DefaultChosen
<1>1. EInv => DefaultChosen
  BY StoredIsChosen DEF EInv
<1> QED
  BY <1>1, EInvAlways, PTL
=============================================================================
