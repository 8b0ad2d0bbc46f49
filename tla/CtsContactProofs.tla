-------------------------- MODULE CtsContactProofs --------------------------
(***************************************************************************)
(* The values, structs and rows of contacts are well-typed, and every value *)
(* a struct has taken belongs to one list, for any program and any bounds.  *)
(***************************************************************************)
EXTENDS CtsContactProps, FiniteSetTheorems, SequenceTheorems, WellFoundedInduction, TLAPS

-----------------------------------------------------------------------------
(* Sets of numbers.                                                         *)

LEMMA NumbersFinite ==
  ASSUME NEW n \in Nat, NEW S \in SUBSET (1..n)
  PROVE  IsFiniteSet(S) /\ Cardinality(S) \in 0..n
<1>1. 1 \in Int /\ n \in Int
  OBVIOUS
<1>2. IsFiniteSet(1..n) /\ Cardinality(1..n) = n
  BY <1>1, FS_Interval
<1>3. IsFiniteSet(S) /\ Cardinality(S) <= n
  BY <1>2, FS_Subset
<1> QED
  BY <1>3, FS_CardinalityType

LEMMA Smallest ==
  ASSUME NEW S, S \subseteq Nat, S # {}
  PROVE  Min(S) \in S /\ \A x \in S : Min(S) <= x
<1> DEFINE R == {ss \in Nat \X Nat : ss[1] < ss[2]}
<1>1. R = OpToRel(<, Nat)
  BY Zenon DEF OpToRel
<1>2. IsWellFoundedOn(R, Nat)
  BY <1>1, NatLessThanWellFounded
<1>3. PICK x \in S : \A y \in S : ~(<<y, x>> \in R)
  <2> HIDE DEF R
  <2> QED
    BY <1>2, WFMin
<1>4. \A y \in S : x <= y
  <2> SUFFICES ASSUME NEW y \in S PROVE x <= y
    OBVIOUS
  <2>1. <<y, x>> \in Nat \X Nat
    OBVIOUS
  <2>2. ~(y < x)
    BY <1>3, <2>1
  <2> QED
    BY <2>2
<1> QED
  BY <1>4 DEF Min

LEMMA Largest ==
  ASSUME NEW n \in Nat, NEW S, S \subseteq 1..n, S # {}
  PROVE  Max(S) \in S /\ \A x \in S : x <= Max(S)
<1> DEFINE T == {n - x : x \in S}
<1>1. T \subseteq Nat /\ T # {}
  OBVIOUS
<1>2. Min(T) \in T /\ \A x \in T : Min(T) <= x
  <2> HIDE DEF T
  <2> QED
    BY <1>1, Smallest
<1>3. PICK m \in S : Min(T) = n - m
  BY <1>2
<1>4. \A x \in S : x <= m
  <2> SUFFICES ASSUME NEW x \in S PROVE x <= m
    OBVIOUS
  <2>1. n - x \in T
    OBVIOUS
  <2>2. n - m <= n - x
    BY <1>2, <1>3, <2>1
  <2> QED
    BY <2>2
<1> QED
  BY <1>4 DEF Max

\* The place of i among the numbers.
Rank(S, i) == Cardinality({j \in S : j <= i})

LEMMA RankIncreases ==
  ASSUME NEW n \in Nat, NEW S \in SUBSET (1..n), NEW i \in S
  PROVE  /\ Rank(S, i) \in 1..Cardinality(S)
         /\ \A j \in S : i < j => Rank(S, i) < Rank(S, j)
<1> DEFINE below(x) == {j \in S : j <= x}
<1>1. IsFiniteSet(S) /\ \A x : IsFiniteSet(below(x)) /\ Cardinality(below(x)) \in Nat
  BY NumbersFinite
<1>5. \A x \in S : x \in Int
  OBVIOUS
<1>2. Cardinality(below(i)) <= Cardinality(S)
  BY <1>1, FS_Subset
<1>3. Cardinality(below(i)) # 0
  BY <1>1, FS_EmptySet
<1>4. ASSUME NEW j \in S, i < j
      PROVE  Cardinality(below(i)) < Cardinality(below(j))
  <2>1. below(i) \subseteq below(j) /\ j \in below(j) /\ j \notin below(i)
    <3>1. i \in Int /\ j \in Int
      BY <1>5
    <3>2. \A x \in S : x <= i => x <= j
      BY <1>4, <1>5, <3>1
    <3>3. j <= j /\ ~(j <= i)
      BY <1>4, <3>1
    <3> QED
      BY <3>2, <3>3
  <2>2. Cardinality(below(i)) <= Cardinality(below(j)) /\ Cardinality(below(i)) # Cardinality(below(j))
    <3> DEFINE B == below(j)
    <3>1. IsFiniteSet(B) /\ below(i) \in SUBSET B /\ below(i) # B
      BY <1>1, <2>1
    <3>2. Cardinality(below(i)) <= Cardinality(B) /\ (Cardinality(B) = Cardinality(below(i)) => B = below(i))
      <4> HIDE DEF B, below
      <4> QED
        BY <3>1, FS_Subset
    <3> QED
      BY <3>1, <3>2
  <2> QED
    BY <1>1, <2>2
<1> QED
  BY <1>1, <1>2, <1>3, <1>4, NumbersFinite DEF Rank

\* Nth enumerates the numbers in their order.
LEMMA NthEnumerates ==
  ASSUME NEW n \in Nat, NEW S \in SUBSET (1..n)
  PROVE  /\ \A m \in 1..Cardinality(S) : Nth(S, m) \in S /\ Rank(S, Nth(S, m)) = m
         /\ \A i \in S : Rank(S, i) \in 1..Cardinality(S) /\ Nth(S, Rank(S, i)) = i
         /\ \A l, m \in 1..Cardinality(S) : l < m => Nth(S, l) < Nth(S, m)
<1> DEFINE c == Cardinality(S)
           f == [i \in S |-> Rank(S, i)]
<1>1. IsFiniteSet(S) /\ c \in Nat
  BY NumbersFinite
<1>2. \A i \in S : Rank(S, i) \in 1..c /\ \A j \in S : i < j => Rank(S, i) < Rank(S, j)
  BY RankIncreases
<1>3. \A i, j \in S : Rank(S, i) = Rank(S, j) => i = j
  <2> SUFFICES ASSUME NEW i \in S, NEW j \in S, Rank(S, i) = Rank(S, j), i # j PROVE FALSE
    OBVIOUS
  <2>1. i < j \/ j < i
    OBVIOUS
  <2> QED
    BY <1>1, <1>2, <2>1
<1>4. f \in Injection(S, 1..c)
  BY <1>2, <1>3 DEF Injection, IsInjective
<1>5. IsFiniteSet(1..c) /\ Cardinality(1..c) = c
  <2>1. 1 \in Int /\ c \in Int
    BY <1>1
  <2> QED
    BY <1>1, <2>1, FS_Interval
<1>6. f \in Surjection(S, 1..c)
  <2> HIDE DEF f
  <2> QED
    BY <1>4, <1>5, FS_Injection
<1>7. \A m \in 1..c : \E i \in S : Rank(S, i) = m
  BY <1>6 DEF Surjection
<1>8. \A m \in 1..c : Nth(S, m) \in S /\ Rank(S, Nth(S, m)) = m
  BY <1>7 DEF Nth, Rank
<1>9. \A i \in S : Nth(S, Rank(S, i)) = i
  BY <1>2, <1>3, <1>8
<1>10. ASSUME NEW l \in 1..c, NEW m \in 1..c, l < m
       PROVE  Nth(S, l) < Nth(S, m)
  <2>1. Nth(S, l) \in S /\ Nth(S, m) \in S /\ Rank(S, Nth(S, l)) = l /\ Rank(S, Nth(S, m)) = m
    BY <1>8
  <2>2. Nth(S, m) # Nth(S, l)
    BY <1>10, <2>1
  <2>3. ~(Nth(S, m) < Nth(S, l))
    <3>1. ~(Rank(S, Nth(S, m)) < Rank(S, Nth(S, l)))
      BY <1>10, <2>1
    <3> QED
      BY <1>2, <2>1, <3>1
  <2>4. \A x \in S : x \in Int
    OBVIOUS
  <2>5. Nth(S, l) \in Int /\ Nth(S, m) \in Int
    BY <2>1, <2>4
  <2> QED
    BY <2>2, <2>3, <2>5
<1> QED
  BY <1>2, <1>8, <1>9, <1>10

LEMMA SublistProperties ==
  ASSUME NEW T, NEW list \in Seq(T), NEW S \in SUBSET DOMAIN list
  PROVE  /\ Sublist(list, S) \in Seq(T)
         /\ DOMAIN Sublist(list, S) = 1..Cardinality(S) /\ Len(Sublist(list, S)) = Cardinality(S)
         /\ Cardinality(S) \in 0..Len(list)
         /\ \A n \in 1..Cardinality(S) : Nth(S, n) \in S /\ Sublist(list, S)[n] = list[Nth(S, n)]
         /\ \A i \in S : \E n \in 1..Cardinality(S) : Nth(S, n) = i /\ Sublist(list, S)[n] = list[i]
         /\ \A l, m \in 1..Cardinality(S) : l < m => Nth(S, l) < Nth(S, m)
<1> DEFINE c == Cardinality(S)
<1>1. Len(list) \in Nat /\ DOMAIN list = 1..Len(list) /\ \A i \in DOMAIN list : list[i] \in T
  BY LenProperties, ElementOfSeq
<1>2. c \in 0..Len(list)
  BY <1>1, NumbersFinite
<1>3. /\ \A m \in 1..c : Nth(S, m) \in S /\ Rank(S, Nth(S, m)) = m
      /\ \A i \in S : Rank(S, i) \in 1..c /\ Nth(S, Rank(S, i)) = i
      /\ \A l, m \in 1..c : l < m => Nth(S, l) < Nth(S, m)
  BY <1>1, NthEnumerates
<1>4. Sublist(list, S) = [n \in 1..c |-> list[Nth(S, n)]]
  BY DEF Sublist
<1>5. \A n \in 1..c : list[Nth(S, n)] \in T
  <2>1. \A n \in 1..c : Nth(S, n) \in S
    BY <1>3
  <2>2. \A i \in S : list[i] \in T
    BY <1>1
  <2> QED
    BY <2>1, <2>2
<1>6. Sublist(list, S) \in Seq(T)
  <2>1. c \in Nat
    BY <1>1, <1>2
  <2> HIDE DEF c
  <2> QED
    BY <1>4, <1>5, <2>1, IsASeq
<1>7. Len(Sublist(list, S)) = c
  BY <1>2, <1>4
<1>8. \A i \in S : \E n \in 1..c : Nth(S, n) = i /\ Sublist(list, S)[n] = list[i]
  BY <1>3, <1>4
<1> QED
  BY <1>2, <1>3, <1>4, <1>6, <1>7, <1>8

LEMMA SublistItems ==
  ASSUME NEW T, NEW list \in Seq(T), NEW S \in SUBSET DOMAIN list
  PROVE  Range(Sublist(list, S)) = {list[i] : i \in S}
BY SublistProperties DEF Range

-----------------------------------------------------------------------------
(* Who owns the values.                                                     *)

ItemSet(list) == Range(list) \ {0}
Distinct(list) == \A i, j \in DOMAIN list : list[i] = list[j] /\ list[i] # 0 => i = j

LEMMA SublistDistinct ==
  ASSUME NEW T, NEW list \in Seq(T), NEW S \in SUBSET DOMAIN list, Distinct(list)
  PROVE  Distinct(Sublist(list, S))
<1> DEFINE c == Cardinality(S)
           sub == Sublist(list, S)
<1>1. /\ DOMAIN sub = 1..c /\ c \in Nat
      /\ \A n \in 1..c : Nth(S, n) \in S /\ sub[n] = list[Nth(S, n)]
      /\ \A l, m \in 1..c : l < m => Nth(S, l) < Nth(S, m)
  BY SublistProperties, LenProperties
<1>2. \A x \in S : x \in Int
  BY LenProperties
<1>3. ASSUME NEW l \in 1..c, NEW m \in 1..c, sub[l] = sub[m], sub[l] # 0
      PROVE  l = m
  <2>1. Nth(S, l) = Nth(S, m)
    BY <1>1, <1>3 DEF Distinct
  <2>2. Nth(S, l) \in Int
    BY <1>1, <1>2
  <2>3. ~(l < m) /\ ~(m < l)
    BY <1>1, <2>1, <2>2
  <2> QED
    BY <1>1, <2>3
<1> HIDE DEF sub, c
<1> QED
  BY <1>1, <1>3 DEF Distinct, sub

LEMMA ConcatItems ==
  ASSUME NEW T, NEW list \in Seq(T), NEW more \in Seq(T)
  PROVE  /\ list \o more \in Seq(T)
         /\ Range(list \o more) = Range(list) \cup Range(more)
         /\ Distinct(list) /\ Distinct(more) /\ ItemSet(list) \cap ItemSet(more) = {}
              => Distinct(list \o more)
<1> DEFINE n == Len(list)
           all == list \o more
<1>1. /\ n \in Nat /\ Len(more) \in Nat /\ DOMAIN list = 1..n /\ DOMAIN more = 1..Len(more)
      /\ all \in Seq(T) /\ DOMAIN all = 1..(n + Len(more))
      /\ \A i \in 1..(n + Len(more)) : all[i] = IF i <= n THEN list[i] ELSE more[i - n]
  BY ConcatProperties, LenProperties
<1>2. \A i \in DOMAIN list : i \in DOMAIN all /\ all[i] = list[i]
  BY <1>1
<1>3. \A j \in DOMAIN more : n + j \in DOMAIN all /\ all[n + j] = more[j]
  BY <1>1
<1>4. \A i \in DOMAIN all : \/ i \in DOMAIN list /\ all[i] = list[i]
                            \/ i - n \in DOMAIN more /\ all[i] = more[i - n]
  BY <1>1
<1>5. Range(all) = Range(list) \cup Range(more)
  <2> HIDE DEF all
  <2> QED
    BY <1>2, <1>3, <1>4 DEF Range
<1>6. ASSUME Distinct(list), Distinct(more), ItemSet(list) \cap ItemSet(more) = {},
             NEW i \in DOMAIN all, NEW j \in DOMAIN all, all[i] = all[j], all[i] # 0
      PROVE  i = j
  <2> HIDE DEF all
  <2>1. CASE i \in DOMAIN list /\ all[i] = list[i] /\ j \in DOMAIN list /\ all[j] = list[j]
    BY <1>6, <2>1 DEF Distinct
  <2>2. CASE i - n \in DOMAIN more /\ all[i] = more[i - n] /\ j - n \in DOMAIN more /\ all[j] = more[j - n]
    <3>1. i - n = j - n
      BY <1>6, <2>2 DEF Distinct
    <3> QED
      BY <1>1, <3>1
  <2>3. ASSUME NEW a \in DOMAIN list, NEW b \in DOMAIN more, list[a] = more[b], list[a] # 0
        PROVE  FALSE
    BY <1>6, <2>3 DEF ItemSet, Range
  <2> QED
    BY <1>4, <1>6, <2>1, <2>2, <2>3
<1> QED
  BY <1>1, <1>5, <1>6 DEF Distinct

\* L: the lists of each struct; E: the values that structs have taken.
OwnedBy(L, E) ==
  /\ \A s \in Structs, k \in Kinds : Distinct(L[s][k]) /\ ItemSet(L[s][k]) \subseteq E
  /\ \A s, t \in Structs, k, l \in Kinds :
       (\E p \in ItemSet(L[s][k]) : p \in ItemSet(L[t][l])) => s = t /\ k = l
  /\ \A p \in E : \E s \in Structs, k \in Kinds : p \in ItemSet(L[s][k])

LEMMA Owning ==
  ASSUME NEW N, NEW F,
         \A s \in Structs, k \in Kinds : Distinct(N[s][k]) /\ ItemSet(N[s][k]) \subseteq F,
         \A s, t \in Structs, k, l \in Kinds :
           \A p \in ItemSet(N[s][k]) : p \in ItemSet(N[t][l]) => s = t /\ k = l,
         \A p \in F : \E s \in Structs, k \in Kinds : p \in ItemSet(N[s][k])
  PROVE  OwnedBy(N, F)
BY DEF OwnedBy

LEMMA Apart ==
  ASSUME NEW L, NEW E, OwnedBy(L, E), NEW s \in Structs, NEW t \in Structs,
         NEW k \in Kinds, NEW l \in Kinds, NEW p \in ItemSet(L[s][k]), p \in ItemSet(L[t][l])
  PROVE  s = t /\ k = l
BY DEF OwnedBy

\* One list is replaced, by one that may take what no other list has.
LEMMA ListReplaced ==
  ASSUME NEW L, NEW E, OwnedBy(L, E), NEW s \in Structs, NEW k \in Kinds, NEW M, NEW N,
         Distinct(M), ItemSet(M) \cap (E \ ItemSet(L[s][k])) = {},
         \A t \in Structs, l \in Kinds : N[t][l] = IF t = s /\ l = k THEN M ELSE L[t][l],
         NEW F, F = (E \ ItemSet(L[s][k])) \cup ItemSet(M)
  PROVE  OwnedBy(N, F)
<1>1. \A t \in Structs, l \in Kinds : Distinct(N[t][l])
  BY DEF OwnedBy
<1>2. ASSUME NEW t \in Structs, NEW l \in Kinds, ~(t = s /\ l = k)
      PROVE  N[t][l] = L[t][l] /\ ItemSet(L[t][l]) \subseteq E \ ItemSet(L[s][k])
  <2>1. N[t][l] = L[t][l]
    BY <1>2
  <2>2. ItemSet(L[t][l]) \subseteq E /\ \A p \in ItemSet(L[t][l]) : p \notin ItemSet(L[s][k])
    BY <1>2 DEF OwnedBy
  <2> QED
    BY <2>1, <2>2
<1>3. N[s][k] = M
  OBVIOUS
<1>4. \A t \in Structs, l \in Kinds : ItemSet(N[t][l]) \subseteq F
  BY <1>2, <1>3
<1>5. ASSUME NEW t \in Structs, NEW u \in Structs, NEW l \in Kinds, NEW m \in Kinds,
             NEW p \in ItemSet(N[t][l]), p \in ItemSet(N[u][m])
      PROVE  t = u /\ l = m
  <2>1. CASE t = s /\ l = k /\ u = s /\ m = k
    BY <2>1
  <2>2. CASE t = s /\ l = k /\ ~(u = s /\ m = k)
    BY <1>2, <1>3, <1>5, <2>2
  <2>3. CASE ~(t = s /\ l = k) /\ u = s /\ m = k
    BY <1>2, <1>3, <1>5, <2>3
  <2>4. CASE ~(t = s /\ l = k) /\ ~(u = s /\ m = k)
    <3>1. p \in ItemSet(L[t][l]) /\ p \in ItemSet(L[u][m])
      BY <1>2, <1>5, <2>4
    <3> QED
      BY <3>1, Apart
  <2> QED
    BY <2>1, <2>2, <2>3, <2>4
<1>6. ASSUME NEW p \in F
      PROVE  \E t \in Structs, l \in Kinds : p \in ItemSet(N[t][l])
  <2>1. CASE p \in ItemSet(M)
    BY <1>3, <2>1
  <2>2. CASE p \in E \ ItemSet(L[s][k])
    <3>1. PICK t \in Structs, l \in Kinds : p \in ItemSet(L[t][l])
      BY <2>2 DEF OwnedBy
    <3> QED
      BY <1>2, <2>2, <3>1
  <2> QED
    BY <1>6, <2>1, <2>2
<1>7. \A t \in Structs, l \in Kinds : Distinct(N[t][l]) /\ ItemSet(N[t][l]) \subseteq F
  BY <1>1, <1>4
<1>8. \A t, u \in Structs, l, m \in Kinds :
        \A p \in ItemSet(N[t][l]) : p \in ItemSet(N[u][m]) => t = u /\ l = m
  BY <1>5
<1> QED
  BY ONLY <1>6, <1>7, <1>8, Owning

\* The lists of a struct that has none take values of no struct.
LEMMA StructFilled ==
  ASSUME NEW L, NEW E, OwnedBy(L, E), NEW s \in Structs, NEW N, NEW F,
         \A k \in Kinds : L[s][k] = <<>>,
         \A k \in Kinds : Distinct(N[s][k]) /\ ItemSet(N[s][k]) \cap E = {},
         \A k, l \in Kinds : \A p \in ItemSet(N[s][k]) : p \in ItemSet(N[s][l]) => k = l,
         \A t \in Structs, l \in Kinds : t # s => N[t][l] = L[t][l],
         \A p : p \in F <=> p \in E \/ \E k \in Kinds : p \in ItemSet(N[s][k])
  PROVE  OwnedBy(N, F)
<1>1. \A k \in Kinds : ItemSet(L[s][k]) = {}
  BY DEF ItemSet, Range
<1>2. \A t \in Structs, l \in Kinds : Distinct(N[t][l]) /\ ItemSet(N[t][l]) \subseteq F
  BY DEF OwnedBy
<1>3. ASSUME NEW t \in Structs, NEW u \in Structs, NEW l \in Kinds, NEW m \in Kinds,
             NEW p \in ItemSet(N[t][l]), p \in ItemSet(N[u][m])
      PROVE  t = u /\ l = m
  <2>1. CASE t = s /\ u = s
    BY <1>3, <2>1
  <2>2. CASE t = s /\ u # s
    BY <1>3, <2>2 DEF OwnedBy
  <2>3. CASE t # s /\ u = s
    BY <1>3, <2>3 DEF OwnedBy
  <2>4. CASE t # s /\ u # s
    BY <1>3, <2>4 DEF OwnedBy
  <2> QED
    BY <2>1, <2>2, <2>3, <2>4
<1>4. ASSUME NEW p \in F
      PROVE  \E t \in Structs, l \in Kinds : p \in ItemSet(N[t][l])
  <2>1. CASE p \in E
    <3>1. PICK t \in Structs, l \in Kinds : p \in ItemSet(L[t][l])
      BY <2>1 DEF OwnedBy
    <3>2. t # s
      BY <1>1, <3>1
    <3> QED
      BY <3>1, <3>2
  <2>2. CASE p \notin E
    BY <1>4, <2>2
  <2> QED
    BY <2>1, <2>2
<1> QED
  BY ONLY <1>2, <1>3, <1>4, Owning

\* The lists of a struct go, with what they have.
LEMMA StructEmptied ==
  ASSUME NEW L, NEW E, OwnedBy(L, E), NEW s \in Structs, NEW N, NEW F,
         \A t \in Structs, l \in Kinds : N[t][l] = IF t = s THEN <<>> ELSE L[t][l],
         \A p : p \in F <=> p \in E /\ \A k \in Kinds : p \notin ItemSet(L[s][k])
  PROVE  OwnedBy(N, F)
<1>1. \A k \in Kinds : ItemSet(N[s][k]) = {} /\ Distinct(N[s][k])
  BY DEF ItemSet, Range, Distinct
<1>2. ASSUME NEW t \in Structs, NEW l \in Kinds, t # s
      PROVE  N[t][l] = L[t][l] /\ ItemSet(L[t][l]) \subseteq F
  <2>1. N[t][l] = L[t][l]
    BY <1>2
  <2>2. ItemSet(L[t][l]) \subseteq E
        /\ \A k \in Kinds : \A p \in ItemSet(L[t][l]) : p \notin ItemSet(L[s][k])
    BY <1>2 DEF OwnedBy
  <2> QED
    BY <2>1, <2>2
<1>3. \A t \in Structs, l \in Kinds : Distinct(N[t][l]) /\ ItemSet(N[t][l]) \subseteq F
  BY <1>1, <1>2 DEF OwnedBy
<1>4. ASSUME NEW t \in Structs, NEW u \in Structs, NEW l \in Kinds, NEW m \in Kinds,
             NEW p \in ItemSet(N[t][l]), p \in ItemSet(N[u][m])
      PROVE  t = u /\ l = m
  <2>1. t # s /\ u # s
    BY <1>1, <1>4
  <2> QED
    BY <1>2, <1>4, <2>1 DEF OwnedBy
<1>5. ASSUME NEW p \in F
      PROVE  \E t \in Structs, l \in Kinds : p \in ItemSet(N[t][l])
  <2>1. PICK t \in Structs, l \in Kinds : p \in ItemSet(L[t][l])
    BY <1>5 DEF OwnedBy
  <2>2. t # s
    BY <1>5, <2>1
  <2> QED
    BY <1>2, <2>1, <2>2
<1> QED
  BY ONLY <1>3, <1>4, <1>5, Owning

\* Two structs share out what they have among them, kind by kind.
LEMMA StructsShare ==
  ASSUME NEW L, NEW E, OwnedBy(L, E), NEW s \in Structs, NEW t \in Structs, s # t,
         NEW N,
         \A k \in Kinds :
           /\ Distinct(N[s][k]) /\ Distinct(N[t][k]) /\ ItemSet(N[s][k]) \cap ItemSet(N[t][k]) = {}
           /\ ItemSet(N[s][k]) \cup ItemSet(N[t][k]) = ItemSet(L[s][k]) \cup ItemSet(L[t][k]),
         \A u \in Structs, k \in Kinds : u # s /\ u # t => N[u][k] = L[u][k]
  PROVE  OwnedBy(N, E)
<1> DEFINE Both == {s, t}
<1>1. ASSUME NEW k \in Kinds
      PROVE  /\ ItemSet(N[s][k]) \cup ItemSet(N[t][k]) = ItemSet(L[s][k]) \cup ItemSet(L[t][k])
             /\ ItemSet(N[s][k]) \cap ItemSet(N[t][k]) = {}
  OBVIOUS
<1>2. ASSUME NEW u \in Structs \ Both, NEW k \in Kinds
      PROVE  N[u][k] = L[u][k]
  OBVIOUS
<1>3. \A u \in Structs, k \in Kinds : Distinct(N[u][k])
  BY DEF OwnedBy
<1>4. ASSUME NEW u \in Structs, NEW k \in Kinds, NEW p \in ItemSet(N[u][k])
      PROVE  \E v \in Structs : p \in ItemSet(L[v][k]) /\ (v \in Both <=> u \in Both) /\ (u \notin Both => u = v)
  <2>1. CASE u \in Both
    BY <1>1, <1>4, <2>1
  <2>2. CASE u \notin Both
    BY <1>2, <1>4, <2>2
  <2> QED
    BY <2>1, <2>2
<1>5. \A u \in Structs, k \in Kinds : ItemSet(N[u][k]) \subseteq E
  BY <1>4 DEF OwnedBy
<1>6. ASSUME NEW u \in Structs, NEW v \in Structs, NEW k \in Kinds, NEW l \in Kinds,
             NEW p \in ItemSet(N[u][k]), p \in ItemSet(N[v][l])
      PROVE  u = v /\ k = l
  <2>1. PICK a \in Structs : p \in ItemSet(L[a][k]) /\ (a \in Both <=> u \in Both) /\ (u \notin Both => u = a)
    BY <1>4
  <2>2. PICK b \in Structs : p \in ItemSet(L[b][l]) /\ (b \in Both <=> v \in Both) /\ (v \notin Both => v = b)
    BY <1>4, <1>6
  <2>3. a = b /\ k = l
    BY <2>1, <2>2 DEF OwnedBy
  <2>4. CASE u \notin Both
    BY <2>1, <2>2, <2>3, <2>4
  <2>5. CASE u \in Both
    <3>1. v \in Both
      BY <2>1, <2>2, <2>3, <2>5
    <3>2. u = v
      BY <1>1, <1>6, <2>3, <2>5, <3>1
    <3> QED
      BY <2>3, <3>2
  <2> QED
    BY <2>4, <2>5
<1>7. ASSUME NEW p \in E
      PROVE  \E u \in Structs, k \in Kinds : p \in ItemSet(N[u][k])
  <2>1. PICK u \in Structs, k \in Kinds : p \in ItemSet(L[u][k])
    BY DEF OwnedBy
  <2>2. CASE u \in Both
    <3>1. p \in ItemSet(N[s][k]) \cup ItemSet(N[t][k])
      BY <1>1, <2>1, <2>2
    <3> QED
      BY <3>1
  <2>3. CASE u \notin Both
    BY <1>2, <2>1, <2>3
  <2> QED
    BY <2>2, <2>3
<1> QED
  BY ONLY <1>3, <1>5, <1>6, <1>7, Owning

-----------------------------------------------------------------------------
(* Values and structs that a program may have.                              *)

SomeValues == {v \in Values : v.deleted => v.embedded}
Lists(st) == [s \in Structs |-> [k \in Kinds |-> IF st[s] = Null THEN <<>> ELSE st[s].list[k]]]
Embedded(val) == {p \in Pointers : val[p] # Null /\ val[p].embedded}

\* Only a struct that was merged has items that are NULL.
NoNulls(x) == x.use # "merged" => \A k \in Kinds : 0 \notin Range(x.list[k])

Objects(val, st) ==
  /\ val \in [Pointers -> {Null} \cup SomeValues]
  /\ st \in [Structs -> {Null} \cup Contents]
  /\ \A s \in Structs : st[s] # Null => NoNulls(st[s])
  /\ OwnedBy(Lists(st), Embedded(val))

Rows(rows, lr) == lr \in 0..MaxRows /\ DOMAIN rows \subseteq 1..lr /\ rows \in [DOMAIN rows -> DataRows]
Contacts(contacts, lc) ==
  /\ lc \in 0..MaxContacts /\ DOMAIN contacts \subseteq 1..lc
  /\ contacts \in [DOMAIN contacts -> ContactRows]

\* The inductive invariant.
CInv == Objects(value, struct) /\ Rows(row, lastrow) /\ Contacts(contact, lastcontact)

LEMMA NullIsNone == Null \notin Values /\ Null \notin Contents /\ Null \notin Texts
BY ConstantsAssumption

LEMMA ValueChanged ==
  ASSUME NEW v \in SomeValues
  PROVE  /\ \A t \in Texts \cup {Null} :
              [v EXCEPT !.text = t] \in SomeValues /\ [v EXCEPT !.text = t].embedded = v.embedded
         /\ \A b \in BOOLEAN :
              [v EXCEPT !.def = b] \in SomeValues /\ [v EXCEPT !.def = b].embedded = v.embedded
         /\ \A i \in 0..MaxRows :
              [v EXCEPT !.id = i] \in SomeValues /\ [v EXCEPT !.id = i].embedded = v.embedded
         /\ v.embedded => \A b \in BOOLEAN :
              [v EXCEPT !.deleted = b] \in SomeValues /\ [v EXCEPT !.deleted = b].embedded
         /\ [v EXCEPT !.embedded = TRUE] \in SomeValues /\ [v EXCEPT !.embedded = TRUE].embedded
BY DEF SomeValues, Values

\* Values change that no struct takes or loses.
LEMMA ValuesChange ==
  ASSUME NEW val, NEW st, Objects(val, st), NEW new \in [Pointers -> {Null} \cup SomeValues],
         Embedded(new) = Embedded(val)
  PROVE  Objects(new, st)
BY DEF Objects

\* The contents of a struct change, and its lists do not.
LEMMA ContentsChange ==
  ASSUME NEW val, NEW st, Objects(val, st), NEW s \in Structs, NEW x \in Contents, NoNulls(x),
         \A k \in Kinds : x.list[k] = IF st[s] = Null THEN <<>> ELSE st[s].list[k]
  PROVE  Objects(val, [st EXCEPT ![s] = x])
<1> DEFINE new == [st EXCEPT ![s] = x]
<1>1. st \in [Structs -> {Null} \cup Contents] /\ x # Null
  BY NullIsNone DEF Objects
<1>2. new \in [Structs -> {Null} \cup Contents] /\ new[s] = x
      /\ \A t \in Structs : t # s => new[t] = st[t]
  BY <1>1
<1>3. Lists(new) = Lists(st)
  <2> HIDE DEF new
  <2>1. \A t \in Structs, k \in Kinds :
          (IF new[t] = Null THEN <<>> ELSE new[t].list[k]) = (IF st[t] = Null THEN <<>> ELSE st[t].list[k])
    BY <1>1, <1>2
  <2> QED
    BY <2>1 DEF Lists
<1>4. \A t \in Structs : new[t] # Null => NoNulls(new[t])
  <2> HIDE DEF new
  <2> QED
    BY <1>2 DEF Objects
<1> QED
  BY <1>2, <1>3, <1>4 DEF Objects

\* One value changes, and stays with or without a struct.
LEMMA ValueChange ==
  ASSUME NEW val, NEW st, Objects(val, st), NEW p \in Pointers, NEW v \in {Null} \cup SomeValues,
         (val[p] # Null /\ val[p].embedded) <=> (v # Null /\ v.embedded)
  PROVE  Objects([val EXCEPT ![p] = v], st)
<1> DEFINE new == [val EXCEPT ![p] = v]
<1>1. val \in [Pointers -> {Null} \cup SomeValues]
  BY DEF Objects
<1>2. new \in [Pointers -> {Null} \cup SomeValues] /\ new[p] = v
      /\ \A q \in Pointers : q # p => new[q] = val[q]
  BY <1>1
<1>3. Embedded(new) = Embedded(val)
  <2> HIDE DEF new
  <2> QED
    BY <1>2 DEF Embedded
<1> QED
  BY <1>2, <1>3, ValuesChange

-----------------------------------------------------------------------------
(* The calls of cts-struct.c.                                               *)

LEMMA ObjectsOnly ==
  ASSUME CInv, Objects(value', struct'), UNCHANGED database
  PROVE  CInv'
BY DEF CInv, database

LEMMA FirstFree ==
  ASSUME Free # {}
  PROVE  Nth(Free, 1) \in Free
<1>1. MaxValues \in Nat /\ Free \in SUBSET (1..MaxValues)
  BY ConstantsAssumption DEF Free, Pointers
<1>2. IsFiniteSet(Free) /\ Cardinality(Free) \in Nat
  BY <1>1, NumbersFinite
<1>3. Cardinality(Free) # 0
  BY <1>2, FS_EmptySet
<1>4. 1 \in 1..Cardinality(Free)
  BY <1>2, <1>3
<1> QED
  BY <1>1, <1>4, NthEnumerates

LEMMA NewValueStep ==
  ASSUME CInv, NEW in \in Inputs, NewValue(in)
  PROVE  CInv'
<1> DEFINE v == [kind |-> in.kind, id |-> 0, text |-> in.text, cell |-> in.cell, def |-> in.def,
                 deleted |-> FALSE, embedded |-> FALSE]
           p == Nth(Free, 1)
<1>1. value' = [value EXCEPT ![p] = v] /\ UNCHANGED <<struct, database>> /\ Free # {}
  BY DEF NewValue
<1>2. p \in Free
  BY <1>1, FirstFree
<1>3. p \in Pointers /\ value[p] = Null
  BY <1>2 DEF Free
<1>4. v \in SomeValues /\ ~v.embedded
  <2>1. in \in [kind : Kinds, text : Texts, cell : BOOLEAN, def : BOOLEAN] /\ 0 \in 0..MaxRows
    BY ConstantsAssumption
  <2> QED
    BY <2>1 DEF SomeValues, Values
<1> HIDE DEF v, p
<1>5. Objects(value', struct')
  BY <1>1, <1>3, <1>4, ValueChange DEF CInv
<1> QED
  BY <1>1, <1>5, ObjectsOnly

LEMMA FreeValueStep ==
  ASSUME CInv, NEW p \in Pointers, FreeValue(p)
  PROVE  CInv'
<1>1. value' = Freed(value, {p}) /\ UNCHANGED <<struct, database>>
      /\ value[p] # Null /\ ~value[p].embedded
  BY DEF FreeValue
<1>2. value' = [value EXCEPT ![p] = Null]
  BY <1>1 DEF CInv, Objects, Freed
<1>3. Objects(value', struct')
  BY <1>1, <1>2, ValueChange DEF CInv
<1> QED
  BY <1>1, <1>3, ObjectsOnly

\* Setting a text, a default mark or a deletion mark.
LEMMA SetStep ==
  ASSUME CInv, NEW p \in Pointers,
         \/ \E t \in Texts \cup {Null} : SetStr(p, t)
         \/ \E b \in BOOLEAN : SetDefault(p, b) \/ SetDeleted(p, b)
  PROVE  CInv'
<1>1. UNCHANGED <<struct, database>> /\ value[p] # Null
  BY DEF SetStr, SetDefault, SetDeleted
<1>2. value \in [Pointers -> {Null} \cup SomeValues] /\ value[p] \in SomeValues
  BY <1>1 DEF CInv, Objects
<1>3. PICK v \in SomeValues : value' = [value EXCEPT ![p] = v] /\ v.embedded = value[p].embedded
  <2>1. ASSUME NEW t \in Texts \cup {Null}, SetStr(p, t)
        PROVE  \E v \in SomeValues :
                 value' = [value EXCEPT ![p] = v] /\ v.embedded = value[p].embedded
    <3>1. value' = [value EXCEPT ![p] = [value[p] EXCEPT !.text = t]]
      BY <2>1 DEF SetStr
    <3>2. /\ [value[p] EXCEPT !.text = t] \in SomeValues
          /\ [value[p] EXCEPT !.text = t].embedded = value[p].embedded
      BY <1>2, <2>1, ValueChanged
    <3> QED
      BY <3>1, <3>2
  <2>2. ASSUME NEW b \in BOOLEAN, SetDefault(p, b)
        PROVE  \E v \in SomeValues :
                 value' = [value EXCEPT ![p] = v] /\ v.embedded = value[p].embedded
    <3>1. value' = [value EXCEPT ![p] = [value[p] EXCEPT !.def = b]]
      BY <2>2 DEF SetDefault
    <3> QED
      BY <1>2, <3>1, ValueChanged
  <2>3. ASSUME NEW b \in BOOLEAN, SetDeleted(p, b)
        PROVE  \E v \in SomeValues :
                 value' = [value EXCEPT ![p] = v] /\ v.embedded = value[p].embedded
    <3>1. value' = [value EXCEPT ![p] = [value[p] EXCEPT !.deleted = b]] /\ value[p].embedded
      BY <2>3 DEF SetDeleted
    <3>2. value[p].embedded = TRUE
      BY <1>2, <3>1 DEF SomeValues, Values
    <3>3. [value[p] EXCEPT !.deleted = b] \in SomeValues
          /\ [value[p] EXCEPT !.deleted = b].embedded = value[p].embedded
      BY <1>2, <3>1, <3>2 DEF SomeValues, Values
    <3> QED
      BY <3>1, <3>3
  <2> QED
    BY <2>1, <2>2, <2>3
<1>4. v # Null
  BY NullIsNone DEF SomeValues
<1>5. Objects(value', struct')
  BY <1>1, <1>3, <1>4, ValueChange DEF CInv
<1> QED
  BY <1>1, <1>5, ObjectsOnly

RealNames == [id : 0..MaxRows, given : BOOLEAN, display : Texts \cup {Null}, changed : BOOLEAN]
SomeNames == {Null} \cup RealNames
SomeCompanies == {Null} \cup [id : 0..MaxRows, text : Texts \cup {Null}]

LEMMA ContentsFields ==
  ASSUME NEW x \in Contents
  PROVE  /\ x.base \in 0..MaxContacts /\ x.name \in SomeNames /\ x.company \in SomeCompanies
         /\ x.list \in [Kinds -> Seq(0..MaxValues)] /\ x.def \in [Defaults -> 0..MaxRows]
         /\ x.image \in [Images -> Paths \cup {Null}] /\ x.changed \in SUBSET Images
         /\ x.use \in {"new", "read", "spent", "merged"}
BY DEF Contents, SomeNames, RealNames, SomeCompanies

LEMMA ContentsMade ==
  ASSUME NEW base \in 0..MaxContacts, NEW name \in SomeNames, NEW company \in SomeCompanies,
         NEW list \in [Kinds -> Seq(0..MaxValues)], NEW def \in [Defaults -> 0..MaxRows],
         NEW image \in [Images -> Paths \cup {Null}], NEW changed \in SUBSET Images,
         NEW use \in {"new", "read", "spent", "merged"}
  PROVE  [base |-> base, name |-> name, company |-> company, list |-> list, def |-> def,
          image |-> image, changed |-> changed, use |-> use] \in Contents
BY DEF Contents, SomeNames, RealNames, SomeCompanies

LEMMA ContentsChanged ==
  ASSUME NEW x \in Contents
  PROVE  /\ \A n \in SomeNames : [x EXCEPT !.name = n] \in Contents
         /\ \A c \in SomeCompanies : [x EXCEPT !.company = c] \in Contents
         /\ \A i \in [Images -> Paths \cup {Null}], changed \in SUBSET Images :
              [x EXCEPT !.image = i, !.changed = changed] \in Contents
         /\ \A l \in [Kinds -> Seq(0..MaxValues)] : [x EXCEPT !.list = l] \in Contents
         /\ \A l \in [Kinds -> Seq(0..MaxValues)], use \in {"new", "read", "spent", "merged"} :
              [x EXCEPT !.list = l, !.use = use] \in Contents
         /\ \A use \in {"new", "read", "spent", "merged"} : [x EXCEPT !.use = use] \in Contents
<1>1. \A n \in SomeNames : [x EXCEPT !.name = n] \in Contents
  BY DEF Contents, SomeNames, RealNames
<1>2. \A c \in SomeCompanies : [x EXCEPT !.company = c] \in Contents
  BY DEF Contents, SomeCompanies
<1>3. \A i \in [Images -> Paths \cup {Null}], changed \in SUBSET Images :
        [x EXCEPT !.image = i, !.changed = changed] \in Contents
  BY DEF Contents
<1>4. \A l \in [Kinds -> Seq(0..MaxValues)] : [x EXCEPT !.list = l] \in Contents
  BY DEF Contents
<1>5. \A l \in [Kinds -> Seq(0..MaxValues)], use \in {"new", "read", "spent", "merged"} :
        [x EXCEPT !.list = l, !.use = use] \in Contents
  BY DEF Contents
<1>6. \A use \in {"new", "read", "spent", "merged"} : [x EXCEPT !.use = use] \in Contents
  BY DEF Contents
<1> QED
  BY <1>1, <1>2, <1>3, <1>4, <1>5, <1>6

LEMMA NewStructStep ==
  ASSUME CInv, NEW s \in Structs, NewStruct(s)
  PROVE  CInv'
<1>1. struct' = [struct EXCEPT ![s] = Empty] /\ UNCHANGED <<value, database>> /\ struct[s] = Null
  BY DEF NewStruct
<1>2. Empty \in Contents
  <2>1. [k \in Kinds |-> <<>>] \in [Kinds -> Seq(0..MaxValues)]
    OBVIOUS
  <2>2. 0 \in 0..MaxContacts /\ 0 \in 0..MaxRows
    BY ConstantsAssumption
  <2>3. NoDefault \in [Defaults -> 0..MaxRows] /\ NoImage \in [Images -> Paths \cup {Null}]
    BY <2>2 DEF NoDefault, NoImage
  <2>4. Null \in SomeNames /\ Null \in SomeCompanies
    BY DEF SomeNames, RealNames, SomeCompanies
  <2> QED
    BY <2>1, <2>2, <2>3, <2>4, ContentsMade DEF Empty
<1>3. \A k \in Kinds : Empty.list[k] = <<>>
  BY DEF Empty
<1>4. NoNulls(Empty)
  BY <1>3 DEF NoNulls, Range
<1>5. Objects(value', struct')
  BY <1>1, <1>2, <1>3, <1>4, ContentsChange DEF CInv
<1> QED
  BY <1>1, <1>5, ObjectsOnly

\* Storing a name, a company or an image.
LEMMA StoreStep ==
  ASSUME CInv, NEW s \in Structs,
         \/ \E n \in Names : StoreName(s, n)
         \/ \E t \in Texts \cup {Null} : StoreCompany(s, t)
         \/ \E i \in Images, path \in Paths \cup {Null} : StoreImage(s, i, path)
  PROVE  CInv'
<1>1. UNCHANGED <<value, database>> /\ Usable(s) /\ struct[s] # Null
  BY DEF StoreName, StoreCompany, StoreImage, Usable
<1>2. struct \in [Structs -> {Null} \cup Contents] /\ struct[s] \in Contents /\ NoNulls(struct[s])
  BY <1>1 DEF CInv, Objects
<1>3. 0 \in 0..MaxRows /\ Names \subseteq [given : BOOLEAN, display : Texts \cup {Null}]
  BY ConstantsAssumption
<1>4. PICK x \in Contents : /\ struct' = [struct EXCEPT ![s] = x]
                            /\ x.list = struct[s].list /\ x.use = struct[s].use
  <2>1. ASSUME NEW n \in Names, StoreName(s, n)
        PROVE  \E x \in Contents : /\ struct' = [struct EXCEPT ![s] = x]
                                   /\ x.list = struct[s].list /\ x.use = struct[s].use
    <3> DEFINE old == struct[s].name
               name == [id |-> IF old = Null THEN 0 ELSE old.id, given |-> n.given,
                        display |-> n.display, changed |-> TRUE]
    <3>1. struct' = [struct EXCEPT ![s] = [struct[s] EXCEPT !.name = name]]
      BY <2>1 DEF StoreName
    <3>2. (IF old = Null THEN 0 ELSE old.id) \in 0..MaxRows
      BY <1>2, <1>3, ContentsFields DEF SomeNames, RealNames
    <3>3. name \in SomeNames
      BY <1>3, <3>2 DEF SomeNames, RealNames
    <3>4. [struct[s] EXCEPT !.name = name] \in Contents
      <4> HIDE DEF name
      <4> QED
        BY <1>2, <3>3, ContentsChanged
    <3>5. [struct[s] EXCEPT !.name = name].list = struct[s].list
          /\ [struct[s] EXCEPT !.name = name].use = struct[s].use
      <4> HIDE DEF name
      <4> QED
        BY <1>2 DEF Contents
    <3> QED
      BY <3>1, <3>4, <3>5
  <2>2. ASSUME NEW t \in Texts \cup {Null}, StoreCompany(s, t)
        PROVE  \E x \in Contents : /\ struct' = [struct EXCEPT ![s] = x]
                                   /\ x.list = struct[s].list /\ x.use = struct[s].use
    <3> DEFINE old == struct[s].company
               company == [id |-> IF old = Null THEN 0 ELSE old.id, text |-> t]
    <3>1. struct' = [struct EXCEPT ![s] = [struct[s] EXCEPT !.company = company]]
      BY <2>2 DEF StoreCompany
    <3>2. (IF old = Null THEN 0 ELSE old.id) \in 0..MaxRows
      BY <1>2, <1>3, ContentsFields DEF SomeCompanies
    <3>3. company \in SomeCompanies
      BY <3>2 DEF SomeCompanies
    <3>4. [struct[s] EXCEPT !.company = company] \in Contents
      <4> HIDE DEF company
      <4> QED
        BY <1>2, <3>3, ContentsChanged
    <3>5. [struct[s] EXCEPT !.company = company].list = struct[s].list
          /\ [struct[s] EXCEPT !.company = company].use = struct[s].use
      <4> HIDE DEF company
      <4> QED
        BY <1>2 DEF Contents
    <3> QED
      BY <3>1, <3>4, <3>5
  <2>3. ASSUME NEW i \in Images, NEW path \in Paths \cup {Null}, StoreImage(s, i, path)
        PROVE  \E x \in Contents : /\ struct' = [struct EXCEPT ![s] = x]
                                   /\ x.list = struct[s].list /\ x.use = struct[s].use
    <3> DEFINE image == [struct[s].image EXCEPT ![i] = path]
               changed == struct[s].changed \cup {i}
               x == [struct[s] EXCEPT !.image = image, !.changed = changed]
    <3>1. struct' = [struct EXCEPT ![s] = x]
      BY <2>3 DEF StoreImage
    <3>2. image \in [Images -> Paths \cup {Null}] /\ changed \in SUBSET Images
      BY <1>2, ContentsFields
    <3>3. x \in Contents
      <4> HIDE DEF image, changed
      <4> QED
        BY <1>2, <3>2, ContentsChanged
    <3>4. x.list = struct[s].list /\ x.use = struct[s].use
      <4> HIDE DEF image, changed
      <4> QED
        BY <1>2 DEF Contents
    <3> QED
      BY <3>1, <3>3, <3>4
  <2> QED
    BY <2>1, <2>2, <2>3
<1>5. NoNulls(x)
  BY <1>2, <1>4 DEF NoNulls
<1>6. Objects(value', struct')
  BY <1>1, <1>4, <1>5, ContentsChange DEF CInv
<1> QED
  BY <1>1, <1>6, ObjectsOnly

\* One list of a struct is replaced.
LEMMA ListChange ==
  ASSUME NEW val, NEW st, Objects(val, st), NEW new \in [Pointers -> {Null} \cup SomeValues],
         NEW s \in Structs, st[s] # Null, NEW k \in Kinds, NEW M \in Seq(0..MaxValues),
         0 \notin Range(M), Distinct(M),
         ItemSet(M) \cap (Embedded(val) \ ItemSet(st[s].list[k])) = {},
         Embedded(new) = (Embedded(val) \ ItemSet(st[s].list[k])) \cup ItemSet(M)
  PROVE  Objects(new, [st EXCEPT ![s].list[k] = M])
<1> DEFINE list == [st[s].list EXCEPT ![k] = M]
           x == [st[s] EXCEPT !.list = list]
           after == [st EXCEPT ![s].list[k] = M]
<1>1. st \in [Structs -> {Null} \cup Contents] /\ st[s] \in Contents /\ NoNulls(st[s])
  BY DEF Objects
<1>2. list \in [Kinds -> Seq(0..MaxValues)] /\ list[k] = M
      /\ \A l \in Kinds : l # k => list[l] = st[s].list[l]
  BY <1>1, ContentsFields
<1>3. after = [st EXCEPT ![s] = x]
  BY <1>1
<1>4. x \in Contents /\ x.list = list /\ x.use = st[s].use
  <2> HIDE DEF list
  <2>1. x \in Contents
    BY <1>1, <1>2, ContentsChanged
  <2>2. x.list = list /\ x.use = st[s].use
    BY <1>1 DEF Contents
  <2> QED
    BY <2>1, <2>2
<1> HIDE DEF list, x
<1>5. x # Null /\ NoNulls(x)
  <2>1. \A l \in Kinds : x.use # "merged" => 0 \notin Range(x.list[l])
    BY <1>1, <1>2, <1>4 DEF NoNulls
  <2> QED
    BY <1>4, <2>1, NullIsNone DEF NoNulls
<1>6. after \in [Structs -> {Null} \cup Contents] /\ after[s] = x
      /\ \A t \in Structs : t # s => after[t] = st[t]
  BY <1>1, <1>3, <1>4
<1> HIDE DEF after
<1>7. \A t \in Structs, l \in Kinds :
        Lists(after)[t][l] = IF t = s /\ l = k THEN M ELSE Lists(st)[t][l]
  BY <1>2, <1>4, <1>5, <1>6 DEF Lists
<1>8. Lists(st)[s][k] = st[s].list[k]
  BY DEF Lists
<1>9. OwnedBy(Lists(st), Embedded(val))
  BY DEF Objects
<1>10. OwnedBy(Lists(after), Embedded(new))
  BY <1>7, <1>8, <1>9, ListReplaced
<1>11. \A t \in Structs : after[t] # Null => NoNulls(after[t])
  BY <1>5, <1>6 DEF Objects
<1>12. Objects(new, after)
  BY <1>6, <1>10, <1>11 DEF Objects
<1> QED
  BY <1>12 DEF after

\* The items of a struct are values it has taken, and no other list has them.
LEMMA ItemsAreTaken ==
  ASSUME NEW val, NEW st, Objects(val, st), NEW s \in Structs, st[s] # Null, NEW k \in Kinds
  PROVE  /\ st[s].list[k] \in Seq(0..MaxValues) /\ Distinct(st[s].list[k])
         /\ ItemSet(st[s].list[k]) \subseteq Embedded(val)
         /\ \A p \in ItemSet(st[s].list[k]) : p \in Pointers /\ val[p] \in SomeValues /\ val[p].embedded
<1>1. st[s] \in Contents /\ st[s].list[k] \in Seq(0..MaxValues)
  BY ContentsFields DEF Objects
<1>2. Lists(st)[s][k] = st[s].list[k]
  BY DEF Lists
<1>3. Distinct(st[s].list[k]) /\ ItemSet(st[s].list[k]) \subseteq Embedded(val)
  BY <1>2 DEF Objects, OwnedBy
<1>4. \A p \in Embedded(val) : p \in Pointers /\ val[p] \in SomeValues /\ val[p].embedded
  BY DEF Embedded, Objects
<1> QED
  BY <1>1, <1>3, <1>4

LEMMA FreeStructStep ==
  ASSUME CInv, NEW s \in Structs, FreeStruct(s)
  PROVE  CInv'
<1> DEFINE freed == {p \in ItemsOf(s) : value[p] # Null /\ value[p].embedded}
           old == Lists(struct)
           new == Lists(struct')
<1>1. /\ struct[s] # Null /\ value' = Freed(value, freed) /\ struct' = [struct EXCEPT ![s] = Null]
      /\ UNCHANGED database
  <2>1. UNCHANGED database /\ struct[s] # Null /\ struct' = [struct EXCEPT ![s] = Null]
    BY DEF FreeStruct
  <2>2. value' = Freed(value, freed)
    BY DEF FreeStruct
  <2> QED
    BY <2>1, <2>2
<1>2. Objects(value, struct) /\ OwnedBy(old, Embedded(value))
      /\ value \in [Pointers -> {Null} \cup SomeValues] /\ struct \in [Structs -> {Null} \cup Contents]
  BY DEF CInv, Objects
<1>3. struct' \in [Structs -> {Null} \cup Contents] /\ struct'[s] = Null
      /\ \A t \in Structs : t # s => struct'[t] = struct[t]
  BY <1>1, <1>2
<1>4. \A t \in Structs, l \in Kinds : new[t][l] = IF t = s THEN <<>> ELSE old[t][l]
  BY <1>3 DEF Lists
<1>5. \A k \in Kinds : old[s][k] = struct[s].list[k]
  BY <1>1 DEF Lists
<1>6. \A p : p \in ItemsOf(s) <=> \E k \in Kinds : p \in ItemSet(old[s][k])
  <2> HIDE DEF old
  <2>1. \A k \in Kinds : ItemSet(old[s][k]) = Range(struct[s].list[k]) \ {0}
    BY <1>5 DEF ItemSet
  <2>2. ASSUME NEW p, p \in ItemsOf(s)
        PROVE  p # 0 /\ \E k \in Kinds : p \in Range(struct[s].list[k])
    BY <2>2, Zenon DEF ItemsOf
  <2>3. ASSUME NEW p, p # 0, NEW k \in Kinds, p \in Range(struct[s].list[k])
        PROVE  p \in ItemsOf(s)
    BY <2>3, Zenon DEF ItemsOf
  <2> QED
    BY <2>1, <2>2, <2>3
<1>7. ItemsOf(s) \subseteq Embedded(value)
  <2>1. \A k \in Kinds : ItemSet(old[s][k]) \subseteq Embedded(value)
    BY <1>2 DEF OwnedBy
  <2> QED
    BY <1>6, <2>1
<1>8. freed = ItemsOf(s)
  BY <1>7 DEF Embedded
<1>9. value' \in [Pointers -> {Null} \cup SomeValues]
      /\ Embedded(value') = Embedded(value) \ ItemsOf(s)
  <2>1. \A p \in Pointers : value'[p] = IF p \in ItemsOf(s) THEN Null ELSE value[p]
    BY <1>1, <1>8 DEF Freed
  <2>2. value' \in [Pointers -> {Null} \cup SomeValues]
    BY <1>1, <1>2 DEF Freed
  <2>3. Embedded(value') = Embedded(value) \ ItemsOf(s)
    BY <2>1 DEF Embedded
  <2> QED
    BY <2>2, <2>3
<1>10. OwnedBy(new, Embedded(value'))
  <2> HIDE DEF old, new, freed
  <2>1. \A p : p \in Embedded(value')
               <=> p \in Embedded(value) /\ \A k \in Kinds : p \notin ItemSet(old[s][k])
    BY <1>6, <1>9
  <2> QED
    BY <1>2, <1>4, <2>1, StructEmptied
<1>11. \A t \in Structs : struct'[t] # Null => NoNulls(struct'[t])
  BY <1>2, <1>3 DEF Objects
<1>12. Objects(value', struct')
  BY <1>3, <1>9, <1>10, <1>11 DEF Objects
<1> QED
  BY <1>1, <1>12, ObjectsOnly

\* Values that are taken, and values that go.
LEMMA EmbedTakes ==
  ASSUME NEW val \in [Pointers -> {Null} \cup SomeValues], NEW taken \in SUBSET Pointers,
         \A p \in taken : val[p] # Null
  PROVE  /\ Embed(val, taken) \in [Pointers -> {Null} \cup SomeValues]
         /\ Embedded(Embed(val, taken)) = Embedded(val) \cup taken
<1>1. \A p \in taken : val[p] \in SomeValues
  OBVIOUS
<1>2. \A p \in taken : [val[p] EXCEPT !.embedded = TRUE] \in SomeValues
                       /\ [val[p] EXCEPT !.embedded = TRUE].embedded
  BY <1>1, ValueChanged
<1>3. Embed(val, taken) \in [Pointers -> {Null} \cup SomeValues]
  BY <1>2 DEF Embed
<1>4. \A p \in Pointers :
        Embed(val, taken)[p] = IF p \in taken THEN [val[p] EXCEPT !.embedded = TRUE] ELSE val[p]
  BY DEF Embed
<1>5. Null \notin SomeValues
  BY NullIsNone DEF SomeValues
<1>6. Embedded(Embed(val, taken)) = Embedded(val) \cup taken
  BY <1>2, <1>4, <1>5 DEF Embedded
<1> QED
  BY <1>3, <1>6

LEMMA FreedGoes ==
  ASSUME NEW val \in [Pointers -> {Null} \cup SomeValues], NEW gone
  PROVE  /\ Freed(val, gone) \in [Pointers -> {Null} \cup SomeValues]
         /\ Embedded(Freed(val, gone)) = Embedded(val) \ gone
<1>1. Freed(val, gone) \in [Pointers -> {Null} \cup SomeValues]
  BY DEF Freed
<1>2. \A p \in Pointers : Freed(val, gone)[p] = IF p \in gone THEN Null ELSE val[p]
  BY DEF Freed
<1>3. Embedded(Freed(val, gone)) = Embedded(val) \ gone
  BY <1>2 DEF Embedded
<1> QED
  BY <1>1, <1>3

LEMMA PointersAreNumbers == Pointers \subseteq 0..MaxValues /\ 0 \notin Pointers
BY ConstantsAssumption DEF Pointers

\* List M is items of the list old, in its order, and then the values taken.
Extends(M, old, taken) ==
  \A i, j \in DOMAIN M : i < j /\ M[j] \notin taken =>
    \E g, h \in DOMAIN old : g < h /\ old[g] = M[i] /\ old[h] = M[j]

LEMMA ConcatExtends ==
  ASSUME NEW T, NEW old \in Seq(T), NEW S \in SUBSET DOMAIN old, NEW left, left = Sublist(old, S),
         NEW more \in Seq(T)
  PROVE  Extends(left \o more, old, Range(more))
<1> DEFINE M == left \o more
<1>1. /\ left \in Seq(T) /\ DOMAIN left = 1..Cardinality(S) /\ Len(left) = Cardinality(S)
      /\ \A n \in 1..Cardinality(S) : Nth(S, n) \in S /\ left[n] = old[Nth(S, n)]
      /\ \A l, m \in 1..Cardinality(S) : l < m => Nth(S, l) < Nth(S, m)
  BY SublistProperties
<1>2. /\ Len(left) \in Nat /\ Len(more) \in Nat /\ DOMAIN M = 1..(Len(left) + Len(more))
      /\ \A i \in 1..Len(left) : M[i] = left[i]
      /\ \A i \in DOMAIN M : i > Len(left) => i - Len(left) \in 1..Len(more) /\ M[i] = more[i - Len(left)]
  BY <1>1, LenProperties
<1>3. \A n \in 1..Len(more) : more[n] \in Range(more)
  BY LenProperties DEF Range
<1> HIDE DEF M
<1> SUFFICES ASSUME NEW i \in DOMAIN M, NEW j \in DOMAIN M, i < j, M[j] \notin Range(more)
             PROVE  \E g, h \in DOMAIN old : g < h /\ old[g] = M[i] /\ old[h] = M[j]
  BY DEF Extends, M
<1>4. i \in 1..Len(left) /\ j \in 1..Len(left)
  BY <1>2, <1>3
<1> DEFINE g == Nth(S, i)
           h == Nth(S, j)
<1>5. g \in DOMAIN old /\ h \in DOMAIN old /\ g < h /\ old[g] = M[i] /\ old[h] = M[j]
  BY <1>1, <1>2, <1>4
<1> HIDE DEF g, h
<1> QED
  BY <1>5

\* Every item of a list is a part of it.
LEMMA WholeExtends ==
  ASSUME NEW T, NEW old \in Seq(T), NEW more \in Seq(T)
  PROVE  Extends(old \o more, old, Range(more))
<1> DEFINE M == old \o more
<1>2. /\ Len(old) \in Nat /\ Len(more) \in Nat /\ DOMAIN M = 1..(Len(old) + Len(more)) /\ DOMAIN old = 1..Len(old)
      /\ \A i \in 1..Len(old) : M[i] = old[i]
      /\ \A i \in DOMAIN M : i > Len(old) => i - Len(old) \in 1..Len(more) /\ M[i] = more[i - Len(old)]
  BY LenProperties
<1>3. \A n \in 1..Len(more) : more[n] \in Range(more)
  BY LenProperties DEF Range
<1> HIDE DEF M
<1> SUFFICES ASSUME NEW i \in DOMAIN M, NEW j \in DOMAIN M, i < j, M[j] \notin Range(more)
             PROVE  \E g, h \in DOMAIN old : g < h /\ old[g] = M[i] /\ old[h] = M[j]
  BY DEF Extends, M
<1>4. i \in DOMAIN old /\ j \in DOMAIN old /\ old[i] = M[i] /\ old[j] = M[j]
  BY <1>2, <1>3
<1> QED
  BY <1>4

\* Values are added to a list of a struct, and some of its items leave it.
ListStored(s, k, M, gone, taken) ==
  /\ struct[s] # Null /\ struct[s].use # "merged" /\ struct' = [struct EXCEPT ![s].list[k] = M]
  /\ M \in Seq(0..MaxValues) /\ Distinct(M) /\ 0 \notin Range(M)
  /\ ItemSet(M) = (ItemSet(struct[s].list[k]) \ gone) \cup taken
  /\ gone \subseteq ItemSet(struct[s].list[k]) /\ Extends(M, struct[s].list[k], taken)
  /\ \A p \in taken : p \in Pointers /\ value[p] # Null /\ p \notin Embedded(value)
  /\ value' = Freed(Embed(value, taken), gone)
  /\ UNCHANGED database

LEMMA ListStoredStep ==
  ASSUME CInv, NEW s \in Structs, NEW k \in Kinds, NEW M, NEW gone, NEW taken, ListStored(s, k, M, gone, taken)
  PROVE  CInv'
<1> DEFINE old == struct[s].list[k]
           E == Embedded(value)
           val == Embed(value, taken)
<1>1. /\ struct[s] # Null /\ struct' = [struct EXCEPT ![s].list[k] = M]
      /\ M \in Seq(0..MaxValues) /\ Distinct(M) /\ 0 \notin Range(M)
      /\ ItemSet(M) = (ItemSet(old) \ gone) \cup taken /\ gone \subseteq ItemSet(old)
      /\ taken \subseteq Pointers /\ taken \cap E = {} /\ (\A p \in taken : value[p] # Null)
      /\ value' = Freed(val, gone) /\ UNCHANGED database
  BY DEF ListStored
<1>2. Objects(value, struct) /\ value \in [Pointers -> {Null} \cup SomeValues]
  BY DEF CInv, Objects
<1>3. ItemSet(old) \subseteq E
  BY <1>1, <1>2, ItemsAreTaken
<1>4. val \in [Pointers -> {Null} \cup SomeValues] /\ Embedded(val) = E \cup taken
  BY <1>1, <1>2, EmbedTakes
<1> HIDE DEF val
<1>5. value' \in [Pointers -> {Null} \cup SomeValues] /\ Embedded(value') = (E \cup taken) \ gone
  BY <1>1, <1>4, FreedGoes
<1> HIDE DEF E
<1>6. ItemSet(M) \cap (E \ ItemSet(old)) = {} /\ Embedded(value') = (E \ ItemSet(old)) \cup ItemSet(M)
  BY <1>1, <1>3, <1>5
<1>7. Objects(value', struct')
  BY <1>1, <1>2, <1>5, <1>6, ListChange DEF E
<1> QED
  BY <1>1, <1>7, ObjectsOnly

LEMMA StoreOwnStored ==
  ASSUME CInv, NEW s \in Structs, NEW k \in Kinds, NEW added \in {<<>>} \cup {<<p>> : p \in Loose(k)},
         StoreOwn(s, k, added)
  PROVE  \E M : ListStored(s, k, M, Dropped(s, k), Range(added))
<1> DEFINE old == struct[s].list[k]
           dropped == Dropped(s, k)
           kept == {i \in DOMAIN old : old[i] \notin dropped}
           left == Sublist(old, kept)
           M == left \o added
           E == Embedded(value)
<1>1. /\ Usable(s) /\ value' = Freed(Embed(value, Range(added)), dropped)
      /\ struct' = [struct EXCEPT ![s].list[k] = M] /\ UNCHANGED database
  <2>1. Usable(s) /\ UNCHANGED database
    BY DEF StoreOwn
  <2>2. value' = Freed(Embed(value, Range(added)), dropped)
        /\ struct' = [struct EXCEPT ![s].list[k] = M]
    BY DEF StoreOwn
  <2> QED
    BY <2>1, <2>2
<1>2. Objects(value, struct) /\ struct[s] # Null /\ struct[s].use # "merged" /\ NoNulls(struct[s])
      /\ value \in [Pointers -> {Null} \cup SomeValues]
  BY <1>1 DEF CInv, Objects, Usable
<1>3. old \in Seq(0..MaxValues) /\ Distinct(old) /\ ItemSet(old) \subseteq E /\ 0 \notin Range(old)
  BY <1>2, ItemsAreTaken DEF NoNulls
<1>4. dropped \subseteq ItemSet(old)
  BY DEF Dropped, ItemSet
<1>5. /\ added \in Seq(0..MaxValues) /\ Distinct(added) /\ Range(added) \subseteq Pointers
      /\ 0 \notin Range(added) /\ ItemSet(added) = Range(added) /\ Range(added) \cap E = {}
      /\ \A p \in Range(added) : value[p] # Null
  <2>1. CASE added = <<>>
    <3>1. Range(added) = {}
      BY <2>1 DEF Range
    <3>2. added \in Seq(0..MaxValues)
      BY <2>1
    <3> QED
      BY <2>1, <3>1, <3>2 DEF Distinct, ItemSet
  <2>2. ASSUME NEW p \in Loose(k), added = <<p>>
        PROVE  /\ added \in Seq(0..MaxValues) /\ Distinct(added) /\ Range(added) = {p}
               /\ p \in Pointers /\ p \notin E /\ value[p] # Null
    <3>1. p \in Pointers /\ p \notin E /\ value[p] # Null
      BY DEF Loose, Embedded
    <3>2. p \in 0..MaxValues
      BY <3>1, PointersAreNumbers
    <3>3. DOMAIN added = {1} /\ added[1] = p /\ added \in Seq(0..MaxValues)
      BY <2>2, <3>2
    <3>4. Range(added) = {p} /\ Distinct(added)
      BY <3>3 DEF Range, Distinct
    <3> QED
      BY <3>1, <3>3, <3>4
  <2> QED
    BY <2>1, <2>2, PointersAreNumbers DEF ItemSet
<1>6. kept \in SUBSET DOMAIN old
  OBVIOUS
<1> HIDE DEF kept
<1>7. /\ left \in Seq(0..MaxValues) /\ Distinct(left) /\ Range(left) = {old[i] : i \in kept}
  BY <1>3, <1>6, SublistProperties, SublistItems, SublistDistinct
<1>order. Extends(M, old, Range(added))
  BY <1>3, <1>5, <1>6, ConcatExtends
<1>8. Range(left) = ItemSet(old) \ dropped /\ ItemSet(left) = Range(left)
  <2>1. {old[i] : i \in kept} = Range(old) \ dropped
    BY DEF kept, Range
  <2> QED
    BY <1>3, <1>7, <2>1 DEF ItemSet
<1> HIDE DEF left, dropped, E
<1>9. ItemSet(left) \cap ItemSet(added) = {}
  BY <1>3, <1>5, <1>8
<1>10. M \in Seq(0..MaxValues) /\ Distinct(M) /\ Range(M) = Range(left) \cup Range(added)
  BY <1>5, <1>7, <1>9, ConcatItems
<1>11. ItemSet(M) = (ItemSet(old) \ dropped) \cup Range(added) /\ 0 \notin Range(M)
  BY <1>3, <1>5, <1>8, <1>10 DEF ItemSet
<1>12. ListStored(s, k, M, dropped, Range(added))
  <2> HIDE DEF M
  <2>1. \A p \in Range(added) : p \in Pointers /\ value[p] # Null /\ p \notin E
    BY <1>5
  <2> QED
    BY <1>1, <1>2, <1>4, <1>10, <1>11, <1>order, <2>1 DEF ListStored, E
<1> QED
  BY <1>12 DEF dropped

LEMMA StoreOwnStep ==
  ASSUME CInv, NEW s \in Structs, NEW k \in Kinds, NEW added \in {<<>>} \cup {<<p>> : p \in Loose(k)},
         StoreOwn(s, k, added)
  PROVE  CInv'
BY StoreOwnStored, ListStoredStep

\* The list a program makes has one value or two.
LEMMA StoreListStored ==
  ASSUME CInv, NEW s \in Structs, NEW k \in Kinds, NEW p \in OfKind(k), NEW q \in OfKind(k),
         StoreList(s, k, IF p = q THEN <<p>> ELSE <<p, q>>)
  PROVE  \E M, taken : ListStored(s, k, M, {}, taken)
<1> DEFINE list == IF p = q THEN <<p>> ELSE <<p, q>>
           old == struct[s].list[k]
           free == {i \in DOMAIN list : ~value[list[i]].embedded}
           new == Sublist(list, free)
           M == old \o new
           E == Embedded(value)
<1>1. /\ Usable(s) /\ value' = Embed(value, Range(new))
      /\ struct' = [struct EXCEPT ![s].list[k] = M] /\ UNCHANGED database
  <2>1. Usable(s) /\ UNCHANGED database
    BY DEF StoreList
  <2>2. NotStored(list) = new
    BY DEF NotStored
  <2>3. value' = Embed(value, Range(NotStored(list)))
        /\ struct' = [struct EXCEPT ![s].list[k] = @ \o NotStored(list)]
    BY DEF StoreList
  <2> QED
    BY <2>1, <2>2, <2>3
<1>2. Objects(value, struct) /\ struct[s] # Null /\ struct[s].use # "merged" /\ NoNulls(struct[s])
      /\ value \in [Pointers -> {Null} \cup SomeValues]
  BY <1>1 DEF CInv, Objects, Usable
<1>3. old \in Seq(0..MaxValues) /\ Distinct(old) /\ ItemSet(old) \subseteq E /\ 0 \notin Range(old)
  BY <1>2, ItemsAreTaken DEF NoNulls
<1>4. p \in Pointers /\ q \in Pointers /\ value[p] # Null /\ value[q] # Null
  BY DEF OfKind
<1>5. /\ list \in Seq(0..MaxValues) /\ Distinct(list)
      /\ \A i \in DOMAIN list : list[i] \in Pointers /\ value[list[i]] # Null
  <2>1. p \in 0..MaxValues /\ q \in 0..MaxValues
    BY <1>4, PointersAreNumbers
  <2>2. CASE p = q
    <3>1. list = <<p>> /\ DOMAIN list = {1} /\ list[1] = p /\ list \in Seq(0..MaxValues)
      BY <2>1, <2>2
    <3> QED
      BY <1>4, <3>1 DEF Distinct
  <2>3. CASE p # q
    <3>1. list = <<p, q>> /\ DOMAIN list = {1, 2} /\ list[1] = p /\ list[2] = q
          /\ list \in Seq(0..MaxValues)
      BY <2>1, <2>3
    <3> QED
      BY <1>4, <2>3, <3>1 DEF Distinct
  <2> QED
    BY <2>2, <2>3
<1>6. free \in SUBSET DOMAIN list
  OBVIOUS
<1> HIDE DEF list
<1>7. /\ new \in Seq(0..MaxValues) /\ Distinct(new) /\ Range(new) = {list[i] : i \in free}
  <2> HIDE DEF free
  <2> QED
    BY <1>5, <1>6, SublistProperties, SublistItems, SublistDistinct
<1>8. Range(new) \subseteq Pointers /\ Range(new) \cap E = {} /\ \A x \in Range(new) : value[x] # Null
  <2>1. \A i \in free : list[i] \in Pointers /\ value[list[i]] # Null /\ list[i] \notin E
    BY <1>5 DEF Embedded
  <2> HIDE DEF free, E
  <2> QED
    BY <1>7, <2>1
<1>9. ItemSet(new) = Range(new) /\ 0 \notin Range(new)
  BY <1>8, PointersAreNumbers DEF ItemSet
<1>10. ItemSet(old) \cap ItemSet(new) = {}
  <2> HIDE DEF new, E
  <2> QED
    BY <1>3, <1>8, <1>9
<1> HIDE DEF new, E
<1>11. M \in Seq(0..MaxValues) /\ Distinct(M) /\ Range(M) = Range(old) \cup Range(new)
  BY <1>3, <1>7, <1>10, ConcatItems
<1>12. ItemSet(M) = ItemSet(old) \cup Range(new) /\ 0 \notin Range(M)
  BY <1>3, <1>9, <1>11 DEF ItemSet
<1>order. Extends(M, old, Range(new))
  BY <1>3, <1>7, WholeExtends
<1>13. value' = Freed(Embed(value, Range(new)), {})
  BY <1>1 DEF Freed, Embed
<1>14. ListStored(s, k, M, {}, Range(new))
  <2> HIDE DEF M
  <2>1. \A x \in Range(new) : x \in Pointers /\ value[x] # Null /\ x \notin E
    BY <1>8
  <2> QED
    BY <1>1, <1>2, <1>11, <1>12, <1>13, <1>order, <2>1 DEF ListStored, E
<1> QED
  BY <1>14

LEMMA StoreListStep ==
  ASSUME CInv, NEW s \in Structs, NEW k \in Kinds, NEW p \in OfKind(k), NEW q \in OfKind(k),
         StoreList(s, k, IF p = q THEN <<p>> ELSE <<p, q>>)
  PROVE  CInv'
BY StoreListStored, ListStoredStep

-----------------------------------------------------------------------------
(* contacts_svc_struct_merge and contacts_svc_struct_duplicate.             *)

\* Two lists share out the items they have.
LEMMA MergedLists ==
  ASSUME NEW a \in Seq(0..MaxValues), NEW b \in Seq(0..MaxValues), Distinct(a), Distinct(b),
         ItemSet(a) \cap ItemSet(b) = {}, 0 \notin Range(a), 0 \notin Range(b),
         NEW o, NEW r, [orig |-> o, rest |-> r] = MergeList(a, b)
  PROVE  /\ o \in Seq(0..MaxValues) /\ r \in Seq(0..MaxValues) /\ Distinct(o) /\ Distinct(r)
         /\ ItemSet(o) \cap ItemSet(r) = {} /\ ItemSet(o) \cup ItemSet(r) = ItemSet(a) \cup ItemSet(b)
         /\ 0 \notin Range(o) /\ ItemSet(a) \subseteq ItemSet(o) /\ Extends(o, a, ItemSet(b))
<1> DEFINE moved == Moves(a, b)
           taken == Sublist(b, moved)
<1>1. <<>> \in Seq(0..MaxValues) /\ Distinct(<<>>) /\ ItemSet(<<>>) = {}
  BY DEF Distinct, ItemSet, Range
<1>2. CASE a = <<>>
  <2>1. o = b /\ r = <<>>
    BY <1>2 DEF MergeList
  <2>2. \A j \in DOMAIN o : o[j] \in ItemSet(b)
    BY <2>1 DEF ItemSet, Range
  <2>3. Extends(o, a, ItemSet(b))
    BY <2>2 DEF Extends
  <2> QED
    BY <1>1, <1>2, <2>1, <2>3
<1>3. CASE a # <<>>
  <2>1. o = a \o taken /\ r = Rest(b, moved)
    BY <1>3 DEF MergeList
  <2>2. moved \in SUBSET DOMAIN b
    BY DEF Moves
  <2> HIDE DEF moved
  <2>3. taken \in Seq(0..MaxValues) /\ Distinct(taken) /\ Range(taken) = {b[i] : i \in moved}
    <3>1. taken \in Seq(0..MaxValues)
      BY <2>2, SublistProperties
    <3>2. Distinct(taken)
      BY <2>2, SublistDistinct
    <3>3. Range(taken) = {b[i] : i \in moved}
      BY <2>2, SublistItems
    <3> QED
      BY <3>1, <3>2, <3>3
  <2> HIDE DEF taken
  <2>4. /\ Len(b) \in Nat /\ DOMAIN b = 1..Len(b) /\ \A i \in DOMAIN b : b[i] \in 0..MaxValues
    <3>1. Len(b) \in Nat /\ DOMAIN b = 1..Len(b)
      BY LenProperties
    <3>2. \A i \in 1..Len(b) : b[i] \in 0..MaxValues
      BY ElementOfSeq
    <3> QED
      BY <3>1, <3>2
  <2>5. 0 \in 0..MaxValues
    BY ConstantsAssumption
  <2>6. DOMAIN r = DOMAIN b /\ \A i \in DOMAIN b : r[i] = IF i \in moved THEN 0 ELSE b[i]
    BY <2>1 DEF Rest
  <2>7. r \in Seq(0..MaxValues)
    <3>1. r = [i \in 1..Len(b) |-> IF i \in moved THEN 0 ELSE b[i]]
      BY <2>1, <2>4 DEF Rest
    <3>2. \A i \in 1..Len(b) : (IF i \in moved THEN 0 ELSE b[i]) \in 0..MaxValues
      BY <2>4, <2>5
    <3> QED
      BY <2>4, <3>1, <3>2, IsASeq
  <2>8. \A p : p \in ItemSet(r) <=> p # 0 /\ \E i \in DOMAIN b : i \notin moved /\ b[i] = p
    BY <2>6 DEF ItemSet, Range
  <2>9. \A p : p \in ItemSet(taken) <=> p # 0 /\ \E i \in moved : b[i] = p
    BY <2>3 DEF ItemSet
  <2>10. \A p : p \in ItemSet(b) <=> p # 0 /\ \E i \in DOMAIN b : b[i] = p
    BY DEF ItemSet, Range
  <2>11. ItemSet(taken) \cap ItemSet(r) = {} /\ ItemSet(taken) \cup ItemSet(r) = ItemSet(b)
    <3>1. ItemSet(taken) \cap ItemSet(r) = {}
      BY <2>2, <2>8, <2>9 DEF Distinct
    <3>2. ItemSet(taken) \cup ItemSet(r) = ItemSet(b)
      BY <2>2, <2>8, <2>9, <2>10
    <3> QED
      BY <3>1, <3>2
  <2>12. Distinct(r)
    BY <2>6 DEF Distinct
  <2>13. ItemSet(a) \cap ItemSet(taken) = {}
    BY <2>11
  <2>14. o \in Seq(0..MaxValues) /\ Distinct(o) /\ Range(o) = Range(a) \cup Range(taken)
    BY <2>1, <2>3, <2>13, ConcatItems
  <2>15. ItemSet(o) = ItemSet(a) \cup ItemSet(taken)
    BY <2>14 DEF ItemSet
  <2>16. 0 \notin Range(taken)
    BY <2>2, <2>3 DEF Range
  <2>17. Extends(o, a, ItemSet(b))
    <3>1. Extends(o, a, Range(taken))
      BY <2>1, <2>3, WholeExtends
    <3>2. Range(taken) \subseteq ItemSet(b)
      BY <2>11, <2>16 DEF ItemSet
    <3> QED
      BY <3>1, <3>2 DEF Extends
  <2> QED
    BY <2>7, <2>11, <2>12, <2>14, <2>15, <2>16, <2>17
<1> QED
  BY <1>2, <1>3

LEMMA MergedFields ==
  ASSUME NEW a \in Contents, NEW b \in Contents
  PROVE  /\ MergeName(a.name, b.name) \in SomeNames
         /\ MergeCompany(a.company, b.company) \in SomeCompanies
         /\ MergeImages(a, b) \in [Images -> Paths \cup {Null}]
         /\ MergeChanged(a, b) \in SUBSET Images
<1>1. MergeName(a.name, b.name) \in SomeNames
  <2>1. a.name \in SomeNames /\ b.name \in SomeNames
    BY ContentsFields
  <2>2. ASSUME NEW n \in SomeNames, NEW m \in SomeNames, n # Null, m # Null
        PROVE  MergeName(n, m) \in SomeNames
    <3> DEFINE given == n.given \/ m.given
               display == IF n.display = Null THEN m.display ELSE n.display
               changed == n.changed \/ (~n.given /\ m.given) \/ (n.display = Null /\ m.display # Null)
    <3>1. MergeName(n, m) = [n EXCEPT !.given = given, !.display = display, !.changed = changed]
      BY <2>2 DEF MergeName
    <3>2. given \in BOOLEAN /\ changed \in BOOLEAN /\ display \in Texts \cup {Null}
      BY <2>2 DEF SomeNames, RealNames
    <3> HIDE DEF given, display, changed
    <3> QED
      BY <2>2, <3>1, <3>2 DEF SomeNames, RealNames
  <2>3. ASSUME NEW n \in SomeNames, NEW m \in SomeNames, n = Null \/ m = Null
        PROVE  MergeName(n, m) \in SomeNames
    BY <2>3 DEF MergeName
  <2> QED
    BY <2>1, <2>2, <2>3
<1>2. MergeCompany(a.company, b.company) \in SomeCompanies
  <2>1. a.company \in SomeCompanies /\ b.company \in SomeCompanies
    BY ContentsFields
  <2>2. ASSUME NEW c \in SomeCompanies, NEW d \in SomeCompanies, c # Null, d # Null
        PROVE  MergeCompany(c, d) \in SomeCompanies
    <3> DEFINE text == IF c.text = Null THEN d.text ELSE c.text
    <3>1. MergeCompany(c, d) = [c EXCEPT !.text = text]
      BY <2>2 DEF MergeCompany
    <3>2. text \in Texts \cup {Null}
      BY <2>2 DEF SomeCompanies
    <3> HIDE DEF text
    <3> QED
      BY <2>2, <3>1, <3>2 DEF SomeCompanies
  <2>3. ASSUME NEW c \in SomeCompanies, NEW d \in SomeCompanies, c = Null \/ d = Null
        PROVE  MergeCompany(c, d) \in SomeCompanies
    BY <2>3 DEF MergeCompany
  <2> QED
    BY <2>1, <2>2, <2>3
<1>3. MergeImages(a, b) \in [Images -> Paths \cup {Null}]
  BY ContentsFields DEF MergeImages
<1>4. MergeChanged(a, b) \in SUBSET Images
  BY ContentsFields DEF MergeChanged
<1> QED
  BY <1>1, <1>2, <1>3, <1>4

\* Struct s becomes x, which takes items of struct t, and that becomes y.
Merged(s, t, x, y) ==
  LET a == struct[s]
      b == struct[t] IN
  /\ Usable(s) /\ Usable(t) /\ s # t /\ UNCHANGED <<value, database>>
  /\ struct' = [struct EXCEPT ![s] = x, ![t] = y] /\ x \in Contents /\ y \in Contents
  /\ x.base = (IF a.base = 0 THEN b.base ELSE a.base) /\ x.def = a.def
  /\ x.name = MergeName(a.name, b.name) /\ x.company = MergeCompany(a.company, b.company)
  /\ x.use = (IF b.use = "new" THEN a.use ELSE "spent") /\ y.use = "merged"
  /\ \A k \in Kinds :
       /\ Distinct(x.list[k]) /\ Distinct(y.list[k]) /\ ItemSet(x.list[k]) \cap ItemSet(y.list[k]) = {}
       /\ ItemSet(x.list[k]) \cup ItemSet(y.list[k]) = ItemSet(a.list[k]) \cup ItemSet(b.list[k])
       /\ 0 \notin Range(x.list[k]) /\ ItemSet(a.list[k]) \subseteq ItemSet(x.list[k])
       /\ Extends(x.list[k], a.list[k], ItemSet(b.list[k]))

LEMMA MergeMerges ==
  ASSUME CInv, NEW s \in Structs, NEW t \in Structs, Merge(s, t)
  PROVE  \E x, y : Merged(s, t, x, y)
<1> DEFINE a == struct[s]
           b == struct[t]
           E == Embedded(value)
           merged(k) == MergeList(a.list[k], b.list[k])
           orig == [k \in Kinds |-> merged(k).orig]
           rest == [k \in Kinds |-> merged(k).rest]
           use == IF b.use = "new" THEN a.use ELSE "spent"
           x == [base |-> IF a.base = 0 THEN b.base ELSE a.base,
                 name |-> MergeName(a.name, b.name), company |-> MergeCompany(a.company, b.company),
                 list |-> orig, def |-> a.def,
                 image |-> MergeImages(a, b), changed |-> MergeChanged(a, b), use |-> use]
           y == [b EXCEPT !.list = rest, !.use = "merged"]
<1>1. Usable(s) /\ Usable(t) /\ s # t /\ UNCHANGED <<value, database>>
  BY DEF Merge
<1>2. struct \in [Structs -> {Null} \cup Contents] /\ Objects(value, struct)
      /\ OwnedBy(Lists(struct), E)
  BY DEF CInv, Objects
<1>3. /\ a \in Contents /\ b \in Contents /\ a # Null /\ b # Null
      /\ NoNulls(a) /\ NoNulls(b) /\ a.use # "merged" /\ b.use # "merged"
  BY <1>1 DEF CInv, Objects, Usable
<1>4. struct' = [struct EXCEPT ![s] = x, ![t] = y]
  <2>1. struct' = [struct EXCEPT ![s] = x, ![t].list = rest, ![t].use = "merged"]
    <3>1. \A k \in Kinds : [l \in Kinds |-> MergeList(a.list[l], b.list[l])][k] = merged(k)
      OBVIOUS
    <3>2. [k \in Kinds |-> [l \in Kinds |-> MergeList(a.list[l], b.list[l])][k].orig] = orig
          /\ [k \in Kinds |-> [l \in Kinds |-> MergeList(a.list[l], b.list[l])][k].rest] = rest
      BY <3>1
    <3> QED
      BY <3>2 DEF Merge
  <2> HIDE DEF x, rest
  <2> QED
    BY <1>1, <1>2, <2>1
<1>5. ASSUME NEW k \in Kinds
      PROVE  /\ orig[k] \in Seq(0..MaxValues) /\ rest[k] \in Seq(0..MaxValues)
             /\ Distinct(orig[k]) /\ Distinct(rest[k]) /\ ItemSet(orig[k]) \cap ItemSet(rest[k]) = {}
             /\ ItemSet(orig[k]) \cup ItemSet(rest[k]) = ItemSet(a.list[k]) \cup ItemSet(b.list[k])
             /\ 0 \notin Range(orig[k]) /\ ItemSet(a.list[k]) \subseteq ItemSet(orig[k])
             /\ Extends(orig[k], a.list[k], ItemSet(b.list[k]))
  <2>1. /\ a.list[k] \in Seq(0..MaxValues) /\ Distinct(a.list[k])
        /\ b.list[k] \in Seq(0..MaxValues) /\ Distinct(b.list[k])
    BY <1>2, <1>3, ItemsAreTaken
  <2>2. 0 \notin Range(a.list[k]) /\ 0 \notin Range(b.list[k])
    BY <1>3 DEF NoNulls
  <2>3. ItemSet(a.list[k]) \cap ItemSet(b.list[k]) = {}
    <3>1. Lists(struct)[s][k] = a.list[k] /\ Lists(struct)[t][k] = b.list[k]
      BY <1>3 DEF Lists
    <3> QED
      BY <1>1, <1>2, <3>1, Apart
  <2> DEFINE A == a.list[k]
             B == b.list[k]
  <2>4. [orig |-> orig[k], rest |-> rest[k]] = MergeList(A, B)
    <3>1. orig[k] = MergeList(A, B).orig /\ rest[k] = MergeList(A, B).rest
      OBVIOUS
    <3>2. MergeList(A, B) = [orig |-> MergeList(A, B).orig, rest |-> MergeList(A, B).rest]
      BY DEF MergeList
    <3> HIDE DEF orig, rest, A, B
    <3> QED
      BY <3>1, <3>2
  <2>5. /\ A \in Seq(0..MaxValues) /\ B \in Seq(0..MaxValues) /\ Distinct(A) /\ Distinct(B)
        /\ ItemSet(A) \cap ItemSet(B) = {} /\ 0 \notin Range(A) /\ 0 \notin Range(B)
    BY <2>1, <2>2, <2>3
  <2> DEFINE o == orig[k]
             r == rest[k]
  <2>6. /\ o \in Seq(0..MaxValues) /\ r \in Seq(0..MaxValues) /\ Distinct(o) /\ Distinct(r)
        /\ ItemSet(o) \cap ItemSet(r) = {} /\ ItemSet(o) \cup ItemSet(r) = ItemSet(A) \cup ItemSet(B)
        /\ 0 \notin Range(o) /\ ItemSet(A) \subseteq ItemSet(o) /\ Extends(o, A, ItemSet(B))
    <3>1. [orig |-> o, rest |-> r] = MergeList(A, B)
      BY <2>4
    <3> HIDE DEF o, r, A, B
    <3> QED
      BY <2>5, <3>1, MergedLists
  <2> QED
    BY <2>6
<1>6. orig \in [Kinds -> Seq(0..MaxValues)] /\ rest \in [Kinds -> Seq(0..MaxValues)]
  BY <1>5
<1>7. x \in Contents /\ x.list = orig /\ x.use = use /\ x.use # "merged"
  <2>1. /\ (IF a.base = 0 THEN b.base ELSE a.base) \in 0..MaxContacts
        /\ use \in {"new", "read", "spent", "merged"} /\ use # "merged"
        /\ a.def \in [Defaults -> 0..MaxRows]
    BY <1>3, ContentsFields
  <2>2. /\ MergeName(a.name, b.name) \in SomeNames
        /\ MergeCompany(a.company, b.company) \in SomeCompanies
        /\ MergeImages(a, b) \in [Images -> Paths \cup {Null}]
        /\ MergeChanged(a, b) \in SUBSET Images
    BY <1>3, MergedFields
  <2> DEFINE base == IF a.base = 0 THEN b.base ELSE a.base
             name == MergeName(a.name, b.name)
             company == MergeCompany(a.company, b.company)
             image == MergeImages(a, b)
             changed == MergeChanged(a, b)
             def == a.def
             z == [base |-> base, name |-> name, company |-> company, list |-> orig, def |-> def,
                   image |-> image, changed |-> changed, use |-> use]
  <2> HIDE DEF orig, rest, use
  <2>3. x = z
    OBVIOUS
  <2>4. /\ base \in 0..MaxContacts /\ name \in SomeNames /\ company \in SomeCompanies
        /\ image \in [Images -> Paths \cup {Null}] /\ changed \in SUBSET Images
        /\ def \in [Defaults -> 0..MaxRows]
    BY <2>1, <2>2
  <2> HIDE DEF base, name, company, image, changed, def
  <2>5. z \in Contents
    BY <1>6, <2>1, <2>4, ContentsMade
  <2>6. x.list = orig /\ x.use = use
    OBVIOUS
  <2> HIDE DEF x, z
  <2>7. x \in Contents
    BY <2>3, <2>5
  <2>8. use # "merged"
    BY <2>1
  <2> QED
    BY <2>6, <2>7, <2>8
<1>8. y \in Contents /\ y.list = rest /\ y.use = "merged"
  <2> HIDE DEF rest
  <2>1. y \in Contents
    BY <1>3, <1>6, ContentsChanged
  <2>2. y.list = rest /\ y.use = "merged"
    BY <1>3 DEF Contents
  <2> QED
    BY <2>1, <2>2
<1>9. /\ x.base = (IF a.base = 0 THEN b.base ELSE a.base) /\ x.def = a.def
      /\ x.name = MergeName(a.name, b.name) /\ x.company = MergeCompany(a.company, b.company)
  <2> HIDE DEF orig, use, a, b
  <2> QED
    OBVIOUS
<1> HIDE DEF x, y, orig, rest
<1>10. Merged(s, t, x, y)
  BY <1>1, <1>4, <1>5, <1>7, <1>8, <1>9 DEF Merged
<1> QED
  BY <1>10

LEMMA MergeStep ==
  ASSUME CInv, NEW s \in Structs, NEW t \in Structs, Merge(s, t)
  PROVE  CInv'
<1> DEFINE a == struct[s]
           b == struct[t]
           E == Embedded(value)
<1>1. PICK x, y : Merged(s, t, x, y)
  BY MergeMerges
<1>2. /\ Usable(s) /\ Usable(t) /\ s # t /\ UNCHANGED <<value, database>>
      /\ struct' = [struct EXCEPT ![s] = x, ![t] = y] /\ x \in Contents /\ y \in Contents
      /\ x.use = (IF b.use = "new" THEN a.use ELSE "spent") /\ y.use = "merged"
      /\ \A k \in Kinds :
           /\ Distinct(x.list[k]) /\ Distinct(y.list[k]) /\ ItemSet(x.list[k]) \cap ItemSet(y.list[k]) = {}
           /\ ItemSet(x.list[k]) \cup ItemSet(y.list[k]) = ItemSet(a.list[k]) \cup ItemSet(b.list[k])
           /\ 0 \notin Range(x.list[k])
  BY <1>1 DEF Merged
<1>3. /\ struct \in [Structs -> {Null} \cup Contents] /\ Objects(value, struct) /\ OwnedBy(Lists(struct), E)
      /\ a # Null /\ b # Null /\ a.use # "merged" /\ b.use # "merged"
  BY <1>2 DEF CInv, Objects, Usable
<1>4. /\ struct' \in [Structs -> {Null} \cup Contents] /\ struct'[s] = x /\ struct'[t] = y
      /\ \A u \in Structs : u # s /\ u # t => struct'[u] = struct[u]
  BY <1>2, <1>3
<1>5. x # Null /\ y # Null
  BY <1>2, NullIsNone
<1>6. NoNulls(x) /\ NoNulls(y)
  BY <1>2 DEF NoNulls
<1>7. \A u \in Structs : struct'[u] # Null => NoNulls(struct'[u])
  BY <1>3, <1>4, <1>6 DEF Objects
<1>8. \A u \in Structs, k \in Kinds :
        Lists(struct')[u][k] = IF u = s THEN x.list[k] ELSE IF u = t THEN y.list[k] ELSE Lists(struct)[u][k]
  BY <1>2, <1>4, <1>5 DEF Lists
<1>9. OwnedBy(Lists(struct'), E)
  <2> DEFINE L == Lists(struct)
             N == Lists(struct')
  <2>1. \A k \in Kinds : L[s][k] = a.list[k] /\ L[t][k] = b.list[k]
    BY <1>3 DEF Lists
  <2> HIDE DEF L, N, E, a, b
  <2>2. OwnedBy(L, E)
    BY <1>3 DEF L
  <2>3. \A u \in Structs, k \in Kinds : u # s /\ u # t => N[u][k] = L[u][k]
    BY <1>8 DEF L, N
  <2>4. \A k \in Kinds :
          /\ Distinct(N[s][k]) /\ Distinct(N[t][k]) /\ ItemSet(N[s][k]) \cap ItemSet(N[t][k]) = {}
          /\ ItemSet(N[s][k]) \cup ItemSet(N[t][k]) = ItemSet(L[s][k]) \cup ItemSet(L[t][k])
    <3>1. \A k \in Kinds : N[s][k] = x.list[k] /\ N[t][k] = y.list[k]
      BY <1>2, <1>8 DEF N
    <3> QED
      BY <1>2, <2>1, <3>1
  <2>5. s # t /\ s \in Structs /\ t \in Structs
    BY <1>2
  <2>6. OwnedBy(N, E)
    BY ONLY <2>2, <2>3, <2>4, <2>5, StructsShare
  <2> QED
    BY <2>6 DEF N
<1>10. Objects(value', struct')
  BY <1>2, <1>3, <1>4, <1>7, <1>9 DEF Objects
<1> QED
  BY <1>2, <1>10, ObjectsOnly

\* The values of a new struct.
SomeLists == {made \in [Kinds -> Seq(SomeValues)] :
                \A k \in Kinds : \A i \in DOMAIN made[k] : made[k][i].embedded}

LEMMA SlotsOfLists ==
  ASSUME NEW made
  PROVE  /\ \A k \in Kinds : \A i \in DOMAIN made[k] : <<k, i>> \in Slots(made)
         /\ \A x \in Slots(made) : x[1] \in Kinds /\ x[2] \in DOMAIN made[x[1]] /\ x = <<x[1], x[2]>>
<1>1. ASSUME NEW k \in Kinds, NEW i \in DOMAIN made[k]
      PROVE  <<k, i>> \in Slots(made)
  <2>1. <<k, i>> \in {k} \X DOMAIN made[k]
    OBVIOUS
  <2>2. {k} \X DOMAIN made[k] \in {{l} \X DOMAIN made[l] : l \in Kinds}
    OBVIOUS
  <2> QED
    BY <2>1, <2>2, Zenon DEF Slots
<1>2. ASSUME NEW x \in Slots(made)
      PROVE  x[1] \in Kinds /\ x[2] \in DOMAIN made[x[1]] /\ x = <<x[1], x[2]>>
  <2>1. PICK k \in Kinds : x \in {k} \X DOMAIN made[k]
    BY <1>2, Zenon DEF Slots
  <2> QED
    BY <2>1
<1> QED
  BY <1>1, <1>2

\* The new values are those of made, and the others stay.
Filled(made, list, val) ==
  /\ \A k \in Kinds : DOMAIN list[k] = DOMAIN made[k] /\ \A i \in DOMAIN made[k] : val[list[k][i]] = made[k][i]
  /\ \A p \in Pointers : val[p] = value[p] \/ \E k \in Kinds : p \in Range(list[k])

LEMMA Allocated ==
  ASSUME value \in [Pointers -> {Null} \cup SomeValues], NEW made \in SomeLists, Places(made) # {},
         NEW list, list = Allocate(made).list, NEW val, val = Allocate(made).value
  PROVE  /\ list \in [Kinds -> Seq(0..MaxValues)]
         /\ \A k \in Kinds : Distinct(list[k]) /\ Range(list[k]) \subseteq Free
         /\ \A k, l \in Kinds : \A p \in Range(list[k]) : p \in Range(list[l]) => k = l
         /\ val \in [Pointers -> {Null} \cup SomeValues]
         /\ \A p : p \in Embedded(val) <=> p \in Embedded(value) \/ \E k \in Kinds : p \in Range(list[k])
         /\ Filled(made, list, val)
<1> DEFINE at == CHOOSE f \in Places(made) : TRUE
           slot(p) == CHOOSE x \in Slots(made) : at[x] = p
<1>1. at \in Places(made)
  OBVIOUS
<1>2. /\ list = [k \in Kinds |-> [i \in DOMAIN made[k] |-> at[<<k, i>>]]]
      /\ val = [p \in Pointers |-> IF p \in Range(at) THEN made[slot(p)[1]][slot(p)[2]] ELSE value[p]]
  BY DEF Allocate
<1> HIDE DEF at
<1>3. at \in [Slots(made) -> Free] /\ \A x, y \in Slots(made) : at[x] = at[y] => x = y
  BY <1>1 DEF Places, IsInjective
<1>4. \A p \in Free : p \in Pointers /\ p \in 0..MaxValues /\ p # 0 /\ value[p] = Null
  BY PointersAreNumbers DEF Free
<1>5. \A k \in Kinds : \A i \in DOMAIN made[k] :
        <<k, i>> \in Slots(made) /\ at[<<k, i>>] \in Free /\ at[<<k, i>>] \in 0..MaxValues
  BY <1>3, <1>4, SlotsOfLists
<1>6. \A k \in Kinds : /\ DOMAIN list[k] = DOMAIN made[k]
                       /\ \A i \in DOMAIN made[k] : list[k][i] = at[<<k, i>>]
  BY <1>2
<1>7. ASSUME NEW k \in Kinds
      PROVE  list[k] \in Seq(0..MaxValues)
  <2>1. made[k] \in Seq(SomeValues)
    BY DEF SomeLists
  <2>2. Len(made[k]) \in Nat /\ DOMAIN made[k] = 1..Len(made[k])
    BY <2>1, LenProperties
  <2>3. list[k] = [i \in 1..Len(made[k]) |-> at[<<k, i>>]]
    BY <1>2, <2>2
  <2>4. \A i \in 1..Len(made[k]) : at[<<k, i>>] \in 0..MaxValues
    BY <1>5, <2>2
  <2> QED
    BY <2>2, <2>3, <2>4, IsASeq
<1>8. list \in [Kinds -> Seq(0..MaxValues)]
  <2>1. DOMAIN list = Kinds /\ list = [k \in Kinds |-> list[k]]
    BY <1>2
  <2> QED
    BY <1>7, <2>1
<1>9. ASSUME NEW k \in Kinds, NEW l \in Kinds, NEW i \in DOMAIN list[k], NEW j \in DOMAIN list[l],
             list[k][i] = list[l][j]
      PROVE  k = l /\ i = j
  <2>1. <<k, i>> \in Slots(made) /\ <<l, j>> \in Slots(made)
    BY <1>5, <1>6
  <2>2. at[<<k, i>>] = at[<<l, j>>]
    BY <1>6, <1>9
  <2>3. <<k, i>> = <<l, j>>
    BY <1>3, <2>1, <2>2
  <2> QED
    BY <2>3
<1>10. \A k \in Kinds : Distinct(list[k]) /\ Range(list[k]) \subseteq Free
  <2>1. ASSUME NEW k \in Kinds
        PROVE  Distinct(list[k])
    BY <1>9 DEF Distinct
  <2>2. ASSUME NEW k \in Kinds
        PROVE  Range(list[k]) \subseteq Free
    <3>1. \A i \in DOMAIN list[k] : list[k][i] \in Free
      BY <1>5, <1>6
    <3> QED
      BY <3>1 DEF Range
  <2> QED
    BY <2>1, <2>2
<1>11. \A k, l \in Kinds : \A p \in Range(list[k]) : p \in Range(list[l]) => k = l
  BY <1>9 DEF Range
<1>12. \A p : p \in Range(at) <=> \E k \in Kinds : p \in Range(list[k])
  <2>1. ASSUME NEW p, p \in Range(at)
        PROVE  \E k \in Kinds : p \in Range(list[k])
    <3>1. PICK x \in Slots(made) : p = at[x]
      BY <1>3, <2>1 DEF Range
    <3>2. x[1] \in Kinds /\ x[2] \in DOMAIN list[x[1]] /\ list[x[1]][x[2]] = p
      BY <1>6, <3>1, SlotsOfLists
    <3> QED
      BY <3>2 DEF Range
  <2>2. ASSUME NEW k \in Kinds, NEW p \in Range(list[k])
        PROVE  p \in Range(at)
    <3>1. PICK i \in DOMAIN list[k] : p = list[k][i]
      BY <2>2 DEF Range
    <3>2. <<k, i>> \in DOMAIN at /\ at[<<k, i>>] = p
      BY <1>3, <1>5, <1>6, <3>1
    <3> QED
      BY <3>2 DEF Range
  <2> QED
    BY <2>1, <2>2
<1>13. ASSUME NEW p \in Range(at)
       PROVE  p \in Pointers /\ val[p] \in SomeValues /\ val[p].embedded
  <2>1. slot(p) \in Slots(made)
    <3>1. \E x \in Slots(made) : at[x] = p
      BY <1>3, <1>13 DEF Range
    <3> QED
      BY <3>1
  <2> DEFINE k == slot(p)[1]
             i == slot(p)[2]
  <2>2. k \in Kinds /\ i \in DOMAIN made[k]
    <3> HIDE DEF slot
    <3> QED
      BY <2>1, SlotsOfLists
  <2>3. p \in Pointers
    <3>1. Range(at) \subseteq Free
      BY <1>3 DEF Range
    <3> QED
      BY <1>4, <1>13, <3>1
  <2>4. val[p] = made[k][i]
    BY <1>2, <1>13, <2>3
  <2> HIDE DEF k, i
  <2>5. made[k] \in Seq(SomeValues) /\ made[k][i].embedded
    BY <2>2 DEF SomeLists
  <2>6. made[k][i] \in SomeValues
    <3>1. DOMAIN made[k] = 1..Len(made[k])
      BY <2>5, LenProperties
    <3> QED
      BY <2>2, <2>5, <3>1, ElementOfSeq
  <2> QED
    BY <2>3, <2>4, <2>5, <2>6
<1>14. \A p \in Pointers : p \notin Range(at) => val[p] = value[p]
  BY <1>2
<1>15. val \in [Pointers -> {Null} \cup SomeValues]
  <2>1. DOMAIN val = Pointers /\ val = [p \in Pointers |-> val[p]]
    BY <1>2
  <2>2. \A p \in Pointers : val[p] \in {Null} \cup SomeValues
    BY <1>13, <1>14
  <2> QED
    BY <2>1, <2>2
<1>16. \A p : p \in Embedded(val) <=> p \in Embedded(value) \/ p \in Range(at)
  <2>1. \A p \in Range(at) : p \in Embedded(val)
    BY <1>13, NullIsNone DEF Embedded, SomeValues
  <2>2. \A p \in Range(at) : p \notin Embedded(value)
    <3>1. Range(at) \subseteq Free
      BY <1>3 DEF Range
    <3> QED
      BY <1>4, <3>1 DEF Embedded
  <2>3. \A p : p \notin Range(at) => (p \in Embedded(val) <=> p \in Embedded(value))
    BY <1>14 DEF Embedded
  <2> QED
    BY <2>1, <2>2, <2>3
<1>17. ASSUME NEW k \in Kinds, NEW i \in DOMAIN made[k]
       PROVE  val[list[k][i]] = made[k][i]
  <2> DEFINE p == at[<<k, i>>]
  <2>1. list[k][i] = p /\ <<k, i>> \in Slots(made)
    BY <1>5, <1>6
  <2>2. p \in Range(at)
    BY <1>3, <2>1 DEF Range
  <2>3. slot(p) \in Slots(made) /\ at[slot(p)] = p
    BY <2>1
  <2>4. slot(p) = <<k, i>>
    BY <1>3, <2>1, <2>3
  <2>5. p \in Pointers
    BY <1>13, <2>2
  <2>6. val[p] = made[slot(p)[1]][slot(p)[2]]
    BY <1>2, <2>2, <2>5
  <2> HIDE DEF slot, p
  <2> QED
    BY <2>1, <2>4, <2>6
<1>18. Filled(made, list, val)
  BY <1>6, <1>12, <1>14, <1>17 DEF Filled
<1> QED
  BY <1>8, <1>10, <1>11, <1>12, <1>15, <1>16, <1>18

\* A struct is made with values of its own.
LEMMA StructMade ==
  ASSUME CInv, NEW s \in Structs, struct[s] = Null, NEW made \in SomeLists, Places(made) # {},
         NEW x \in Contents, x.list = Allocate(made).list,
         value' = Allocate(made).value, struct' = [struct EXCEPT ![s] = x]
  PROVE  Objects(value', struct')
<1> DEFINE list == Allocate(made).list
           val == Allocate(made).value
           L == Lists(struct)
           N == Lists(struct')
<1>1. /\ value \in [Pointers -> {Null} \cup SomeValues] /\ struct \in [Structs -> {Null} \cup Contents]
      /\ OwnedBy(L, Embedded(value)) /\ \A t \in Structs : struct[t] # Null => NoNulls(struct[t])
  BY DEF CInv, Objects
<1>2. /\ list \in [Kinds -> Seq(0..MaxValues)]
      /\ \A k \in Kinds : Distinct(list[k]) /\ Range(list[k]) \subseteq Free
      /\ \A k, l \in Kinds : \A p \in Range(list[k]) : p \in Range(list[l]) => k = l
      /\ val \in [Pointers -> {Null} \cup SomeValues]
      /\ \A p : p \in Embedded(val) <=> p \in Embedded(value) \/ \E k \in Kinds : p \in Range(list[k])
  <2> HIDE DEF list, val
  <2>1. list = Allocate(made).list /\ val = Allocate(made).value
    BY DEF list, val
  <2> QED
    BY <1>1, <2>1, Allocated
<1> HIDE DEF list, val
<1>3. x.list = list /\ value' = val /\ x # Null
  BY NullIsNone DEF list, val
<1>4. /\ struct' \in [Structs -> {Null} \cup Contents] /\ struct'[s] = x
      /\ \A t \in Structs : t # s => struct'[t] = struct[t]
  BY <1>1
<1>5. \A k \in Kinds : ItemSet(list[k]) = Range(list[k]) /\ 0 \notin Range(list[k])
                       /\ ItemSet(list[k]) \cap Embedded(value) = {}
  <2>1. \A p \in Free : p # 0 /\ p \notin Embedded(value)
    BY PointersAreNumbers DEF Free, Embedded
  <2> QED
    BY <1>2, <2>1 DEF ItemSet
<1>6. /\ \A k \in Kinds : L[s][k] = <<>>
      /\ \A t \in Structs, l \in Kinds : N[t][l] = IF t = s THEN list[l] ELSE L[t][l]
  BY <1>3, <1>4 DEF Lists
<1>7. OwnedBy(N, Embedded(val))
  <2> DEFINE E == Embedded(value)
             F == Embedded(val)
  <2> HIDE DEF L, N, E, F
  <2>1. OwnedBy(L, E)
    BY <1>1 DEF E
  <2>2. \A k \in Kinds : Distinct(N[s][k]) /\ ItemSet(N[s][k]) \cap E = {}
    BY <1>2, <1>5, <1>6 DEF E
  <2>3. \A k, l \in Kinds : \A p \in ItemSet(N[s][k]) : p \in ItemSet(N[s][l]) => k = l
    BY <1>2, <1>5, <1>6
  <2>4. \A p : p \in F <=> p \in E \/ \E k \in Kinds : p \in ItemSet(N[s][k])
    BY <1>2, <1>5, <1>6 DEF E, F
  <2>5. OwnedBy(N, F)
    BY <1>6, <2>1, <2>2, <2>3, <2>4, StructFilled
  <2> QED
    BY <2>5 DEF F
<1>8. \A t \in Structs : struct'[t] # Null => NoNulls(struct'[t])
  BY <1>1, <1>3, <1>4, <1>5 DEF NoNulls
<1> QED
  BY <1>2, <1>3, <1>4, <1>7, <1>8 DEF Objects

\* Struct t becomes x, with new values for its lists.
Makes(t, made, x) ==
  /\ struct[t] = Null /\ UNCHANGED database /\ made \in SomeLists /\ Places(made) # {}
  /\ x \in Contents /\ x.list = Allocate(made).list
  /\ value' = Allocate(made).value /\ struct' = [struct EXCEPT ![t] = x]

LEMMA MakesStep ==
  ASSUME CInv, NEW t \in Structs, NEW made, NEW x, Makes(t, made, x)
  PROVE  CInv'
<1>1. Objects(value', struct')
  BY StructMade DEF Makes
<1> QED
  BY <1>1, ObjectsOnly DEF Makes

LEMMA DuplicateMakes ==
  ASSUME CInv, NEW s \in Structs, NEW t \in Structs, Duplicate(s, t)
  PROVE  \E made, x :
           /\ Makes(t, made, x) /\ \A k \in Kinds : made[k] = Copies(struct[s].list[k])
           /\ x = [struct[s] EXCEPT !.list = x.list]
<1> DEFINE made == [k \in Kinds |-> Copies(struct[s].list[k])]
           x == [struct[s] EXCEPT !.list = Allocate(made).list]
<1>1. /\ Usable(s) /\ struct[t] = Null /\ UNCHANGED database
      /\ Places(made) # {} /\ value' = Allocate(made).value /\ struct' = [struct EXCEPT ![t] = x]
  <2>1. Usable(s) /\ struct[t] = Null /\ UNCHANGED database
    BY DEF Duplicate
  <2>2. Places(made) # {} /\ value' = Allocate(made).value /\ struct' = [struct EXCEPT ![t] = x]
    BY DEF Duplicate
  <2> QED
    BY <2>1, <2>2
<1>2. /\ Objects(value, struct) /\ value \in [Pointers -> {Null} \cup SomeValues]
      /\ struct[s] \in Contents /\ struct[s] # Null /\ struct[s].use # "merged" /\ NoNulls(struct[s])
  BY <1>1 DEF CInv, Objects, Usable
<1>3. ASSUME NEW k \in Kinds
      PROVE  /\ made[k] \in Seq(SomeValues) /\ \A i \in DOMAIN made[k] : made[k][i].embedded
  <2> DEFINE list == struct[s].list[k]
  <2>1. list \in Seq(0..MaxValues) /\ 0 \notin Range(list)
        /\ \A p \in ItemSet(list) : value[p] \in SomeValues /\ value[p].embedded
    BY <1>2, ItemsAreTaken DEF NoNulls
  <2>2. made[k] = [i \in DOMAIN list |-> value[list[i]]]
    BY DEF Copies
  <2> HIDE DEF list, made
  <2>3. Len(list) \in Nat /\ DOMAIN list = 1..Len(list)
    BY <2>1, LenProperties
  <2>4. \A i \in DOMAIN list : list[i] \in ItemSet(list)
    BY <2>1 DEF ItemSet, Range
  <2>5. \A i \in 1..Len(list) : value[list[i]] \in SomeValues /\ value[list[i]].embedded
    BY <2>1, <2>3, <2>4
  <2>6. made[k] = [i \in 1..Len(list) |-> value[list[i]]]
    BY <2>2, <2>3
  <2>7. made[k] \in Seq(SomeValues)
    BY <2>3, <2>5, <2>6, IsASeq
  <2> QED
    BY <2>5, <2>6, <2>7
<1>4. made \in SomeLists
  <2>1. made \in [Kinds -> Seq(SomeValues)]
    BY <1>3
  <2> HIDE DEF made
  <2> QED
    BY <1>3, <2>1 DEF SomeLists
<1>8. \A k \in Kinds : made[k] = Copies(struct[s].list[k])
  OBVIOUS
<1> HIDE DEF made
<1>5. Allocate(made).list \in [Kinds -> Seq(0..MaxValues)]
  BY <1>1, <1>2, <1>4, Allocated
<1>6. x \in Contents /\ x.list = Allocate(made).list
  <2> DEFINE l == Allocate(made).list
  <2>1. l \in [Kinds -> Seq(0..MaxValues)]
    BY <1>5
  <2> HIDE DEF l
  <2>2. [struct[s] EXCEPT !.list = l] \in Contents
    BY <1>2, <2>1, ContentsChanged
  <2>3. [struct[s] EXCEPT !.list = l].list = l
    BY <1>2 DEF Contents
  <2> QED
    BY <2>2, <2>3 DEF l
<1>7. x = [struct[s] EXCEPT !.list = x.list]
  BY <1>6
<1> HIDE DEF x
<1>9. Makes(t, made, x)
  BY <1>1, <1>4, <1>6 DEF Makes
<1> QED
  BY <1>7, <1>8, <1>9

LEMMA DuplicateStep ==
  ASSUME CInv, NEW s \in Structs, NEW t \in Structs, Duplicate(s, t)
  PROVE  CInv'
BY DuplicateMakes, MakesStep

-----------------------------------------------------------------------------
(* contacts_svc_get_contact.                                                *)

LEMMA RowsFields ==
  ASSUME CInv, NEW c, NEW k, NEW i \in RowsOf(c, k)
  PROVE  /\ i \in 1..lastrow /\ i \in 0..MaxRows /\ i # 0 /\ row[i] \in DataRows /\ row[i].kind = k
         /\ row[i].cell \in BOOLEAN /\ row[i].display \in Texts \cup {Null}
         /\ k \in {"company"} \cup Kinds => row[i].text \in Texts
<1>1. i \in DOMAIN row /\ row[i].kind = k
  BY DEF RowsOf
<1>2. lastrow \in 0..MaxRows /\ DOMAIN row \subseteq 1..lastrow /\ row \in [DOMAIN row -> DataRows]
  BY DEF CInv, Rows
<1>3. i \in 1..lastrow /\ i \in 0..MaxRows /\ i # 0
  BY <1>1, <1>2, ConstantsAssumption
<1>4. row[i] \in DataRows
  BY <1>1, <1>2
<1>5. "name" \notin {"company"} \cup Kinds
  BY ConstantsAssumption
<1>6. /\ row[i].cell \in BOOLEAN /\ row[i].display \in Texts \cup {Null}
      /\ k \in {"company"} \cup Kinds => row[i].text \in Texts
  BY <1>1, <1>4, <1>5 DEF DataRows
<1> QED
  BY <1>1, <1>3, <1>4, <1>6

LEMMA GetMakes ==
  ASSUME CInv, NEW s \in Structs, NEW c \in DOMAIN contact, Get(s, c)
  PROVE  \E made, x :
           /\ Makes(s, made, x)
           /\ \A k \in Kinds : made[k] = [j \in 1..Cardinality(RowsOf(c, k)) |-> Item(c, k, Nth(RowsOf(c, k), j))]
           /\ x.base = c /\ x.name = ReadName(c) /\ x.company = ReadCompany(c) /\ x.def = contact[c].def
           /\ x.use = "read"
<1> DEFINE made == [k \in Kinds |-> [j \in 1..Cardinality(RowsOf(c, k)) |->
                      Item(c, k, Nth(RowsOf(c, k), j))]]
           list == Allocate(made).list
           x == [base |-> c, name |-> ReadName(c), company |-> ReadCompany(c),
                 list |-> list, def |-> contact[c].def, image |-> contact[c].image,
                 changed |-> {}, use |-> "read"]
<1>1. /\ struct[s] = Null /\ UNCHANGED database /\ Places(made) # {}
      /\ value' = Allocate(made).value /\ struct' = [struct EXCEPT ![s] = x]
  <2>1. struct[s] = Null /\ UNCHANGED database
    BY DEF Get
  <2>2. Places(made) # {} /\ value' = Allocate(made).value /\ struct' = [struct EXCEPT ![s] = x]
    BY DEF Get
  <2> QED
    BY <2>1, <2>2
<1>2. value \in [Pointers -> {Null} \cup SomeValues]
  BY DEF CInv, Objects
<1>3. ASSUME NEW k \in Kinds
      PROVE  /\ made[k] \in Seq(SomeValues) /\ \A j \in DOMAIN made[k] : made[k][j].embedded
  <2> DEFINE R == RowsOf(c, k)
             n == Cardinality(R)
  <2>1. lastrow \in Nat /\ R \in SUBSET (1..lastrow)
    <3>1. lastrow \in Nat /\ DOMAIN row \subseteq 1..lastrow
      BY DEF CInv, Rows
    <3> QED
      BY <3>1 DEF RowsOf
  <2>2. \A i \in R : i \in 0..MaxRows /\ row[i].text \in Texts /\ row[i].cell \in BOOLEAN
    BY RowsFields
  <2>3. n \in Nat /\ \A j \in 1..n : Nth(R, j) \in R
    <3> HIDE DEF R
    <3>1. n \in 0..lastrow
      BY <2>1, NumbersFinite
    <3>2. \A j \in 1..n : Nth(R, j) \in R
      BY <2>1, NthEnumerates
    <3> QED
      BY <2>1, <3>1, <3>2
  <2>4. \A i \in R : Item(c, k, i) \in SomeValues /\ Item(c, k, i).embedded
    <3> SUFFICES ASSUME NEW i \in R PROVE Item(c, k, i) \in SomeValues /\ Item(c, k, i).embedded
      OBVIOUS
    <3> DEFINE def == k \in Defaults /\ contact[c].def[k] = i
    <3>1. Item(c, k, i) = [kind |-> k, id |-> i, text |-> row[i].text, cell |-> row[i].cell,
                           def |-> def, deleted |-> FALSE, embedded |-> TRUE]
      BY DEF Item
    <3>2. def \in BOOLEAN
      OBVIOUS
    <3> HIDE DEF R, def
    <3> QED
      BY <2>2, <3>1, <3>2 DEF SomeValues, Values
  <2>5. made[k] = [j \in 1..n |-> Item(c, k, Nth(R, j))]
    OBVIOUS
  <2> HIDE DEF R, n, made
  <2>6. \A j \in 1..n : Item(c, k, Nth(R, j)) \in SomeValues /\ Item(c, k, Nth(R, j)).embedded
    BY <2>3, <2>4
  <2>7. made[k] \in Seq(SomeValues)
    BY <2>3, <2>5, <2>6, IsASeq
  <2> QED
    BY <2>5, <2>6, <2>7
<1>4. made \in SomeLists
  <2>1. made \in [Kinds -> Seq(SomeValues)]
    BY <1>3
  <2> HIDE DEF made
  <2> QED
    BY <1>3, <2>1 DEF SomeLists
<1>12. \A k \in Kinds :
         made[k] = [j \in 1..Cardinality(RowsOf(c, k)) |-> Item(c, k, Nth(RowsOf(c, k), j))]
  OBVIOUS
<1> HIDE DEF made
<1>5. list \in [Kinds -> Seq(0..MaxValues)]
  BY <1>1, <1>2, <1>4, Allocated
<1> HIDE DEF list
<1>6. /\ c \in 0..MaxContacts /\ contact[c].def \in [Defaults -> 0..MaxRows]
      /\ contact[c].image \in [Images -> Paths \cup {Null}]
  <2>1. lastcontact \in 0..MaxContacts /\ c \in 1..lastcontact /\ contact[c] \in ContactRows
    BY DEF CInv, Contacts
  <2>2. c \in 0..MaxContacts
    BY <2>1, ConstantsAssumption
  <2> QED
    BY <2>1, <2>2 DEF ContactRows
<1>7. \A k : RowsOf(c, k) # {} => Min(RowsOf(c, k)) \in RowsOf(c, k)
  <2> SUFFICES ASSUME NEW k, RowsOf(c, k) # {} PROVE Min(RowsOf(c, k)) \in RowsOf(c, k)
    OBVIOUS
  <2>1. \A i \in RowsOf(c, k) : i \in 0..MaxRows
    BY RowsFields
  <2>2. RowsOf(c, k) \subseteq Nat
    BY <2>1, ConstantsAssumption
  <2> QED
    BY <2>2, Smallest
<1>8. ReadName(c) \in SomeNames
  <2>1. CASE RowsOf(c, "name") = {}
    BY <2>1 DEF ReadName, SomeNames, RealNames
  <2>2. CASE RowsOf(c, "name") # {}
    <3> DEFINE i == Min(RowsOf(c, "name"))
               given == row[i].text # Null
    <3>1. i \in RowsOf(c, "name")
      BY <1>7, <2>2
    <3>2. i \in 0..MaxRows /\ row[i].display \in Texts \cup {Null} /\ given \in BOOLEAN
      BY <3>1, RowsFields
    <3>3. ReadName(c) = [id |-> i, given |-> given, display |-> row[i].display, changed |-> FALSE]
      BY <2>2 DEF ReadName
    <3> HIDE DEF i, given
    <3> QED
      BY <3>2, <3>3 DEF SomeNames, RealNames
  <2> QED
    BY <2>1, <2>2
<1>9. ReadCompany(c) \in SomeCompanies
  <2>1. CASE RowsOf(c, "company") = {}
    BY <2>1 DEF ReadCompany, SomeCompanies
  <2>2. CASE RowsOf(c, "company") # {}
    <3> DEFINE i == Min(RowsOf(c, "company"))
    <3>1. i \in RowsOf(c, "company")
      BY <1>7, <2>2
    <3>2. i \in 0..MaxRows /\ row[i].text \in Texts
      BY <3>1, RowsFields
    <3>3. ReadCompany(c) = [id |-> i, text |-> row[i].text]
      BY <2>2 DEF ReadCompany
    <3> HIDE DEF i
    <3> QED
      BY <3>2, <3>3 DEF SomeCompanies
  <2> QED
    BY <2>1, <2>2
<1>10. x \in Contents /\ x.list = list
  <2>1. x \in Contents
    BY <1>5, <1>6, <1>8, <1>9, ContentsMade
  <2> QED
    BY <2>1
<1>11. x.list = Allocate(made).list
  BY <1>10 DEF list
<1>13. /\ x.base = c /\ x.name = ReadName(c) /\ x.company = ReadCompany(c) /\ x.def = contact[c].def
       /\ x.use = "read"
  OBVIOUS
<1> HIDE DEF x
<1>14. Makes(s, made, x)
  BY <1>1, <1>4, <1>10, <1>11 DEF Makes
<1> WITNESS made, x
<1> QED
  BY ONLY <1>12, <1>13, <1>14

LEMMA GetStep ==
  ASSUME CInv, NEW s \in Structs, NEW c \in DOMAIN contact, Get(s, c)
  PROVE  CInv'
BY GetMakes, MakesStep

-----------------------------------------------------------------------------
(* Rows while a struct is written.                                          *)

Shaped(D) == D = [row |-> D.row, last |-> D.last, value |-> D.value, def |-> D.def] /\ D.last \in Nat

\* A data state reached from values val.
DataTyped(D, val) ==
  /\ Shaped(D)
  /\ DOMAIN D.row \subseteq 1..D.last /\ D.row \in [DOMAIN D.row -> DataRows]
  /\ D.value \in [Pointers -> {Null} \cup SomeValues] /\ Embedded(D.value) = Embedded(val)
  /\ D.def \in [Defaults -> 0..MaxRows]

LEMMA AddedRows ==
  ASSUME NEW D, Shaped(D), NEW new, Len(new) \in Nat
  PROVE  /\ Shaped(Added(D, new)) /\ Added(D, new).last = D.last + Len(new)
         /\ Added(D, new).value = D.value /\ Added(D, new).def = D.def
         /\ \A val : DataTyped(D, val) /\ new \in Seq(DataRows) => DataTyped(Added(D, new), val)
<1> DEFINE r == [i \in DOMAIN D.row \cup (D.last + 1 .. D.last + Len(new)) |->
                   IF i \in DOMAIN D.row THEN D.row[i] ELSE new[i - D.last]]
           m == D.last + Len(new)
           A == [row |-> r, last |-> m, value |-> D.value, def |-> D.def]
<1>1. Added(D, new) = A
  <2>1. Added(D, new) = [D EXCEPT !.row = r, !.last = m]
    BY DEF Added, Taken
  <2> HIDE DEF r, m
  <2>2. D = [row |-> D.row, last |-> D.last, value |-> D.value, def |-> D.def]
    BY DEF Shaped
  <2> DEFINE R == [row |-> D.row, last |-> D.last, value |-> D.value, def |-> D.def]
  <2>3. [R EXCEPT !.row = r] = [row |-> r, last |-> D.last, value |-> D.value, def |-> D.def]
    OBVIOUS
  <2>4. [[row |-> r, last |-> D.last, value |-> D.value, def |-> D.def] EXCEPT !.last = m] = A
    OBVIOUS
  <2>5. Added(D, new) = [[R EXCEPT !.row = r] EXCEPT !.last = m]
    <3>1. R = D
      BY <2>2
    <3> HIDE DEF R
    <3> QED
      BY <2>1, <3>1
  <2> HIDE DEF R, A
  <2> QED
    BY <2>3, <2>4, <2>5
<1>2. D.last \in Nat /\ m \in Nat
  BY DEF Shaped
<1>3. /\ A.row = r /\ A.last = m /\ A.value = D.value /\ A.def = D.def
      /\ A = [row |-> A.row, last |-> A.last, value |-> A.value, def |-> A.def]
  <2> HIDE DEF r, m
  <2> QED
    OBVIOUS
<1>4. ASSUME NEW val, DataTyped(D, val), new \in Seq(DataRows)
      PROVE  DOMAIN r \subseteq 1..m /\ r \in [DOMAIN r -> DataRows]
  <2>1. DOMAIN D.row \subseteq 1..D.last /\ D.row \in [DOMAIN D.row -> DataRows]
    BY <1>4 DEF DataTyped
  <2>2. \A j \in 1..Len(new) : new[j] \in DataRows
    BY <1>4, ElementOfSeq
  <2>3. DOMAIN r = DOMAIN D.row \cup (D.last + 1 .. D.last + Len(new))
    OBVIOUS
  <2>4. \A i \in D.last + 1 .. D.last + Len(new) : i - D.last \in 1..Len(new) /\ i \in 1..m
    BY <1>2
  <2>5. \A i \in DOMAIN D.row : i \in 1..m
    BY <1>2, <2>1
  <2>6. \A i \in DOMAIN r : r[i] \in DataRows /\ i \in 1..m
    BY <2>1, <2>2, <2>4, <2>5
  <2> QED
    BY <2>6
<1> HIDE DEF r, m, A
<1>5. ASSUME NEW val, DataTyped(D, val), new \in Seq(DataRows)
      PROVE  DataTyped(A, val)
  BY <1>2, <1>3, <1>4, <1>5 DEF DataTyped, Shaped
<1> QED
  BY <1>1, <1>2, <1>3, <1>5 DEF Shaped, m

\* Items of a list that are not NULL are values a struct has taken.
Takes(val, list) == list \in Seq(0..MaxValues) /\ ItemSet(list) \subseteq Embedded(val)

LEMMA Selected ==
  ASSUME NEW list \in Seq(0..MaxValues), NEW S \in SUBSET DOMAIN list, NEW sub, sub = Sublist(list, S)
  PROVE  /\ sub \in Seq(0..MaxValues) /\ Len(sub) \in Nat /\ DOMAIN sub = 1..Len(sub)
         /\ \A n \in DOMAIN sub : \E i \in S : sub[n] = list[i]
         /\ \A val : Takes(val, list) => Takes(val, sub)
         /\ (\A i \in S : list[i] # 0) =>
              \A val : Takes(val, list) => \A n \in DOMAIN sub : sub[n] \in Embedded(val)
<1>1. /\ sub \in Seq(0..MaxValues) /\ Len(sub) \in Nat /\ DOMAIN sub = 1..Len(sub)
  BY SublistProperties, LenProperties
<1>2. \A n \in DOMAIN sub : \E i \in S : sub[n] = list[i]
  BY SublistProperties
<1>3. \A n \in DOMAIN sub : sub[n] # 0 => sub[n] \in ItemSet(list)
  BY <1>2 DEF ItemSet, Range
<1>4. ItemSet(sub) \subseteq ItemSet(list)
  BY <1>3 DEF ItemSet, Range
<1> QED
  BY <1>1, <1>2, <1>3, <1>4 DEF Takes

LEMMA SelectedLists ==
  ASSUME NEW val, NEW list \in Seq(0..MaxValues), NEW sub,
         sub \in {Live(val, list), Written(val, list), WithRow(val, list), WithoutRow(val, list)}
  PROVE  /\ sub \in Seq(0..MaxValues) /\ Len(sub) \in Nat /\ DOMAIN sub = 1..Len(sub)
         /\ \A other : Takes(other, list) =>
              Takes(other, sub) /\ \A n \in DOMAIN sub : sub[n] \in Embedded(other)
<1>1. PICK S \in SUBSET DOMAIN list : sub = Sublist(list, S) /\ \A i \in S : list[i] # 0
  <2>1. CASE sub = Live(val, list)
    <3> WITNESS {i \in DOMAIN list : list[i] # 0 /\ ~val[list[i]].deleted} \in SUBSET DOMAIN list
    <3> QED
      BY <2>1 DEF Live
  <2>2. CASE sub = Written(val, list)
    <3> WITNESS {i \in DOMAIN list : list[i] # 0 /\ ~val[list[i]].deleted /\ val[list[i]].text # Null} \in SUBSET DOMAIN list
    <3> QED
      BY <2>2 DEF Written
  <2>3. CASE sub = WithRow(val, list)
    <3> WITNESS {i \in DOMAIN list : list[i] # 0 /\ val[list[i]].id # 0} \in SUBSET DOMAIN list
    <3> QED
      BY <2>3 DEF WithRow
  <2>4. CASE sub = WithoutRow(val, list)
    <3> WITNESS {i \in DOMAIN list : list[i] # 0 /\ val[list[i]].id = 0} \in SUBSET DOMAIN list
    <3> QED
      BY <2>4 DEF WithoutRow
  <2> QED
    BY <2>1, <2>2, <2>3, <2>4
<1> QED
  BY <1>1, Selected

LEMMA WrittenTexts ==
  ASSUME NEW val, NEW list \in Seq(0..MaxValues), NEW n \in DOMAIN Written(val, list)
  PROVE  val[Written(val, list)[n]].text # Null /\ ~val[Written(val, list)[n]].deleted
<1> DEFINE S == {i \in DOMAIN list : list[i] # 0 /\ ~val[list[i]].deleted /\ val[list[i]].text # Null}
           sub == Sublist(list, S)
<1>1. sub = Written(val, list) /\ S \in SUBSET DOMAIN list
  BY DEF Written
<1>2. PICK i \in S : Written(val, list)[n] = list[i]
  <2> HIDE DEF S
  <2> QED
    BY <1>1, Selected
<1> QED
  BY <1>2

LEMMA DataChanged ==
  ASSUME NEW D, Shaped(D), NEW v, NEW def
  PROVE  /\ [D EXCEPT !.value = v, !.def = def]
              = [row |-> D.row, last |-> D.last, value |-> v, def |-> def]
         /\ [D EXCEPT !.def = def] = [row |-> D.row, last |-> D.last, value |-> D.value, def |-> def]
         /\ [D EXCEPT !.row = v] = [row |-> v, last |-> D.last, value |-> D.value, def |-> D.def]
<1> DEFINE R == [row |-> D.row, last |-> D.last, value |-> D.value, def |-> D.def]
           V == [row |-> D.row, last |-> D.last, value |-> v, def |-> D.def]
<1>1. D = R
  BY DEF Shaped
<1>2. [R EXCEPT !.value = v] = V
  OBVIOUS
<1>3. [V EXCEPT !.def = def] = [row |-> D.row, last |-> D.last, value |-> v, def |-> def]
  OBVIOUS
<1>4. [R EXCEPT !.def = def] = [row |-> D.row, last |-> D.last, value |-> D.value, def |-> def]
  OBVIOUS
<1>5. [R EXCEPT !.row = v] = [row |-> v, last |-> D.last, value |-> D.value, def |-> D.def]
  OBVIOUS
<1> HIDE DEF R, V
<1>6. [D EXCEPT !.value = v, !.def = def] = [[D EXCEPT !.value = v] EXCEPT !.def = def]
  OBVIOUS
<1>7. [[D EXCEPT !.value = v] EXCEPT !.def = def] = [V EXCEPT !.def = def]
  BY <1>1, <1>2
<1>8. [D EXCEPT !.def = def] = [R EXCEPT !.def = def] /\ [D EXCEPT !.row = v] = [R EXCEPT !.row = v]
  BY <1>1
<1> QED
  BY <1>3, <1>4, <1>5, <1>6, <1>7, <1>8

LEMMA NewDefaultTyped ==
  ASSUME NEW val, NEW k, NEW new, Len(new) \in Nat, DOMAIN new = 1..Len(new), NEW n \in Nat,
         n + Len(new) <= MaxRows
  PROVE  NewDefault(val, k, new, n) \in 0..MaxRows
<1> DEFINE marked == {i \in DOMAIN new : val[new[i]].def}
           cell == {i \in DOMAIN new : k = "number" /\ val[new[i]].cell}
<1>1. NewDefault(val, k, new, n)
        = IF marked # {} THEN n + Max(marked) ELSE IF cell # {} THEN n + Min(cell) ELSE 0
  BY DEF NewDefault
<1>2. marked \subseteq 1..Len(new) /\ cell \subseteq 1..Len(new) /\ cell \subseteq Nat /\ 0 \in 0..MaxRows
  BY ConstantsAssumption
<1> HIDE DEF marked, cell
<1>3. marked # {} => Max(marked) \in 1..Len(new)
  BY <1>2, Largest
<1>4. cell # {} => Min(cell) \in 1..Len(new)
  BY <1>2, Smallest
<1>5. \A i \in 1..Len(new) : n + i \in 0..MaxRows
  BY ConstantsAssumption
<1> QED
  BY <1>1, <1>2, <1>3, <1>4, <1>5

LEMMA InsertListTyped ==
  ASSUME NEW D, Shaped(D), NEW c \in 1..MaxContacts, NEW k \in Kinds, NEW list \in Seq(0..MaxValues),
         NEW I, I = InsertList(D, c, k, list)
  PROVE  /\ Shaped(I) /\ D.last <= I.last
         /\ \A val : DataTyped(D, val) /\ Takes(val, list) /\ I.last <= MaxRows => DataTyped(I, val)
<1> DEFINE new == Written(D.value, list)
           rows == [i \in DOMAIN new |-> Row(c, k, D.value[new[i]].text, D.value[new[i]].cell, Null)]
           id(p) == D.last + (CHOOSE i \in DOMAIN new : new[i] = p)
           learned == IF k \in Defaults THEN Range(new) ELSE {}
           v == [p \in Pointers |-> IF p \in learned THEN [D.value[p] EXCEPT !.id = id(p)] ELSE D.value[p]]
           A == Added(D, rows)
           def == IF k \in Defaults /\ list # <<>>
                  THEN [A.def EXCEPT ![k] = NewDefault(D.value, k, new, D.last)] ELSE A.def
<1>1. I = [A EXCEPT !.value = v, !.def = def]
  BY DEF InsertList
<1>2. Len(new) \in Nat /\ DOMAIN new = 1..Len(new) /\ new \in Seq(0..MaxValues)
      /\ \A val : Takes(val, list) => \A n \in DOMAIN new : new[n] \in Embedded(val)
  BY SelectedLists
<1>3. \A i \in DOMAIN new : D.value[new[i]].text # Null
  BY WrittenTexts
<1> HIDE DEF new
<1>4. DOMAIN rows = 1..Len(new) /\ Len(rows) = Len(new) /\ D.last \in Nat
  BY <1>2 DEF Shaped
<1>5. /\ Shaped(A) /\ A.last = D.last + Len(new) /\ A.value = D.value /\ A.def = D.def
      /\ \A val : DataTyped(D, val) /\ rows \in Seq(DataRows) => DataTyped(A, val)
  <2> HIDE DEF rows
  <2> QED
    BY <1>2, <1>4, AddedRows
<1> HIDE DEF A
<1>6. I = [row |-> A.row, last |-> A.last, value |-> v, def |-> def]
  <2> HIDE DEF v, def
  <2>1. [A EXCEPT !.value = v, !.def = def] = [row |-> A.row, last |-> A.last, value |-> v, def |-> def]
    BY <1>5, DataChanged
  <2> QED
    BY ONLY <1>1, <2>1
<1>7. I.row = A.row /\ I.last = A.last /\ I.value = v /\ I.def = def /\ Shaped(I) /\ D.last <= I.last
  <2> HIDE DEF v, def
  <2> QED
    BY <1>2, <1>4, <1>5, <1>6 DEF Shaped
<1>8. ASSUME NEW val, DataTyped(D, val), Takes(val, list), I.last <= MaxRows
      PROVE  DataTyped(I, val)
  <2>1. D.value \in [Pointers -> {Null} \cup SomeValues] /\ Embedded(D.value) = Embedded(val)
        /\ D.def \in [Defaults -> 0..MaxRows]
    BY <1>8 DEF DataTyped
  <2>2. ASSUME NEW i \in 1..Len(new)
        PROVE  /\ new[i] \in Pointers /\ new[i] \in Embedded(D.value) /\ D.value[new[i]] \in SomeValues
               /\ D.value[new[i]].text \in Texts /\ D.value[new[i]].cell \in BOOLEAN
    <3>1. new[i] \in Embedded(D.value)
      BY <1>2, <1>8, <2>1
    <3>2. new[i] \in Pointers /\ D.value[new[i]] \in SomeValues
      BY <2>1, <3>1 DEF Embedded
    <3>3. D.value[new[i]].text \in Texts \cup {Null} /\ D.value[new[i]].cell \in BOOLEAN
      BY <3>2 DEF SomeValues, Values
    <3> QED
      BY <1>2, <1>3, <3>1, <3>2, <3>3
  <2>3. rows \in Seq(DataRows)
    <3>1. \A i \in 1..Len(new) :
            Row(c, k, D.value[new[i]].text, D.value[new[i]].cell, Null) \in DataRows
      BY <2>2 DEF Row, DataRows
    <3>2. rows = [i \in 1..Len(new) |-> Row(c, k, D.value[new[i]].text, D.value[new[i]].cell, Null)]
      BY <1>2
    <3> HIDE DEF rows
    <3> QED
      BY <1>2, <3>1, <3>2, IsASeq
  <2>4. DataTyped(A, val)
    BY <1>5, <1>8, <2>3
  <2>5. D.last + Len(new) <= MaxRows
    BY <1>5, <1>7, <1>8
  <2>6. ASSUME NEW p \in Range(new)
        PROVE  p \in Embedded(D.value) /\ D.value[p] \in SomeValues /\ id(p) \in 0..MaxRows
    <3> DEFINE i == CHOOSE j \in DOMAIN new : new[j] = p
    <3>1. i \in DOMAIN new /\ new[i] = p
      <4>1. \E j \in DOMAIN new : new[j] = p
        BY <2>6 DEF Range
      <4> QED
        BY <4>1
    <3> HIDE DEF i
    <3>2. D.last + i \in 0..MaxRows
      <4>1. i \in 1..Len(new) /\ Len(new) \in Nat /\ D.last \in Nat /\ MaxRows \in Nat
        BY <1>2, <1>4, <3>1, ConstantsAssumption
      <4> QED
        BY ONLY <2>5, <4>1
    <3>3. p \in Embedded(D.value) /\ D.value[p] \in SomeValues
      BY <1>2, <2>2, <3>1
    <3> QED
      BY <3>2, <3>3 DEF i
  <2>7. learned \subseteq Range(new) /\ learned \subseteq Pointers
    <3>1. \A p \in Range(new) : p \in Pointers
      BY <2>6 DEF Embedded
    <3> QED
      BY <3>1
  <2> HIDE DEF id, learned
  <2>8. ASSUME NEW p \in Pointers
        PROVE  /\ v[p] \in {Null} \cup SomeValues
               /\ p \in learned => v[p] \in SomeValues /\ (v[p].embedded = D.value[p].embedded)
               /\ p \notin learned => v[p] = D.value[p]
    <3>1. CASE p \in learned
      <4>1. v[p] = [D.value[p] EXCEPT !.id = id(p)]
        BY <3>1
      <4>2. D.value[p] \in SomeValues /\ id(p) \in 0..MaxRows
        BY <2>6, <2>7, <3>1
      <4> DEFINE n == id(p)
                 w == D.value[p]
      <4> HIDE DEF v, n, w
      <4>3. w \in SomeValues /\ n \in 0..MaxRows
        BY <4>2 DEF n, w
      <4>4. [w EXCEPT !.id = n] \in SomeValues /\ [w EXCEPT !.id = n].embedded = w.embedded
        BY <4>3, ValueChanged
      <4> QED
        BY <3>1, <4>1, <4>4 DEF n, w
    <3>2. CASE p \notin learned
      BY <2>1, <3>2
    <3> QED
      BY <3>1, <3>2
  <2>9. v \in [Pointers -> {Null} \cup SomeValues]
    <3>1. DOMAIN v = Pointers /\ v = [p \in Pointers |-> v[p]]
      OBVIOUS
    <3> HIDE DEF v
    <3> QED
      BY <2>8, <3>1
  <2> HIDE DEF v
  <2>10. Embedded(v) = Embedded(val)
    <3>1. Null \notin SomeValues
      BY NullIsNone DEF SomeValues
    <3>2. \A p \in learned : D.value[p] # Null /\ D.value[p].embedded
      BY <2>6, <2>7 DEF Embedded
    <3>3. Embedded(v) = Embedded(D.value)
      BY <2>8, <3>1, <3>2 DEF Embedded
    <3> QED
      BY <2>1, <3>3
  <2>11. def \in [Defaults -> 0..MaxRows]
    <3>1. NewDefault(D.value, k, new, D.last) \in 0..MaxRows
      BY <1>2, <1>4, <2>5, NewDefaultTyped
    <3> QED
      BY <1>5, <2>1, <3>1
  <2> HIDE DEF def
  <2> QED
    BY <1>7, <2>4, <2>9, <2>10, <2>11 DEF DataTyped
<1> QED
  BY <1>7, <1>8

LEMMA InsertListsTyped ==
  ASSUME NEW D, Shaped(D), NEW c \in 1..MaxContacts, NEW x \in Contents
  PROVE  /\ Shaped(InsertLists(D, c, x)) /\ D.last <= InsertLists(D, c, x).last
         /\ \A val : /\ DataTyped(D, val) /\ \A k \in Kinds : Takes(val, x.list[k])
                     /\ InsertLists(D, c, x).last <= MaxRows
                     => DataTyped(InsertLists(D, c, x), val)
<1>1. ASSUME NEW B, Shaped(B), NEW k, NEW I, I = InsertKind(B, c, k, x)
      PROVE  /\ Shaped(I) /\ B.last <= I.last
             /\ \A val : /\ DataTyped(B, val) /\ \A l \in Kinds : Takes(val, x.list[l])
                         /\ I.last <= MaxRows
                         => DataTyped(I, val)
  <2>1. CASE k \in Kinds
    <3>1. x.list[k] \in Seq(0..MaxValues) /\ I = InsertList(B, c, k, x.list[k])
      BY <1>1, <2>1, ContentsFields DEF InsertKind
    <3> QED
      BY <1>1, <2>1, <3>1, InsertListTyped
  <2>2. CASE k \notin Kinds
    BY <1>1, <2>2 DEF InsertKind, Shaped
  <2> QED
    BY <2>1, <2>2
<1> DEFINE W == InsertKind(D, c, "web", x)
           N == InsertKind(W, c, "number", x)
           E == InsertKind(N, c, "email", x)
<1>2. InsertLists(D, c, x) = E
  BY DEF InsertLists
<1>3. /\ Shaped(W) /\ D.last <= W.last
      /\ \A val : DataTyped(D, val) /\ (\A l \in Kinds : Takes(val, x.list[l])) /\ W.last <= MaxRows
                    => DataTyped(W, val)
  BY <1>1
<1> HIDE DEF W
<1>4. /\ Shaped(N) /\ W.last <= N.last
      /\ \A val : DataTyped(W, val) /\ (\A l \in Kinds : Takes(val, x.list[l])) /\ N.last <= MaxRows
                    => DataTyped(N, val)
  BY <1>1, <1>3
<1> HIDE DEF N
<1>5. /\ Shaped(E) /\ N.last <= E.last
      /\ \A val : DataTyped(N, val) /\ (\A l \in Kinds : Takes(val, x.list[l])) /\ E.last <= MaxRows
                    => DataTyped(E, val)
  BY <1>1, <1>4
<1> HIDE DEF E
<1>6. D.last \in Nat /\ W.last \in Nat /\ N.last \in Nat /\ E.last \in Nat /\ MaxRows \in Nat
  BY <1>3, <1>4, <1>5, ConstantsAssumption DEF Shaped
<1>7. D.last <= E.last /\ (E.last <= MaxRows => W.last <= MaxRows /\ N.last <= MaxRows)
  BY <1>3, <1>4, <1>5, <1>6
<1> QED
  BY <1>2, <1>3, <1>4, <1>5, <1>7

-----------------------------------------------------------------------------
(* Names, defaults and rows that are written.                               *)

LEMMA ShownTyped ==
  ASSUME value \in [Pointers -> {Null} \cup SomeValues], NEW x \in Contents,
         \A k \in Kinds : Takes(value, x.list[k])
  PROVE  /\ Shown(x) \in Texts \cup {Null}
         /\ NamedForInsert(x) \in RealNames /\ NamedForUpdate(x) \in RealNames
<1>1. \A k : Listed(x, k) \in Seq(0..MaxValues) /\ Takes(value, Listed(x, k))
  <2>1. <<>> \in Seq(0..MaxValues) /\ Takes(value, <<>>)
    BY DEF Takes, ItemSet, Range
  <2>2. \A k \in Kinds : x.list[k] \in Seq(0..MaxValues)
    BY ContentsFields
  <2> QED
    BY <2>1, <2>2 DEF Listed
<1>2. ASSUME NEW list \in Seq(0..MaxValues), Takes(value, list)
      PROVE  FirstText(list) \in Texts \cup {Null}
  <2> DEFINE w == Written(value, list)
  <2>1. CASE w = <<>>
    BY <2>1 DEF FirstText
  <2>2. CASE w # <<>>
    <3>1. w \in Seq(0..MaxValues) /\ \A n \in DOMAIN w : w[n] \in Embedded(value)
      BY <1>2, SelectedLists
    <3>2. FirstText(list) = value[w[1]].text
      BY <2>2 DEF FirstText
    <3> HIDE DEF w
    <3>3. 1 \in DOMAIN w
      BY <2>2, <3>1, EmptySeq, LenProperties
    <3>4. value[w[1]] \in SomeValues
      BY <3>1, <3>3 DEF Embedded
    <3> QED
      BY <3>2, <3>4 DEF SomeValues, Values
  <2> QED
    BY <2>1, <2>2
<1>3. Shown(x) \in Texts \cup {Null}
  <2>1. x.company = Null \/ x.company.text \in Texts \cup {Null}
    BY ContentsFields DEF SomeCompanies
  <2> QED
    BY <1>1, <1>2, <2>1 DEF Shown
<1>4. x.name \in SomeNames /\ 0 \in 0..MaxRows
  BY ContentsFields, ConstantsAssumption
<1>5. x.name # Null => x.name \in RealNames
  BY <1>4 DEF SomeNames
<1>6. ASSUME NEW t \in Texts \cup {Null}, NEW changed \in BOOLEAN
      PROVE  [id |-> 0, given |-> FALSE, display |-> t, changed |-> changed] \in RealNames
  BY <1>4 DEF RealNames
<1>7. ASSUME NEW n \in RealNames, NEW t \in Texts \cup {Null}
      PROVE  [n EXCEPT !.display = t] \in RealNames /\ [n EXCEPT !.display = t, !.changed = TRUE] \in RealNames
  BY DEF RealNames
<1>8. NamedForInsert(x) \in RealNames
  BY <1>3, <1>5, <1>6, <1>7 DEF NamedForInsert
<1>9. NamedForUpdate(x) \in RealNames
  BY <1>3, <1>5, <1>6, <1>7 DEF NamedForUpdate
<1> QED
  BY <1>3, <1>8, <1>9

LEMMA CompanyRowsTyped ==
  ASSUME NEW c \in 1..MaxContacts, NEW company \in SomeCompanies
  PROVE  CompanyRows(c, company) \in Seq(DataRows)
<1>1. CASE company = Null \/ company.text = Null
  <2>1. CompanyRows(c, company) = <<>>
    BY <1>1 DEF CompanyRows
  <2>2. <<>> \in Seq(DataRows)
    OBVIOUS
  <2> QED
    BY <2>1, <2>2
<1>2. CASE company # Null /\ company.text # Null
  <2>1. company.text \in Texts
    BY <1>2 DEF SomeCompanies
  <2>2. Row(c, "company", company.text, FALSE, Null) \in DataRows
    BY <2>1 DEF Row, DataRows
  <2>3. CompanyRows(c, company) = <<Row(c, "company", company.text, FALSE, Null)>>
    BY <1>2, Zenon DEF CompanyRows
  <2> DEFINE r == Row(c, "company", company.text, FALSE, Null)
  <2>4. r \in DataRows /\ CompanyRows(c, company) = <<r>>
    BY <2>2, <2>3
  <2> HIDE DEF r
  <2> QED
    BY <2>4
<1> QED
  BY <1>1, <1>2

LEMMA WrittenRows ==
  ASSUME NEW c \in 1..MaxContacts, NEW n \in RealNames, NEW company \in SomeCompanies
  PROVE  /\ NameRow(c, n) \in DataRows /\ CompanyRows(c, company) \in Seq(DataRows)
         /\ <<NameRow(c, n)>> \o CompanyRows(c, company) \in Seq(DataRows)
<1>1. NameRow(c, n) \in DataRows
  BY DEF NameRow, Row, RealNames, DataRows
<1>2. CompanyRows(c, company) \in Seq(DataRows)
  BY CompanyRowsTyped
<1>3. <<NameRow(c, n)>> \in Seq(DataRows)
  BY <1>1
<1> QED
  BY <1>1, <1>2, <1>3, ConcatProperties

LEMMA FirstDefaultTyped ==
  ASSUME NEW val \in [Pointers -> {Null} \cup SomeValues], NEW x \in Contents,
         \A k \in Kinds : Takes(val, x.list[k]), NEW def \in [Defaults -> 0..MaxRows]
  PROVE  FirstForDefault(val, x, def) \in [Defaults -> 0..MaxRows]
<1>1. ASSUME NEW k \in Defaults
      PROVE  FirstForDefault(val, x, def)[k] \in 0..MaxRows
  <2> DEFINE all == Listed(x, k)
             live == Live(val, all)
             l == WithRow(val, live)
  <2>1. FirstForDefault(val, x, def)[k] = IF def[k] # 0 \/ l = <<>> THEN def[k] ELSE val[l[1]].id
    BY DEF FirstForDefault
  <2>2. all \in Seq(0..MaxValues) /\ Takes(val, all)
    <3>1. <<>> \in Seq(0..MaxValues) /\ Takes(val, <<>>)
      BY DEF Takes, ItemSet, Range
    <3> QED
      BY <3>1, ContentsFields DEF Listed
  <2> HIDE DEF all
  <2>3. live \in Seq(0..MaxValues) /\ Takes(val, live)
    BY <2>2, SelectedLists
  <2> HIDE DEF live
  <2>4. l \in Seq(0..MaxValues) /\ \A n \in DOMAIN l : l[n] \in Embedded(val)
    BY <2>3, SelectedLists
  <2> HIDE DEF l
  <2>5. CASE l = <<>>
    BY <2>1, <2>5
  <2>6. CASE l # <<>>
    <3>1. 1 \in DOMAIN l
      BY <2>4, <2>6, EmptySeq, LenProperties
    <3>2. val[l[1]] \in SomeValues
      BY <2>4, <3>1 DEF Embedded
    <3>3. val[l[1]].id \in 0..MaxRows
      BY <3>2 DEF SomeValues, Values
    <3> QED
      BY <2>1, <3>3
  <2> QED
    BY <2>5, <2>6
<1>2. FirstForDefault(val, x, def) = [k \in Defaults |-> FirstForDefault(val, x, def)[k]]
  BY DEF FirstForDefault
<1> QED
  BY <1>1, <1>2

\* The ids of values and the fields of a struct change, and its lists do not.
LEMMA StructWritten ==
  ASSUME CInv, NEW s \in Structs, Usable(s), NEW v \in [Pointers -> {Null} \cup SomeValues],
         Embedded(v) = Embedded(value), NEW y \in Contents, y.list = struct[s].list
  PROVE  Objects(v, [struct EXCEPT ![s] = y])
<1>1. Objects(v, struct) /\ struct[s] # Null
  BY ValuesChange DEF CInv, Usable
<1>2. NoNulls(struct[s]) /\ struct[s].use # "merged"
  BY <1>1 DEF Objects, Usable
<1>3. NoNulls(y)
  BY <1>2 DEF NoNulls
<1> QED
  BY <1>1, <1>3, ContentsChange

LEMMA UsableStructs ==
  ASSUME CInv, NEW s \in Structs, Usable(s)
  PROVE  /\ struct[s] \in Contents /\ \A k \in Kinds : Takes(value, struct[s].list[k])
         /\ value \in [Pointers -> {Null} \cup SomeValues] /\ struct[s].company \in SomeCompanies
         /\ DataTyped([Data EXCEPT !.def = struct[s].def], value) /\ lastrow \in Nat
         /\ [Data EXCEPT !.def = struct[s].def].last = lastrow
<1>1. Objects(value, struct) /\ struct[s] # Null
  BY DEF CInv, Usable
<1>2. struct[s] \in Contents /\ value \in [Pointers -> {Null} \cup SomeValues]
  BY <1>1 DEF Objects
<1>3. \A k \in Kinds : Takes(value, struct[s].list[k])
  BY <1>1, ItemsAreTaken DEF Takes
<1>4. struct[s].def \in [Defaults -> 0..MaxRows] /\ struct[s].company \in SomeCompanies
  BY <1>2, ContentsFields
<1> DEFINE D == [row |-> row, last |-> lastrow, value |-> value, def |-> struct[s].def]
<1>5. [Data EXCEPT !.def = struct[s].def] = D
  BY DEF Data
<1>6. lastrow \in Nat /\ DOMAIN row \subseteq 1..lastrow /\ row \in [DOMAIN row -> DataRows]
  BY DEF CInv, Rows
<1>7. D.row = row /\ D.last = lastrow /\ D.value = value /\ D.def = struct[s].def
      /\ D = [row |-> D.row, last |-> D.last, value |-> D.value, def |-> D.def]
  OBVIOUS
<1> HIDE DEF D
<1>8. DataTyped(D, value)
  BY <1>2, <1>4, <1>6, <1>7 DEF DataTyped, Shaped
<1> QED
  BY <1>2, <1>3, <1>4, <1>5, <1>6, <1>7, <1>8

LEMMA InsertStep ==
  ASSUME CInv, NEW s \in Structs, Insert(s)
  PROVE  CInv'
<1> DEFINE x == struct[s]
           c == lastcontact + 1
           n == NamedForInsert(x)
           D0 == [Data EXCEPT !.def = x.def]
           new == <<NameRow(c, n)>> \o CompanyRows(c, x.company)
           D1 == Added(D0, new)
           D == InsertLists(D1, c, x)
           def == FirstForDefault(D.value, x, D.def)
           y == [x EXCEPT !.base = c, !.name = n, !.def = def, !.use = "spent"]
<1>1. /\ Usable(s) /\ lastcontact < MaxContacts
      /\ D.last <= MaxRows /\ value' = D.value /\ struct' = [struct EXCEPT ![s] = y]
      /\ \/ /\ row' = D.row /\ lastrow' = D.last /\ lastcontact' = c
            /\ \E image \in Copied(x.image) :
                 contact' = [i \in DOMAIN contact \cup {c} |->
                   IF i = c THEN [def |-> def, image |-> image] ELSE contact[i]]
         \/ UNCHANGED database
  <2>1. Usable(s) /\ lastcontact < MaxContacts
    BY DEF Insert
  <2>2. /\ D.last <= MaxRows /\ value' = D.value /\ struct' = [struct EXCEPT ![s] = y]
        /\ \/ /\ row' = D.row /\ lastrow' = D.last /\ lastcontact' = c
              /\ \E image \in Copied(x.image) :
                   contact' = [i \in DOMAIN contact \cup {c} |->
                     IF i = c THEN [def |-> def, image |-> image] ELSE contact[i]]
           \/ UNCHANGED database
    BY DEF Insert
  <2> HIDE DEF x, c, n, D, def, y
  <2> QED
    BY <2>1, <2>2
<1>2. lastcontact \in Nat /\ c \in 1..MaxContacts /\ MaxContacts \in Nat /\ MaxRows \in Nat
      /\ DOMAIN contact \subseteq 1..lastcontact /\ contact \in [DOMAIN contact -> ContactRows]
  BY <1>1, ConstantsAssumption DEF CInv, Contacts
<1>3. /\ x \in Contents /\ \A k \in Kinds : Takes(value, x.list[k])
      /\ value \in [Pointers -> {Null} \cup SomeValues] /\ x.company \in SomeCompanies
      /\ DataTyped(D0, value)
  BY <1>1, UsableStructs
<1> HIDE DEF x, c, D0
<1>4. n \in RealNames /\ n \in SomeNames
  BY <1>3, ShownTyped DEF SomeNames
<1> HIDE DEF n
<1>5. new \in Seq(DataRows)
  BY <1>2, <1>3, <1>4, WrittenRows
<1> HIDE DEF new
<1>6. DataTyped(D1, value) /\ Shaped(D1)
  <2>1. Shaped(D0) /\ Len(new) \in Nat
    BY <1>3, <1>5, LenProperties DEF DataTyped
  <2>2. DataTyped(D1, value)
    BY <1>3, <1>5, <2>1, AddedRows
  <2> QED
    BY <2>2 DEF DataTyped
<1> HIDE DEF D1
<1>7. DataTyped(D, value)
  BY <1>1, <1>2, <1>3, <1>6, InsertListsTyped
<1> HIDE DEF D
<1>8. /\ D.last \in 0..MaxRows /\ DOMAIN D.row \subseteq 1..D.last /\ D.row \in [DOMAIN D.row -> DataRows]
      /\ D.value \in [Pointers -> {Null} \cup SomeValues] /\ Embedded(D.value) = Embedded(value)
      /\ D.def \in [Defaults -> 0..MaxRows]
  BY <1>1, <1>2, <1>7 DEF DataTyped, Shaped
<1>9. def \in [Defaults -> 0..MaxRows]
  <2>1. \A k \in Kinds : Takes(D.value, x.list[k])
    BY <1>3, <1>8 DEF Takes
  <2> QED
    BY <1>3, <1>8, <2>1, FirstDefaultTyped
<1> HIDE DEF def
<1>10. y \in Contents /\ y.list = x.list
  <2>1. c \in 0..MaxContacts
    BY <1>2
  <2>2. x \in Contents
    BY <1>3
  <2>3. y \in Contents
    BY <1>4, <1>9, <2>1, <2>2 DEF Contents, SomeNames, RealNames
  <2>4. y.list = x.list
    BY <2>2 DEF Contents
  <2> QED
    BY <2>3, <2>4
<1> HIDE DEF y
<1>11. Objects(value', struct')
  BY <1>1, <1>8, <1>10, StructWritten DEF x
<1>12. CASE UNCHANGED database
  BY <1>11, <1>12, ObjectsOnly
<1>13. ASSUME row' = D.row, lastrow' = D.last, lastcontact' = c, NEW image \in Copied(x.image),
              contact' = [i \in DOMAIN contact \cup {c} |->
                IF i = c THEN [def |-> def, image |-> image] ELSE contact[i]]
       PROVE  CInv'
  <2>1. Rows(row', lastrow')
    BY <1>8, <1>13 DEF Rows
  <2>2. [def |-> def, image |-> image] \in ContactRows
    <3>1. x.image \in [Images -> Paths \cup {Null}]
      BY <1>3, ContentsFields
    <3>2. image \in [Images -> Paths \cup {Null}]
      BY <3>1 DEF Copied
    <3> QED
      BY <1>9, <3>2 DEF ContactRows
  <2>3. c = lastcontact + 1
    BY DEF c
  <2>4. Contacts(contact', lastcontact')
    <3>1. DOMAIN contact' = DOMAIN contact \cup {c}
      BY <1>13
    <3>2. \A i \in DOMAIN contact' : contact'[i] \in ContactRows
      BY <1>2, <1>13, <2>2
    <3>3. contact' \in [DOMAIN contact' -> ContactRows]
      BY <1>13, <3>2
    <3>4. DOMAIN contact' \subseteq 1..c
      BY <1>2, <2>3, <3>1
    <3>5. c \in 0..MaxContacts
      BY <1>2
    <3> QED
      BY <1>13, <3>3, <3>4, <3>5 DEF Contacts
  <2> QED
    BY <1>11, <2>1, <2>4 DEF CInv
<1> QED
  BY <1>1, <1>12, <1>13

-----------------------------------------------------------------------------
(* Update.                                                                  *)

LEMMA RowsChanged ==
  ASSUME NEW D, NEW val, DataTyped(D, val), NEW rows, NEW E,
         E = [D EXCEPT !.row = rows],
         DOMAIN rows \subseteq DOMAIN D.row, \A i \in DOMAIN rows : rows[i] \in DataRows,
         rows = [i \in DOMAIN rows |-> rows[i]]
  PROVE  DataTyped(E, val) /\ E.last = D.last /\ E.value = D.value /\ E.def = D.def
<1>1. Shaped(D)
  BY DEF DataTyped
<1> DEFINE B == [row |-> rows, last |-> D.last, value |-> D.value, def |-> D.def]
<1>2. E = B
  BY <1>1, DataChanged
<1>3. B.row = rows /\ B.last = D.last /\ B.value = D.value /\ B.def = D.def
      /\ B = [row |-> B.row, last |-> B.last, value |-> B.value, def |-> B.def]
  OBVIOUS
<1> HIDE DEF B
<1> QED
  BY <1>1, <1>2, <1>3 DEF DataTyped, Shaped

LEMMA RowWritten ==
  ASSUME NEW r \in DataRows, NEW t \in Texts, NEW cell \in BOOLEAN
  PROVE  [r EXCEPT !.text = t, !.cell = cell] \in DataRows /\ [r EXCEPT !.text = t] \in DataRows
BY DEF DataRows

LEMMA UpdateItemsTyped ==
  ASSUME NEW D, NEW val, DataTyped(D, val), NEW old \in Seq(0..MaxValues),
         \A n \in DOMAIN old : old[n] \in Embedded(val)
  PROVE  /\ DataTyped(UpdateItems(D, old), val)
         /\ UpdateItems(D, old).last = D.last /\ UpdateItems(D, old).value = D.value
         /\ UpdateItems(D, old).def = D.def
<1> DEFINE gone == Gone(D.value, old)
           of(i) == {n \in DOMAIN old : D.value[old[n]].id = i}
           v(i) == D.value[old[Max(of(i))]]
           rows == [i \in DOMAIN D.row \ gone |->
                      IF of(i) = {} THEN D.row[i]
                      ELSE [D.row[i] EXCEPT !.text = v(i).text, !.cell = v(i).cell]]
           E == UpdateItems(D, old)
<1>1. E = [D EXCEPT !.row = rows]
  BY DEF UpdateItems
<1>2. /\ D.row \in [DOMAIN D.row -> DataRows] /\ D.value \in [Pointers -> {Null} \cup SomeValues]
      /\ Embedded(D.value) = Embedded(val) /\ Len(old) \in Nat /\ DOMAIN old = 1..Len(old)
  BY LenProperties DEF DataTyped
<1>3. ASSUME NEW i \in DOMAIN rows
      PROVE  rows[i] \in DataRows
  <2>1. i \in DOMAIN D.row /\ i \notin gone /\ D.row[i] \in DataRows
    BY <1>2
  <2>2. CASE of(i) = {}
    BY <2>1, <2>2
  <2>3. CASE of(i) # {}
    <3> DEFINE m == Max(of(i))
    <3>1. m \in of(i)
      <4>1. of(i) \subseteq 1..Len(old)
        BY <1>2
      <4> HIDE DEF of
      <4> QED
        BY <1>2, <2>3, <4>1, Largest
    <3>2. m \in DOMAIN old /\ D.value[old[m]].id = i
      BY <3>1
    <3> HIDE DEF m
    <3>3. D.value[old[m]] \in SomeValues
      BY <1>2, <3>2 DEF Embedded
    <3>4. D.value[old[m]].text # Null
      <4>1. ~(D.value[old[m]].deleted \/ D.value[old[m]].text = Null)
        BY <2>1, <3>2 DEF Gone
      <4> QED
        BY <4>1
    <3>5. D.value[old[m]].text \in Texts /\ D.value[old[m]].cell \in BOOLEAN
      BY <3>3, <3>4 DEF SomeValues, Values
    <3>6. rows[i] = [D.row[i] EXCEPT !.text = D.value[old[m]].text, !.cell = D.value[old[m]].cell]
      BY <2>3 DEF m
    <3> DEFINE t == D.value[old[m]].text
               cell == D.value[old[m]].cell
               r == D.row[i]
    <3>7. r \in DataRows /\ t \in Texts /\ cell \in BOOLEAN
          /\ rows[i] = [r EXCEPT !.text = t, !.cell = cell]
      BY <2>1, <3>5, <3>6
    <3> HIDE DEF r, t, cell, rows
    <3>8. [r EXCEPT !.text = t, !.cell = cell] \in DataRows
      BY <3>7 DEF DataRows
    <3> QED
      BY <3>7, <3>8
  <2> QED
    BY <2>2, <2>3
<1>4. DOMAIN rows \subseteq DOMAIN D.row /\ rows = [i \in DOMAIN rows |-> rows[i]]
  OBVIOUS
<1> HIDE DEF rows, E
<1>5. DataTyped(E, val) /\ E.last = D.last /\ E.value = D.value /\ E.def = D.def
  BY <1>1, <1>3, <1>4, RowsChanged
<1> QED
  BY <1>5 DEF E

LEMMA DefaultSet ==
  ASSUME NEW D, Shaped(D), NEW def, NEW E, E = [D EXCEPT !.def = def]
  PROVE  /\ Shaped(E) /\ E.row = D.row /\ E.last = D.last /\ E.value = D.value /\ E.def = def
         /\ \A val : DataTyped(D, val) /\ def \in [Defaults -> 0..MaxRows] => DataTyped(E, val)
<1> DEFINE B == [row |-> D.row, last |-> D.last, value |-> D.value, def |-> def]
<1>1. E = B
  BY DataChanged
<1>2. B.row = D.row /\ B.last = D.last /\ B.value = D.value /\ B.def = def
      /\ B = [row |-> B.row, last |-> B.last, value |-> B.value, def |-> B.def]
  OBVIOUS
<1> HIDE DEF B
<1>3. /\ Shaped(E) /\ E.row = D.row /\ E.last = D.last /\ E.value = D.value /\ E.def = def
  BY <1>1, <1>2 DEF Shaped
<1> QED
  BY <1>3 DEF DataTyped

LEMMA ItemsShaped ==
  ASSUME NEW D, Shaped(D), NEW old, NEW E, E = UpdateItems(D, old)
  PROVE  Shaped(E) /\ E.last = D.last /\ E.value = D.value
<1>1. PICK rows : E = [D EXCEPT !.row = rows]
  BY Zenon DEF UpdateItems
<1> DEFINE B == [row |-> rows, last |-> D.last, value |-> D.value, def |-> D.def]
<1>2. E = B
  BY <1>1, DataChanged
<1>3. B.last = D.last /\ B.value = D.value
      /\ B = [row |-> B.row, last |-> B.last, value |-> B.value, def |-> B.def]
  OBVIOUS
<1> HIDE DEF B
<1> QED
  BY <1>2, <1>3 DEF Shaped

LEMMA ChosenTyped ==
  ASSUME NEW val \in [Pointers -> {Null} \cup SomeValues], NEW k, NEW kept \in Seq(0..MaxValues),
         \A n \in DOMAIN kept : kept[n] \in Embedded(val), NEW added, NEW new \in 0..MaxRows
  PROVE  Chosen(val, k, kept, added, new) \in 0..MaxRows
<1> DEFINE marked == {i \in DOMAIN kept : val[kept[i]].def}
           cell == {i \in DOMAIN kept : k = "number" /\ val[kept[i]].cell}
<1>1. Len(kept) \in Nat /\ DOMAIN kept = 1..Len(kept) /\ 0 \in 0..MaxRows
  BY LenProperties, ConstantsAssumption
<1>2. marked \subseteq 1..Len(kept) /\ cell \subseteq 1..Len(kept) /\ cell \subseteq Nat
  BY <1>1
<1>3. \A i \in DOMAIN kept : val[kept[i]].id \in 0..MaxRows
  <2> SUFFICES ASSUME NEW i \in DOMAIN kept PROVE val[kept[i]].id \in 0..MaxRows
    OBVIOUS
  <2>1. val[kept[i]] \in SomeValues
    BY DEF Embedded
  <2> QED
    BY <2>1 DEF SomeValues, Values
<1>4. \/ Chosen(val, k, kept, added, new) \in {new, 0}
      \/ marked # {} /\ Chosen(val, k, kept, added, new) = val[kept[Max(marked)]].id
      \/ cell # {} /\ Chosen(val, k, kept, added, new) = val[kept[Min(cell)]].id
  BY DEF Chosen
<1> HIDE DEF marked, cell
<1>5. marked # {} => Max(marked) \in DOMAIN kept
  BY <1>1, <1>2, Largest
<1>6. cell # {} => Min(cell) \in DOMAIN kept
  BY <1>1, <1>2, Smallest
<1> QED
  BY <1>1, <1>3, <1>4, <1>5, <1>6

LEMMA UpdateListTyped ==
  ASSUME NEW D, Shaped(D), NEW c \in 1..MaxContacts, NEW k \in Kinds, NEW list \in Seq(0..MaxValues),
         NEW U, U = UpdateList(D, c, k, list)
  PROVE  /\ Shaped(U) /\ D.last <= U.last
         /\ \A val : DataTyped(D, val) /\ Takes(val, list) /\ U.last <= MaxRows => DataTyped(U, val)
<1> DEFINE old == WithRow(D.value, list)
           live == Live(D.value, list)
           added == WithoutRow(D.value, live)
           B == UpdateItems(D, old)
           F == [B EXCEPT !.def = NoDefault]
           E == InsertList(F, c, k, added)
           new == IF k \in Defaults THEN E.def[k] ELSE 0
           def == Chosen(D.value, k, Written(D.value, old), added, new)
           d == IF k \in Defaults /\ list # <<>> THEN [D.def EXCEPT ![k] = def] ELSE D.def
<1>1. U = [E EXCEPT !.def = d]
  BY DEF UpdateList
<1>2. old \in Seq(0..MaxValues) /\ \A val : Takes(val, list) => \A n \in DOMAIN old : old[n] \in Embedded(val)
  BY SelectedLists
<1>3. live \in Seq(0..MaxValues) /\ \A val : Takes(val, list) => Takes(val, live)
  BY SelectedLists
<1> HIDE DEF live
<1>4. added \in Seq(0..MaxValues) /\ \A val : Takes(val, list) => Takes(val, added)
  BY <1>3, SelectedLists
<1>5. \A val : Takes(val, list) => Takes(val, old)
  BY SelectedLists
<1> HIDE DEF old, added
<1>6. Shaped(B) /\ B.last = D.last /\ B.value = D.value
  BY ItemsShaped
<1>7. \A val : DataTyped(D, val) /\ Takes(val, list) => DataTyped(B, val)
  BY <1>2, UpdateItemsTyped
<1> HIDE DEF B
<1>8. NoDefault \in [Defaults -> 0..MaxRows]
  BY ConstantsAssumption DEF NoDefault
<1>9. /\ Shaped(F) /\ F.last = D.last /\ F.value = D.value
      /\ \A val : DataTyped(B, val) => DataTyped(F, val)
  BY <1>6, <1>8, DefaultSet
<1> HIDE DEF F
<1>10. /\ Shaped(E) /\ F.last <= E.last
       /\ \A val : DataTyped(F, val) /\ Takes(val, added) /\ E.last <= MaxRows => DataTyped(E, val)
  BY <1>4, <1>9, InsertListTyped
<1> HIDE DEF E
<1>11. /\ Shaped(U) /\ U.last = E.last
       /\ \A val : DataTyped(E, val) /\ d \in [Defaults -> 0..MaxRows] => DataTyped(U, val)
  <2> HIDE DEF d
  <2> QED
    BY <1>1, <1>10, DefaultSet
<1>12. ASSUME NEW val, DataTyped(D, val), Takes(val, list), U.last <= MaxRows
       PROVE  DataTyped(U, val)
  <2>1. DataTyped(E, val)
    BY <1>4, <1>7, <1>9, <1>10, <1>11, <1>12
  <2>2. new \in 0..MaxRows
    BY <2>1, ConstantsAssumption DEF DataTyped
  <2>3. D.value \in [Pointers -> {Null} \cup SomeValues] /\ D.def \in [Defaults -> 0..MaxRows]
        /\ Embedded(D.value) = Embedded(val)
    BY <1>12 DEF DataTyped
  <2> DEFINE kept == Written(D.value, old)
  <2>4. kept \in Seq(0..MaxValues) /\ \A n \in DOMAIN kept : kept[n] \in Embedded(D.value)
    <3>1. Takes(D.value, old)
      BY <1>5, <1>12, <2>3 DEF Takes
    <3> QED
      BY <1>2, <3>1, SelectedLists
  <2> HIDE DEF new
  <2>5. def \in 0..MaxRows
    <3> HIDE DEF kept
    <3>1. Chosen(D.value, k, kept, added, new) \in 0..MaxRows
      BY <2>2, <2>3, <2>4, ChosenTyped
    <3> QED
      BY <3>1 DEF kept
  <2> HIDE DEF def
  <2>6. d \in [Defaults -> 0..MaxRows]
    BY <2>3, <2>5
  <2> HIDE DEF d
  <2> QED
    BY <1>11, <2>1, <2>6
<1> QED
  BY <1>9, <1>10, <1>11, <1>12

LEMMA UpdateListsTyped ==
  ASSUME NEW D, Shaped(D), NEW c \in 1..MaxContacts, NEW x \in Contents
  PROVE  /\ Shaped(UpdateLists(D, c, x)) /\ D.last <= UpdateLists(D, c, x).last
         /\ \A val : /\ DataTyped(D, val) /\ \A k \in Kinds : Takes(val, x.list[k])
                     /\ UpdateLists(D, c, x).last <= MaxRows
                     => DataTyped(UpdateLists(D, c, x), val)
<1>1. ASSUME NEW B, Shaped(B), NEW k, NEW I, I = UpdateKind(B, c, k, x)
      PROVE  /\ Shaped(I) /\ B.last <= I.last
             /\ \A val : /\ DataTyped(B, val) /\ \A l \in Kinds : Takes(val, x.list[l])
                         /\ I.last <= MaxRows
                         => DataTyped(I, val)
  <2>1. CASE k \in Kinds
    <3>1. x.list[k] \in Seq(0..MaxValues) /\ I = UpdateList(B, c, k, x.list[k])
      BY <1>1, <2>1, ContentsFields DEF UpdateKind
    <3> QED
      BY <1>1, <2>1, <3>1, UpdateListTyped
  <2>2. CASE k \notin Kinds
    BY <1>1, <2>2 DEF UpdateKind, Shaped
  <2> QED
    BY <2>1, <2>2
<1> DEFINE W == UpdateKind(D, c, "web", x)
           N == UpdateKind(W, c, "number", x)
           E == UpdateKind(N, c, "email", x)
<1>2. UpdateLists(D, c, x) = E
  BY DEF UpdateLists
<1>3. /\ Shaped(W) /\ D.last <= W.last
      /\ \A val : DataTyped(D, val) /\ (\A l \in Kinds : Takes(val, x.list[l])) /\ W.last <= MaxRows
                    => DataTyped(W, val)
  BY <1>1
<1> HIDE DEF W
<1>4. /\ Shaped(N) /\ W.last <= N.last
      /\ \A val : DataTyped(W, val) /\ (\A l \in Kinds : Takes(val, x.list[l])) /\ N.last <= MaxRows
                    => DataTyped(N, val)
  BY <1>1, <1>3
<1> HIDE DEF N
<1>5. /\ Shaped(E) /\ N.last <= E.last
      /\ \A val : DataTyped(N, val) /\ (\A l \in Kinds : Takes(val, x.list[l])) /\ E.last <= MaxRows
                    => DataTyped(E, val)
  BY <1>1, <1>4
<1> HIDE DEF E
<1>6. D.last \in Nat /\ W.last \in Nat /\ N.last \in Nat /\ E.last \in Nat /\ MaxRows \in Nat
  BY <1>3, <1>4, <1>5, ConstantsAssumption DEF Shaped
<1>7. D.last <= E.last /\ (E.last <= MaxRows => W.last <= MaxRows /\ N.last <= MaxRows)
  BY <1>3, <1>4, <1>5, <1>6
<1> QED
  BY <1>2, <1>3, <1>4, <1>5, <1>7

LEMMA UpdateNameTyped ==
  ASSUME NEW D, NEW val, DataTyped(D, val), NEW n \in RealNames
  PROVE  DataTyped(UpdateName(D, n), val)
<1>1. CASE n.changed /\ n.id \in DOMAIN D.row
  <2> DEFINE r == NameRow(D.row[n.id].contact, n)
             rows == [D.row EXCEPT ![n.id] = r]
  <2>1. UpdateName(D, n) = [D EXCEPT !.row = rows]
    BY <1>1 DEF UpdateName
  <2>2. D.row \in [DOMAIN D.row -> DataRows]
    BY DEF DataTyped
  <2>3. D.row[n.id].contact \in 1..MaxContacts
    BY <1>1, <2>2 DEF DataRows
  <2>4. r \in DataRows
    <3>1. Null \in SomeCompanies
      BY DEF SomeCompanies
    <3> QED
      BY <2>3, <3>1, WrittenRows
  <2> HIDE DEF r
  <2>5. DOMAIN rows \subseteq DOMAIN D.row /\ rows = [i \in DOMAIN rows |-> rows[i]]
        /\ \A i \in DOMAIN rows : rows[i] \in DataRows
    BY <2>2, <2>4
  <2> HIDE DEF rows
  <2> QED
    BY <2>1, <2>5, RowsChanged
<1>2. CASE ~(n.changed /\ n.id \in DOMAIN D.row)
  BY <1>2 DEF UpdateName
<1> QED
  BY <1>1, <1>2

LEMMA UpdateCompanyTyped ==
  ASSUME NEW D, NEW val, DataTyped(D, val), NEW c \in 1..MaxContacts, NEW company \in SomeCompanies
  PROVE  DataTyped(UpdateCompany(D, c, company), val)
<1>1. D.row \in [DOMAIN D.row -> DataRows] /\ Shaped(D)
  BY DEF DataTyped
<1>2. CASE company = Null
  BY <1>2 DEF UpdateCompany
<1>3. CASE company # Null /\ company.id = 0
  <2>1. UpdateCompany(D, c, company) = Added(D, CompanyRows(c, company))
    BY <1>3 DEF UpdateCompany
  <2>2. CompanyRows(c, company) \in Seq(DataRows)
    BY CompanyRowsTyped
  <2>3. Len(CompanyRows(c, company)) \in Nat
    BY <2>2, LenProperties
  <2> QED
    BY <1>1, <2>1, <2>2, <2>3, AddedRows
<1>4. CASE company # Null /\ company.id # 0 /\ company.text = Null
  <2> DEFINE rows == Restrict(D.row, DOMAIN D.row \ {company.id})
  <2>1. UpdateCompany(D, c, company) = [D EXCEPT !.row = rows]
    BY <1>4 DEF UpdateCompany
  <2>2. rows = [i \in DOMAIN D.row \ {company.id} |-> D.row[i]]
    BY DEF Restrict
  <2> HIDE DEF rows
  <2>3. DOMAIN rows \subseteq DOMAIN D.row /\ rows = [i \in DOMAIN rows |-> rows[i]]
        /\ \A i \in DOMAIN rows : rows[i] \in DataRows
    BY <1>1, <2>2
  <2> QED
    BY <2>1, <2>3, RowsChanged
<1>5. CASE company # Null /\ company.id # 0 /\ company.text # Null /\ company.id \notin DOMAIN D.row
  BY <1>5 DEF UpdateCompany
<1>6. CASE company # Null /\ company.id # 0 /\ company.text # Null /\ company.id \in DOMAIN D.row
  <2> DEFINE old == D.row[company.id]
             r == [old EXCEPT !.text = company.text]
             rows == [D.row EXCEPT ![company.id] = r]
  <2>1. UpdateCompany(D, c, company) = [D EXCEPT !.row = rows]
    BY <1>6 DEF UpdateCompany
  <2>2. old \in DataRows /\ company.text \in Texts
    BY <1>1, <1>6 DEF SomeCompanies
  <2> HIDE DEF old
  <2>3. r \in DataRows
    BY <2>2 DEF DataRows
  <2> HIDE DEF r
  <2>4. DOMAIN rows \subseteq DOMAIN D.row /\ rows = [i \in DOMAIN rows |-> rows[i]]
        /\ \A i \in DOMAIN rows : rows[i] \in DataRows
    BY <1>1, <2>3
  <2> HIDE DEF rows
  <2> QED
    BY <2>1, <2>4, RowsChanged
<1> QED
  BY <1>2, <1>3, <1>4, <1>5, <1>6

\* Other structs of the contact no longer match it; their contents stay.
LEMMA OvertakenStructs ==
  ASSUME NEW val, NEW st, Objects(val, st), NEW s, NEW c
  PROVE  Objects(val, Overtaken(st, s, c))
<1> DEFINE new == Overtaken(st, s, c)
<1>1. st \in [Structs -> {Null} \cup Contents]
  BY DEF Objects
<1>2. ASSUME NEW t \in Structs
      PROVE  /\ new[t] = Null <=> st[t] = Null
             /\ new[t] \in {Null} \cup Contents
             /\ st[t] # Null => new[t].list = st[t].list /\ (new[t].use # "merged" => st[t].use # "merged")
  <2>1. CASE t # s /\ st[t] # Null /\ st[t].base = c /\ st[t].use = "read"
    <3>1. new[t] = [st[t] EXCEPT !.use = "spent"] /\ st[t] \in Contents
      BY <1>1, <2>1 DEF Overtaken
    <3>2. [st[t] EXCEPT !.use = "spent"] \in Contents
      BY <3>1, ContentsChanged
    <3>3. [st[t] EXCEPT !.use = "spent"].list = st[t].list
      BY <3>1 DEF Contents
    <3> QED
      BY <2>1, <3>1, <3>2, <3>3, NullIsNone
  <2>2. CASE ~(t # s /\ st[t] # Null /\ st[t].base = c /\ st[t].use = "read")
    <3>1. new[t] = st[t]
      BY <2>2 DEF Overtaken
    <3> QED
      BY <1>1, <3>1
  <2> QED
    BY <2>1, <2>2
<1>3. new \in [Structs -> {Null} \cup Contents]
  <2>1. DOMAIN new = Structs /\ new = [t \in Structs |-> new[t]]
    BY DEF Overtaken
  <2> HIDE DEF new
  <2> QED
    BY <1>2, <2>1
<1> HIDE DEF new
<1>4. Lists(new) = Lists(st)
  <2>1. \A t \in Structs, k \in Kinds :
          (IF new[t] = Null THEN <<>> ELSE new[t].list[k]) = (IF st[t] = Null THEN <<>> ELSE st[t].list[k])
    BY <1>2
  <2> QED
    BY <2>1 DEF Lists
<1>5. \A t \in Structs : new[t] # Null => NoNulls(new[t])
  BY <1>2 DEF Objects, NoNulls
<1>6. Objects(val, new)
  BY <1>3, <1>4, <1>5 DEF Objects
<1> QED
  BY <1>6 DEF new

LEMMA UpdateStep ==
  ASSUME CInv, NEW s \in Structs, Update(s)
  PROVE  CInv'
<1> DEFINE x == struct[s]
           c == x.base
           n == NamedForUpdate(x)
           D0 == [Data EXCEPT !.def = x.def]
           D1 == UpdateName(D0, n)
           D2 == UpdateCompany(D1, c, x.company)
           D == UpdateLists(D2, c, x)
           def == FirstForDefault(D.value, x, D.def)
           y == [x EXCEPT !.name = n, !.def = def, !.use = "spent"]
           written == [struct EXCEPT ![s] = y]
<1>1. /\ Usable(s) /\ c \in DOMAIN contact
      /\ D.last <= MaxRows /\ value' = D.value
      /\ \/ /\ struct' = Overtaken(written, s, c)
            /\ row' = D.row /\ lastrow' = D.last /\ UNCHANGED lastcontact
            /\ \E image \in Copied(ImagesBound(x, contact[c].image)) :
                 contact' = [contact EXCEPT ![c] = [def |-> def, image |-> image]]
         \/ struct' = written /\ UNCHANGED database
  <2>1. Usable(s) /\ c \in DOMAIN contact
    BY DEF Update
  <2>2. /\ D.last <= MaxRows /\ value' = D.value
        /\ \/ /\ struct' = Overtaken(written, s, c)
              /\ row' = D.row /\ lastrow' = D.last /\ UNCHANGED lastcontact
              /\ \E image \in Copied(ImagesBound(x, contact[c].image)) :
                   contact' = [contact EXCEPT ![c] = [def |-> def, image |-> image]]
           \/ struct' = written /\ UNCHANGED database
    BY DEF Update
  <2> HIDE DEF x, c, n, D, def, written
  <2> QED
    BY <2>1, <2>2
<1>2. /\ lastcontact \in 0..MaxContacts /\ c \in 1..MaxContacts /\ MaxRows \in Nat
      /\ DOMAIN contact \subseteq 1..lastcontact /\ contact \in [DOMAIN contact -> ContactRows]
  <2>1. lastcontact \in 0..MaxContacts /\ MaxContacts \in Nat /\ MaxRows \in Nat
        /\ DOMAIN contact \subseteq 1..lastcontact /\ contact \in [DOMAIN contact -> ContactRows]
    BY ConstantsAssumption DEF CInv, Contacts
  <2>2. c \in 1..lastcontact
    BY <1>1, <2>1
  <2> HIDE DEF c
  <2> QED
    BY <2>1, <2>2
<1>3. /\ x \in Contents /\ \A k \in Kinds : Takes(value, x.list[k])
      /\ value \in [Pointers -> {Null} \cup SomeValues] /\ x.company \in SomeCompanies
      /\ DataTyped(D0, value)
  BY <1>1, UsableStructs
<1> HIDE DEF x, c, D0
<1>4. n \in RealNames /\ n \in SomeNames
  BY <1>3, ShownTyped DEF SomeNames
<1> HIDE DEF n
<1>5. DataTyped(D1, value)
  BY <1>3, <1>4, UpdateNameTyped
<1> HIDE DEF D1
<1>6. DataTyped(D2, value) /\ Shaped(D2)
  <2>1. DataTyped(D2, value)
    BY <1>2, <1>3, <1>5, UpdateCompanyTyped
  <2> QED
    BY <2>1 DEF DataTyped
<1> HIDE DEF D2
<1>7. DataTyped(D, value)
  BY <1>1, <1>2, <1>3, <1>6, UpdateListsTyped
<1> HIDE DEF D
<1>8. /\ D.last \in 0..MaxRows /\ DOMAIN D.row \subseteq 1..D.last /\ D.row \in [DOMAIN D.row -> DataRows]
      /\ D.value \in [Pointers -> {Null} \cup SomeValues] /\ Embedded(D.value) = Embedded(value)
      /\ D.def \in [Defaults -> 0..MaxRows]
  BY <1>1, <1>2, <1>7 DEF DataTyped, Shaped
<1>9. def \in [Defaults -> 0..MaxRows]
  <2>1. \A k \in Kinds : Takes(D.value, x.list[k])
    BY <1>3, <1>8 DEF Takes
  <2> QED
    BY <1>3, <1>8, <2>1, FirstDefaultTyped
<1> HIDE DEF def
<1>10. y \in Contents /\ y.list = x.list
  <2>1. y \in Contents
    BY <1>3, <1>4, <1>9 DEF Contents, SomeNames, RealNames
  <2>2. y.list = x.list
    BY <1>3 DEF Contents
  <2> QED
    BY <2>1, <2>2
<1> HIDE DEF y
<1>11. Objects(value', written)
  BY <1>1, <1>8, <1>10, StructWritten DEF x
<1> HIDE DEF written
<1>12. CASE struct' = written /\ UNCHANGED database
  BY <1>11, <1>12, ObjectsOnly
<1>13. ASSUME struct' = Overtaken(written, s, c), row' = D.row, lastrow' = D.last, UNCHANGED lastcontact,
              NEW image \in Copied(ImagesBound(x, contact[c].image)),
              contact' = [contact EXCEPT ![c] = [def |-> def, image |-> image]]
       PROVE  CInv'
  <2>1. Rows(row', lastrow')
    BY <1>8, <1>13 DEF Rows
  <2>2. [def |-> def, image |-> image] \in ContactRows
    <3>1. x.image \in [Images -> Paths \cup {Null}] /\ contact[c].image \in [Images -> Paths \cup {Null}]
      BY <1>1, <1>2, <1>3, ContentsFields DEF ContactRows
    <3>2. ImagesBound(x, contact[c].image) \in [Images -> Paths \cup {Null}]
      BY <3>1 DEF ImagesBound, NoImage, Images
    <3>3. image \in [Images -> Paths \cup {Null}]
      BY <3>2 DEF Copied
    <3> QED
      BY <1>9, <3>3 DEF ContactRows
  <2>3. Contacts(contact', lastcontact')
    BY <1>1, <1>2, <1>13, <2>2 DEF Contacts
  <2>4. Objects(value', struct')
    BY <1>11, <1>13, OvertakenStructs
  <2> QED
    BY <2>1, <2>3, <2>4 DEF CInv
<1> QED
  BY <1>1, <1>12, <1>13

LEMMA UpdateRefusedStep ==
  ASSUME CInv, NEW s \in Structs, UpdateRefused(s)
  PROVE  CInv'
<1> DEFINE x == struct[s]
           n == NamedForUpdate(x)
           y == [x EXCEPT !.name = n, !.use = "spent"]
<1>1. /\ Usable(s) /\ UNCHANGED <<value, database>>
      /\ UNCHANGED struct \/ struct' = [struct EXCEPT ![s].name = n, ![s].use = "spent"]
  BY DEF UpdateRefused
<1>2. x \in Contents /\ (\A k \in Kinds : Takes(value, x.list[k]))
      /\ value \in [Pointers -> {Null} \cup SomeValues]
  BY <1>1, UsableStructs
<1>3. struct \in [Structs -> {Null} \cup Contents]
  BY DEF CInv, Objects
<1>4. CASE UNCHANGED struct
  BY <1>1, <1>4 DEF CInv, database
<1>5. CASE struct' = [struct EXCEPT ![s].name = n, ![s].use = "spent"]
  <2>1. struct' = [struct EXCEPT ![s] = y]
    BY <1>3, <1>5
  <2>2. n \in SomeNames
    BY <1>2, ShownTyped DEF SomeNames
  <2> HIDE DEF n, x
  <2>3. y \in Contents
    BY <1>2, <2>2 DEF Contents, SomeNames, RealNames
  <2>4. y.list = x.list
    BY <1>2 DEF Contents
  <2> HIDE DEF y
  <2>5. Objects(value', struct')
    BY <1>1, <1>2, <2>1, <2>3, <2>4, StructWritten DEF x
  <2> QED
    BY <1>1, <2>5, ObjectsOnly
<1> QED
  BY <1>1, <1>4, <1>5

\* contacts_svc_put_contact_value.
LEMMA PutStep ==
  ASSUME CInv, NEW c \in 1..lastcontact, NEW p \in Pointers, Put(c, p)
  PROVE  CInv'
<1> DEFINE v == value[p]
           new == <<Row(c, v.kind, v.text, v.cell, Null)>>
           D == Added(Data, new)
<1>1. /\ value[p] # Null /\ v.kind \in Defaults /\ v.text # Null /\ lastrow < MaxRows
      /\ row' = D.row /\ lastrow' = D.last
      /\ contact' = IF v.def /\ c \in DOMAIN contact
                    THEN [contact EXCEPT ![c].def[v.kind] = D.last] ELSE contact
      /\ struct' = Overtaken(struct, Null, c) /\ UNCHANGED <<value, lastcontact>>
  BY DEF Put
<1>2. /\ lastcontact \in 0..MaxContacts /\ c \in 1..MaxContacts /\ MaxRows \in Nat
      /\ DOMAIN contact \subseteq 1..lastcontact /\ contact \in [DOMAIN contact -> ContactRows]
      /\ lastrow \in Nat /\ DOMAIN row \subseteq 1..lastrow /\ row \in [DOMAIN row -> DataRows]
      /\ value \in [Pointers -> {Null} \cup SomeValues]
  BY ConstantsAssumption DEF CInv, Contacts, Rows, Objects
<1>3. v.kind \in Kinds /\ v.text \in Texts /\ v.cell \in BOOLEAN
  <2>1. v \in SomeValues
    BY <1>1, <1>2
  <2> HIDE DEF v
  <2> QED
    BY <1>1, <2>1 DEF SomeValues, Values
<1>4. new \in Seq(DataRows) /\ Len(new) = 1
  <2>1. Row(c, v.kind, v.text, v.cell, Null) \in DataRows
    BY <1>2, <1>3 DEF Row, DataRows
  <2> HIDE DEF v
  <2> QED
    BY <2>1
<1>5. DataTyped(Data, value) /\ Data.last = lastrow
  <2> DEFINE d == [row |-> row, last |-> lastrow, value |-> value, def |-> NoDefault]
  <2>1. Data = d
    BY DEF Data
  <2>2. NoDefault \in [Defaults -> 0..MaxRows]
    BY ConstantsAssumption DEF NoDefault
  <2>3. d.row = row /\ d.last = lastrow /\ d.value = value /\ d.def = NoDefault
        /\ d = [row |-> d.row, last |-> d.last, value |-> d.value, def |-> d.def]
    OBVIOUS
  <2> HIDE DEF d
  <2>4. DataTyped(d, value)
    BY <1>2, <2>2, <2>3 DEF DataTyped, Shaped
  <2> QED
    BY <2>1, <2>3, <2>4
<1> HIDE DEF new, v
<1>6. DataTyped(D, value) /\ D.last = lastrow + 1
  <2>1. Shaped(Data) /\ Len(new) \in Nat
    BY <1>4, <1>5 DEF DataTyped
  <2> QED
    BY <1>4, <1>5, <2>1, AddedRows
<1> HIDE DEF D
<1>7. Rows(row', lastrow')
  BY <1>1, <1>2, <1>6 DEF DataTyped, Rows
<1>8. Contacts(contact', lastcontact')
  <2>1. CASE v.def /\ c \in DOMAIN contact
    <3> DEFINE def == [contact[c].def EXCEPT ![v.kind] = D.last]
               r == [contact[c] EXCEPT !.def = def]
    <3>1. contact' = [contact EXCEPT ![c] = r]
      BY <1>1, <2>1
    <3>2. contact[c] \in ContactRows
      BY <1>2, <2>1
    <3>3. contact[c].def \in [Defaults -> 0..MaxRows] /\ D.last \in 0..MaxRows
      BY <1>1, <1>2, <1>6, <3>2 DEF ContactRows
    <3>4. def \in [Defaults -> 0..MaxRows]
      BY <3>3
    <3> HIDE DEF def
    <3>5. r \in ContactRows
      BY <3>2, <3>4 DEF ContactRows
    <3> HIDE DEF r
    <3> QED
      BY <1>1, <1>2, <2>1, <3>1, <3>5 DEF Contacts
  <2>2. CASE ~(v.def /\ c \in DOMAIN contact)
    BY <1>1, <1>2, <2>2 DEF Contacts
  <2> QED
    BY <2>1, <2>2
<1>9. Objects(value', struct')
  BY <1>1, OvertakenStructs DEF CInv
<1> QED
  BY <1>7, <1>8, <1>9 DEF CInv

LEMMA DeleteStep ==
  ASSUME CInv, NEW c \in DOMAIN contact, Delete(c)
  PROVE  CInv'
<1>1. /\ contact' = Restrict(contact, DOMAIN contact \ {c})
      /\ row' = Restrict(row, {i \in DOMAIN row : row[i].contact # c})
      /\ struct' = Overtaken(struct, Null, c) /\ UNCHANGED <<value, lastrow, lastcontact>>
  BY DEF Delete
<1>2. Objects(value', struct')
  BY <1>1, OvertakenStructs DEF CInv
<1>3. Rows(row', lastrow')
  BY <1>1 DEF CInv, Rows, Restrict
<1>4. Contacts(contact', lastcontact')
  BY <1>1 DEF CInv, Contacts, Restrict
<1> QED
  BY <1>2, <1>3, <1>4 DEF CInv

-----------------------------------------------------------------------------
(* The invariant.                                                           *)

LEMMA InvInit == Init => CInv
<1> SUFFICES ASSUME Init PROVE CInv
  OBVIOUS
<1>1. value = [p \in Pointers |-> Null] /\ struct = [s \in Structs |-> Null]
  BY DEF Init
<1>2. Embedded(value) = {} /\ \A s \in Structs, k \in Kinds : Lists(struct)[s][k] = <<>>
  BY <1>1 DEF Embedded, Lists
<1>3. OwnedBy(Lists(struct), Embedded(value))
  BY <1>2 DEF OwnedBy, Distinct, ItemSet, Range
<1>4. Objects(value, struct)
  BY <1>1, <1>3 DEF Objects
<1>5. PICK found \in Stored : /\ row = found.row /\ contact = found.contact
                              /\ lastrow = Len(found.row) /\ lastcontact = Len(found.contact)
  BY DEF Init
<1>6. /\ \E n \in 0..MaxRows : row \in [1..n -> DataRows]
      /\ \E n \in 0..MaxContacts : contact \in [1..n -> ContactRows]
  BY <1>5, StoredAssumption
<1>7. Rows(row, lastrow)
  <2>1. PICK n \in 0..MaxRows : row \in [1..n -> DataRows]
    BY <1>6
  <2>2. lastrow = n
    BY <1>5, <2>1, ConstantsAssumption
  <2> QED
    BY <2>1, <2>2 DEF Rows
<1>8. Contacts(contact, lastcontact)
  <2>1. PICK n \in 0..MaxContacts : contact \in [1..n -> ContactRows]
    BY <1>6
  <2>2. lastcontact = n
    BY <1>5, <2>1, ConstantsAssumption
  <2> QED
    BY <2>1, <2>2 DEF Contacts
<1> QED
  BY <1>4, <1>7, <1>8 DEF CInv

LEMMA InvStep == CInv /\ [Next]_vars => CInv'
<1> SUFFICES ASSUME CInv, [Next]_vars PROVE CInv'
  OBVIOUS
<1>1. ASSUME ValueNext PROVE CInv'
  <2>1. ASSUME NEW p \in Pointers, StealStr(p) PROVE CInv'
    BY <2>1, SetStep DEF StealStr
  <2> QED
    BY <1>1, <2>1, NewValueStep, FreeValueStep, SetStep DEF ValueNext
<1>2. ASSUME NEW s \in Structs, StoreNext(s) PROVE CInv'
  <2>1. ASSUME NEW k \in Kinds, NEW added \in {<<>>} \cup {<<p>> : p \in Loose(k)}, StoreOwn(s, k, added)
        PROVE  CInv'
    BY <2>1, StoreOwnStep
  <2>2. ASSUME NEW k \in Kinds, NEW p \in OfKind(k), NEW q \in OfKind(k),
               StoreList(s, k, IF p = q THEN <<p>> ELSE <<p, q>>)
        PROVE  CInv'
    BY <2>2, StoreListStep
  <2>3. ASSUME \/ \E n \in Names : StoreName(s, n)
               \/ \E t \in Texts \cup {Null} : StoreCompany(s, t)
               \/ \E i \in Images, path \in Paths \cup {Null} : StoreImage(s, i, path)
        PROVE  CInv'
    BY <2>3, StoreStep
  <2> QED
    BY <1>2, <2>1, <2>2, <2>3, Zenon DEF StoreNext
<1>3. ASSUME NEW s \in Structs, StructNext(s) PROVE CInv'
  BY <1>3, NewStructStep, FreeStructStep, MergeStep, DuplicateStep, UpdateStep, UpdateRefusedStep,
     InsertStep, GetStep DEF StructNext
<1>4. ASSUME UNCHANGED vars PROVE CInv'
  BY <1>4 DEF vars, objects, database, CInv
<1> QED
  BY <1>1, <1>2, <1>3, <1>4, PutStep, DeleteStep DEF Next

\* In every state the values that structs have taken are divided among their
\* lists, none in two places, only contacts_svc_struct_merge leaves an item that
\* is NULL, and the rows of data and contacts have ids that sqlite has given.
THEOREM ContactInvariant == Spec => []CInv
BY InvInit, InvStep, PTL DEF Spec

\* Values, structs and rows are well-typed in every state, whatever the program
\* calls, the values and names it stores and the database it finds.
THEOREM ContactIsTyped == Spec => []TypeOK
<1>1. CInv => TypeOK
  BY DEF CInv, Objects, Rows, Contacts, TypeOK, SomeValues
<1> QED
  BY <1>1, ContactInvariant, PTL

\* Every value a struct has taken is an item of one list of one struct and every
\* item is allocated: cts_struct_dup_list, contacts_svc_struct_store_list,
\* contacts_svc_struct_merge and cts_contact_free together neither share a value
\* between two structs, nor leak one, nor free one twice.
THEOREM ValuesAreOwnedOnce == Spec => []OwnedOnce
<1>1. ASSUME CInv PROVE OwnedOnce
  <2> SUFFICES ASSUME NEW p \in Pointers
               PROVE  Cardinality(HeldBy(p)) = IF value[p] # Null /\ value[p].embedded THEN 1 ELSE 0
    BY DEF OwnedOnce
  <2>1. OwnedBy(Lists(struct), Embedded(value)) /\ p # 0
    BY <1>1, PointersAreNumbers DEF CInv, Objects
  <2>2. \A s \in Structs, k \in Kinds :
          Lists(struct)[s][k] = IF struct[s] = Null THEN <<>> ELSE struct[s].list[k]
    BY DEF Lists
  <2>3. \A h : h \in HeldBy(p) <=>
          \E s \in Structs, k \in Kinds : \E i \in DOMAIN Lists(struct)[s][k] :
            Lists(struct)[s][k][i] = p /\ h = <<s, <<k, i>>>>
    <3> SUFFICES ASSUME NEW h
                 PROVE  h \in HeldBy(p) <=>
                          \E s \in Structs, k \in Kinds : \E i \in DOMAIN Lists(struct)[s][k] :
                            Lists(struct)[s][k][i] = p /\ h = <<s, <<k, i>>>>
      OBVIOUS
    <3>1. ASSUME h \in HeldBy(p)
          PROVE  \E s \in Structs, k \in Kinds : \E i \in DOMAIN Lists(struct)[s][k] :
                   Lists(struct)[s][k][i] = p /\ h = <<s, <<k, i>>>>
      <4>1. PICK s \in {t \in Structs : struct[t] # Null} :
              h \in {s} \X {x \in Slots(struct[s].list) : struct[s].list[x[1]][x[2]] = p}
        BY <3>1, Zenon DEF HeldBy
      <4>2. s \in Structs /\ struct[s] # Null
        BY <4>1
      <4>3. PICK x \in Slots(struct[s].list) : struct[s].list[x[1]][x[2]] = p /\ h = <<s, x>>
        BY <4>1
      <4>4. x[1] \in Kinds /\ x[2] \in DOMAIN struct[s].list[x[1]] /\ x = <<x[1], x[2]>>
        BY <4>3, SlotsOfLists, Zenon
      <4>5. Lists(struct)[s][x[1]] = struct[s].list[x[1]]
        BY <2>2, <4>2, <4>4
      <4>6. x[2] \in DOMAIN Lists(struct)[s][x[1]] /\ Lists(struct)[s][x[1]][x[2]] = p
        BY <4>3, <4>4, <4>5
      <4>7. h = <<s, <<x[1], x[2]>>>>
        BY <4>3, <4>4, Zenon
      <4> QED
        BY <4>2, <4>4, <4>6, <4>7, Zenon
    <3>2. ASSUME NEW s \in Structs, NEW k \in Kinds, NEW i \in DOMAIN Lists(struct)[s][k],
                 Lists(struct)[s][k][i] = p, h = <<s, <<k, i>>>>
          PROVE  h \in HeldBy(p)
      <4>1. struct[s] # Null
        BY <2>2, <3>2
      <4>2. Lists(struct)[s][k] = struct[s].list[k]
        BY <2>2, <4>1
      <4>3. <<k, i>> \in Slots(struct[s].list)
        BY <4>2, SlotsOfLists
      <4>4. h \in {s} \X {x \in Slots(struct[s].list) : struct[s].list[x[1]][x[2]] = p}
        BY <3>2, <4>2, <4>3
      <4>5. s \in {t \in Structs : struct[t] # Null}
        BY <4>1
      <4>6. {s} \X {x \in Slots(struct[s].list) : struct[s].list[x[1]][x[2]] = p}
              \in {{t} \X {x \in Slots(struct[t].list) : struct[t].list[x[1]][x[2]] = p} :
                   t \in {u \in Structs : struct[u] # Null}}
        BY <4>5, Zenon
      <4> QED
        BY <4>4, <4>6, Zenon DEF HeldBy
    <3> QED
      BY <3>1, <3>2
  <2>4. CASE value[p] # Null /\ value[p].embedded
    <3>1. PICK s \in Structs, k \in Kinds : p \in ItemSet(Lists(struct)[s][k])
      BY <2>1, <2>4 DEF OwnedBy, Embedded
    <3>2. PICK i \in DOMAIN Lists(struct)[s][k] : Lists(struct)[s][k][i] = p
      BY <3>1 DEF ItemSet, Range
    <3>3. ASSUME NEW t \in Structs, NEW l \in Kinds, NEW j \in DOMAIN Lists(struct)[t][l],
                 Lists(struct)[t][l][j] = p
          PROVE  <<t, <<l, j>>>> = <<s, <<k, i>>>>
      <4>1. p \in ItemSet(Lists(struct)[t][l])
        BY <2>1, <3>3 DEF ItemSet, Range
      <4>2. t = s /\ l = k
        BY <2>1, <3>1, <4>1, Apart
      <4>3. Distinct(Lists(struct)[s][k])
        BY <2>1 DEF OwnedBy
      <4> QED
        BY <2>1, <3>2, <3>3, <4>2, <4>3 DEF Distinct
    <3>4. HeldBy(p) = {<<s, <<k, i>>>>}
      BY <2>3, <3>2, <3>3
    <3> QED
      BY <2>4, <3>4, FS_Singleton
  <2>5. CASE ~(value[p] # Null /\ value[p].embedded)
    <3>1. ASSUME NEW t \in Structs, NEW l \in Kinds, NEW j \in DOMAIN Lists(struct)[t][l],
                 Lists(struct)[t][l][j] = p
          PROVE  FALSE
      <4>1. p \in ItemSet(Lists(struct)[t][l])
        BY <2>1, <3>1 DEF ItemSet, Range
      <4> QED
        BY <2>1, <2>5, <4>1 DEF OwnedBy, Embedded
    <3>2. HeldBy(p) = {}
      BY <2>3, <3>1
    <3> QED
      BY <2>5, <3>2, FS_EmptySet
  <2> QED
    BY <2>4, <2>5
<1> QED
  BY <1>1, ContactInvariant, PTL
=============================================================================
