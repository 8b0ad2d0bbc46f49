------------------------------ MODULE CtsNumber ------------------------------
(***************************************************************************)
(* How cts-normalize.c makes one key of the ways a number is written: what *)
(* the log and the contacts are joined on.  A number is a sequence of      *)
(* characters: the digits 0..9 and the ones below.                         *)
(***************************************************************************)
EXTENDS Integers, Sequences

Plus == 10
Pause == 11     \* 'p', 'w', '#', '*': dialled
Dash == 12      \* any character that is not

\* check_dirty_number: a '+' counts only in the first position.
Dirty(c) == c \in {Plus, Dash}

cts_clean_number(src) ==
  IF src # <<>> /\ Head(src) = Plus
  THEN <<Plus>> \o SelectSeq(Tail(src), LAMBDA c : ~Dirty(c))
  ELSE SelectSeq(src, LAMBDA c : ~Dirty(c))

\* The country codes of three digits; 1 and 7 have one, all others two.
LongCodes == (21..26) \cup {28, 29, 35, 37, 38, 42, 50, 59, 67, 68, 69, 80, 83, 85}
               \cup (87..89) \cup {96, 97, 99}

DigitAt(s, i) == IF i <= Len(s) /\ s[i] <= 9 THEN s[i] ELSE -1

\* The digits of the code of a number that starts with '+', 0 if it has none.
\* When the second digit is none either, two characters are skipped.
CodeLength(src) ==
  LET first == DigitAt(src, 2)
      second == DigitAt(src, 3)
  IN CASE first \in {-1, 0} -> 0
       [] first \in {1, 7} -> 1
       [] first \notin {-1, 0, 1, 7} ->
            IF second # -1 /\ 10 * first + second \in LongCodes THEN 3 ELSE 2

\* A number that ends inside its code is read past its terminator: the key is
\* what lies there in the caller's buffer.
cts_clean_country_code(src, beyond) ==
  LET n == CodeLength(src) IN
  CASE n = 0 -> src
    [] n > 0 /\ n < Len(src) -> SubSeq(src, n + 2, Len(src))
    [] n > 0 /\ n >= Len(src) -> beyond

cts_normalize_number(src, beyond) ==
  CASE Head(src) = Plus -> cts_clean_country_code(src, beyond)
    [] Head(src) = 0 -> Tail(src)
    [] Head(src) \notin {Plus, 0} -> src

\* The number names its country code whole.
Complete(src) == src = <<>> \/ Head(src) # Plus \/ CodeLength(src) < Len(src)
==============================================================================
