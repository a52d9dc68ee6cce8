------------------------------- MODULE IntSet -------------------------------
(***************************************************************************)
(* The sorted array of integers that a small set of integers is kept in    *)
(* (storage/rdb/redis/intset.c).  encoding is 1, 2 or 3 for elements of    *)
(* 16, 32 or 64 bits; an element of encoding e holds the integers from     *)
(* -Half[e] to Half[e] - 1, and a store wraps to that range.               *)
(***************************************************************************)
EXTENDS Integers, Sequences, SequencesExt

CONSTANT Half    \* 2^15, 2^31, 2^63, or smaller numbers in their place

intsetNew == [encoding |-> 1, contents |-> <<>>]

intsetLen(is) == Len(is.contents)

intsetValueEncoding(v) == Min({e \in 1..3 : -Half[e] <= v /\ v < Half[e]})

\* _intsetSet: the value cast to the width of the encoding.
Stored(e, v) == ((v + Half[e]) % (2 * Half[e])) - Half[e]

\* The binary search; min and max are positions counted from 0.
RECURSIVE Bisect(_, _, _, _)
Bisect(is, v, min, max) ==
  LET mid == (min + max) \div 2
      cur == is.contents[mid + 1]
  IN IF max < min THEN [found |-> FALSE, pos |-> min]
     ELSE IF v > cur THEN Bisect(is, v, mid + 1, max)
     ELSE IF v < cur THEN Bisect(is, v, min, mid - 1)
     ELSE [found |-> TRUE, pos |-> mid]

intsetSearch(is, v) ==
  LET n == intsetLen(is)
  IN IF n = 0 THEN [found |-> FALSE, pos |-> 0]
     ELSE IF v > is.contents[n] THEN [found |-> FALSE, pos |-> n]
     ELSE IF v < is.contents[1] THEN [found |-> FALSE, pos |-> 0]
     ELSE Bisect(is, v, 0, n - 1)

\* Such a value lies outside of all the others: before them if negative.
intsetUpgradeAndAdd(is, v) ==
  LET e   == intsetValueEncoding(v)
      old == [i \in 1..intsetLen(is) |-> Stored(e, is.contents[i])]
  IN [encoding |-> e,
      contents |-> IF v < 0 THEN <<Stored(e, v)>> \o old ELSE old \o <<Stored(e, v)>>]

intsetAdd(is, v) ==
  LET at == intsetSearch(is, v)
  IN IF intsetValueEncoding(v) > is.encoding THEN [is |-> intsetUpgradeAndAdd(is, v), ok |-> TRUE]
     ELSE IF at.found THEN [is |-> is, ok |-> FALSE]
     ELSE [is |-> [is EXCEPT !.contents = InsertAt(@, at.pos + 1, Stored(is.encoding, v))],
           ok |-> TRUE]

intsetFind(is, v) == intsetValueEncoding(v) <= is.encoding /\ intsetSearch(is, v).found

intsetRemove(is, v) ==
  IF intsetFind(is, v)
  THEN [is |-> [is EXCEPT !.contents = RemoveAt(@, intsetSearch(is, v).pos + 1)], ok |-> TRUE]
  ELSE [is |-> is, ok |-> FALSE]

\* What every call leaves: the values rising, within the encoding's width.
IntSetSound(is) ==
  /\ \A i \in 1..(intsetLen(is) - 1) : is.contents[i] < is.contents[i + 1]
  /\ \A i \in 1..intsetLen(is) : intsetValueEncoding(is.contents[i]) <= is.encoding

=============================================================================
