------------------------------ MODULE ZipList ------------------------------
(***************************************************************************)
(* The packed list that a short list is kept in (storage/rdb/redis/        *)
(* ziplist.c).  An entry [prev, v] stores the length in bytes of the entry *)
(* before it; the header stores the bytes in all, the offset of the last   *)
(* entry and the number of entries.  A pointer into the list is the number *)
(* of the entry it points at, Len + 1 at the end mark, 0 for NULL.         *)
(*                                                                         *)
(* A list is packed only as long as its values have at most                *)
(* list_max_ziplist_value bytes, so prev always fits into one byte and     *)
(* __ziplistCascadeUpdate has nothing to do (ZipListSound).                *)
(***************************************************************************)
EXTENDS Integers, Sequences, SequencesExt

CONSTANTS
  Payload,       \* the bytes of each value: its own, or 2, 4, 8 of an integer
  Numeric        \* the values that zipTryEncoding makes an integer of

LOCAL ZIPLIST_HEADER_SIZE == 10
LOCAL ZIP_BIGLEN == 254

\* Length byte of the previous entry, one or two of its own, and the payload.
zipRawEntryLength(e) ==
  (IF e.prev < ZIP_BIGLEN THEN 1 ELSE 5)
  + (IF e.v \in Numeric \/ Payload[e.v] <= 63 THEN 1 ELSE 2) + Payload[e.v]

ziplistNew == [bytes |-> ZIPLIST_HEADER_SIZE + 1, tail |-> ZIPLIST_HEADER_SIZE, len |-> 0,
               entries |-> <<>>]

RECURSIVE Span(_, _, _)
Span(zl, i, n) ==
  IF n = 0 THEN 0 ELSE zipRawEntryLength(zl.entries[i]) + Span(zl, i + 1, n - 1)

Offset(zl, i) == ZIPLIST_HEADER_SIZE + Span(zl, 1, i - 1)

End(zl) == Len(zl.entries) + 1

\* The entry that starts at an offset; the end mark if none does.
At(zl, offset) ==
  LET here == {i \in DOMAIN zl.entries : Offset(zl, i) = offset}
  IN IF here = {} THEN End(zl) ELSE Min(here)

ziplistLen(zl) == zl.len

NextPrev(e, reqlen) == [e EXCEPT !.prev = reqlen]

ziplistInsert(zl, p, v) ==
  LET tail    == At(zl, zl.tail)
      prevlen == IF p # End(zl) THEN zl.entries[p].prev
                 ELSE IF tail # End(zl) THEN zipRawEntryLength(zl.entries[tail]) ELSE 0
      new     == [prev |-> prevlen, v |-> v]
      reqlen  == zipRawEntryLength(new)
  IN [bytes   |-> zl.bytes + reqlen,
      tail    |-> IF p # End(zl) THEN zl.tail + reqlen ELSE Offset(zl, p),
      len     |-> zl.len + 1,
      entries |-> InsertAt([i \in DOMAIN zl.entries |->
                              IF i = p THEN NextPrev(zl.entries[i], reqlen) ELSE zl.entries[i]],
                           p, new)]

ziplistPush(zl, v, atHead) == ziplistInsert(zl, IF atHead THEN 1 ELSE End(zl), v)

\* Delete num entries, or as many as there are, from p on.
LOCAL DeleteFrom(zl, p, num) ==
  LET n      == Min({num, End(zl) - p})
      next   == p + n
      totlen == Span(zl, p, n)
      first  == zl.entries[p]
  IN IF n = 0 THEN zl
     ELSE [bytes   |-> zl.bytes - totlen,
           tail    |-> IF next # End(zl) THEN zl.tail - totlen ELSE Offset(zl, p) - first.prev,
           len     |-> zl.len - n,
           entries |-> SubSeq(zl.entries, 1, p - 1)
                       \o [i \in 1..(End(zl) - next) |->
                             IF i = 1 THEN [zl.entries[next] EXCEPT !.prev = first.prev]
                             ELSE zl.entries[next + i - 1]]]

\* Back over the stored lengths: n more entries, NULL if the list begins first.
RECURSIVE StepsBack(_, _, _)
StepsBack(zl, p, n) ==
  IF p = End(zl) THEN 0
  ELSE IF n = 0 THEN p
  ELSE IF zl.entries[p].prev = 0 THEN 0
  ELSE StepsBack(zl, At(zl, Offset(zl, p) - zl.entries[p].prev), n - 1)

ziplistIndex(zl, index) ==
  IF index < 0 THEN StepsBack(zl, At(zl, zl.tail), -index - 1)
  ELSE IF index + 1 < End(zl) THEN index + 1 ELSE 0

ziplistNext(zl, p) == IF p + 1 < End(zl) THEN p + 1 ELSE 0

ziplistPrev(zl, p) ==
  IF p = End(zl) THEN IF At(zl, zl.tail) = End(zl) THEN 0 ELSE At(zl, zl.tail)
  ELSE IF p = 1 THEN 0
  ELSE At(zl, Offset(zl, p) - zl.entries[p].prev)

ziplistGet(zl, p) == zl.entries[p].v

ziplistDelete(zl, p) == DeleteFrom(zl, p, 1)

ziplistDeleteRange(zl, index, num) ==
  LET p == ziplistIndex(zl, index) IN IF p = 0 THEN zl ELSE DeleteFrom(zl, p, num)

\* The end mark is equal to nothing.
ziplistCompare(zl, p, v) == p # End(zl) /\ zl.entries[p].v = v

\* What every call leaves: a header that tells the truth, stored lengths that
\* are those of the entries, and none that needs more than one byte.
ZipListSound(zl) ==
  /\ zl.len = Len(zl.entries)
  /\ zl.bytes = Offset(zl, End(zl)) + 1
  /\ zl.tail = Offset(zl, IF zl.entries = <<>> THEN 1 ELSE Len(zl.entries))
  /\ \A i \in DOMAIN zl.entries :
       /\ zl.entries[i].prev = IF i = 1 THEN 0 ELSE zipRawEntryLength(zl.entries[i - 1])
       /\ zipRawEntryLength(zl.entries[i]) < ZIP_BIGLEN

=============================================================================
