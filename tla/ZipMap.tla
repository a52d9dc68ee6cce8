------------------------------- MODULE ZipMap -------------------------------
(***************************************************************************)
(* The packed map that a small hash is kept in (storage/rdb/redis/         *)
(* zipmap.c): entries one after the other, [k, ts, v, free], ts the stamp  *)
(* of the field and free the unused bytes behind its value; count is the   *)
(* byte at the front, which stops counting at ZIPMAP_BIGLEN.               *)
(***************************************************************************)
EXTENDS Integers, Sequences, SequencesExt

CONSTANTS
  ZIPMAP_BIGLEN,
  ZIPMAP_VALUE_MAX_FREE,
  Bytes                    \* the length of every value

zipmapXNew == [count |-> 0, entries |-> <<>>]

\* 0 if the key is not found.
zipmapXLookupRaw(zm, k) ==
  LET at == {i \in DOMAIN zm.entries : zm.entries[i].k = k} IN IF at = {} THEN 0 ELSE Min(at)

\* The bytes of an entry left for its value when one of w bytes is written
\* there: a few stay unused, more are given back.
LeftFree(e, w) ==
  LET empty == Bytes[e.v] + e.free - w
  IN IF 0 <= empty /\ empty < ZIPMAP_VALUE_MAX_FREE THEN empty ELSE 0

zipmapXSet(zm, k, ts, v) ==
  LET i == zipmapXLookupRaw(zm, k)
  IN IF i = 0
     THEN [count   |-> IF zm.count < ZIPMAP_BIGLEN THEN zm.count + 1 ELSE zm.count,
           entries |-> Append(zm.entries, [k |-> k, ts |-> ts, v |-> v, free |-> 0])]
     ELSE [zm EXCEPT !.entries[i] =
             [k |-> k, ts |-> ts, v |-> v, free |-> LeftFree(@, Bytes[v])]]

\* Mutant: the count goes down also when it is not the number of entries.
CountDown_always(n) == n - 1

CountDown(n) == IF n < ZIPMAP_BIGLEN THEN n - 1 ELSE n

zipmapXDel(zm, k) ==
  LET i == zipmapXLookupRaw(zm, k)
  IN IF i = 0 THEN [zm |-> zm, deleted |-> FALSE]
     ELSE [zm |-> [count |-> CountDown(zm.count), entries |-> RemoveAt(zm.entries, i)],
           deleted |-> TRUE]

\* Of a field whose stamp is older than ts nothing is found, and it is deleted.
zipmapXGet(zm, k, ts) ==
  LET i == zipmapXLookupRaw(zm, k)
  IN IF i = 0 THEN [zm |-> zm, found |-> FALSE]
     ELSE IF zm.entries[i].ts < ts THEN [zm |-> zipmapXDel(zm, k).zm, found |-> FALSE]
     ELSE [zm |-> zm, found |-> TRUE, v |-> zm.entries[i].v]

zipmapXExists(zm, k, ts) ==
  LET i == zipmapXLookupRaw(zm, k)
  IN IF i = 0 THEN [zm |-> zm, found |-> FALSE]
     ELSE IF zm.entries[i].ts < ts THEN [zm |-> zipmapXDel(zm, k).zm, found |-> FALSE]
     ELSE [zm |-> zm, found |-> TRUE]

\* The entries are counted, and the byte set again, when it has stopped.
zipmapXLen(zm) ==
  IF zm.count < ZIPMAP_BIGLEN THEN [zm |-> zm, len |-> zm.count]
  ELSE [zm |-> IF Len(zm.entries) < ZIPMAP_BIGLEN THEN [zm EXCEPT !.count = Len(zm.entries)] ELSE zm,
        len |-> Len(zm.entries)]

\* What every call leaves: no key twice, a count that is right unless it has
\* stopped, few unused bytes.
ZipMapSound(zm) ==
  /\ IsInjective([i \in DOMAIN zm.entries |-> zm.entries[i].k])
  /\ zm.count # Len(zm.entries) => zm.count = ZIPMAP_BIGLEN
  /\ \A i \in DOMAIN zm.entries : zm.entries[i].free \in 0..(ZIPMAP_VALUE_MAX_FREE - 1)

=============================================================================
