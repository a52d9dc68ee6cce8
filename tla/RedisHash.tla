----------------------------- MODULE RedisHash -----------------------------
(***************************************************************************)
(* The hash commands of the redis-derived storage engine                   *)
(* (storage/rdb/redis/t_hash.c).  A hash maps a field to its value and to  *)
(* the time stamp it was written with: the time of the area's filter on    *)
(* that field, 0 without one.  A field written before the filter was set   *)
(* is removed by the first look at it, reads included.  The server's       *)
(* hash_max_size exceeds hash_max_zipmap_entries, as in every shipped      *)
(* configuration, so that a full hash is always a hash table.              *)
(***************************************************************************)
EXTENDS RedisLists

CONSTANT HashMax   \* server->hash_max_size

\* The time stamp that the session puts on a field argument.
FieldTs(d, f) == search_filter_node(d, "field", f)

SetHash(d, k, h) == [d EXCEPT !.dict[k].val = h]

\* The hash after a look at field f: hashTypeSimpleDel, and its zipmap
\* counterpart, drop a field older than the filter.
hashTypeGet(h, f, ts) ==
  IF f \in DOMAIN h /\ ts > h[f].ts THEN Without(h, f) ELSE h

hashTypeSet(h, f, ts, v) == With(h, f, [v |-> v, ts |-> ts])

\* The hash that a write works on, created empty under the next version when
\* the key is missing.
hashTypeLookupWriteOrCreate(d0, a, F(_, _)) ==
  LET d == expireIfNeeded(d0, a.key) IN
  IF ~Has(d, a.key) THEN F(dbAdd(d, a, "hash", <<>>, NextVersion(d, a)), NextVersion(d, a))
  ELSE IF d.dict[a.key].type # "hash" THEN Reply(d, a, "WRONG_TYPE")
  ELSE IF VersionRefused(d, a) THEN Reply(d, a, "VERSION_ERROR")
  ELSE F(d, NextVersion(d, a))

\* The changed hash is stored under version ver and the expire refreshed.
CommitHash(d, a, h, ver) ==
  EXPIRE_OR_NOT(dbUpdateKey(SetHash(d, a.key, h), a.key, ver), a)

FoundVersion(d0, a) == KeyVersion(expireIfNeeded(d0, a.key), a.key)

HashOver_offByOne(h) == Cardinality(DOMAIN h) > HashMax + 1

\* CHECK_HASH_LENGTH
HashOver(h) == Cardinality(DOMAIN h) > HashMax

hsetCommand(d0, a, f, v) ==
  hashTypeLookupWriteOrCreate(d0, a, LAMBDA d, ver :
    LET h      == d.dict[a.key].val
        new    == hashTypeSet(h, f, FieldTs(d, f), v)
        update == f \in DOMAIN h
    IN IF ~update /\ HashOver(new)
       THEN Answer(d, "DATA_LEN_LIMITED", FoundVersion(d0, a), 0, <<>>)
       ELSE Answer(CommitHash(d, a, new, ver),
                   IF update THEN "ALREADY_EXIST" ELSE "OK", FoundVersion(d0, a), 0, <<>>))

\* No length limit here.
hsetnxCommand(d0, a, f, v) ==
  hashTypeLookupWriteOrCreate(d0, a, LAMBDA d, ver :
    LET h == hashTypeGet(d.dict[a.key].val, f, FieldTs(d, f))
    IN IF f \in DOMAIN h
       THEN Answer(d, "ALREADY_EXIST", FoundVersion(d0, a), 0, <<>>)
       ELSE Answer(CommitHash(d, a, hashTypeSet(h, f, FieldTs(d, f), v), ver), "OK",
                   FoundVersion(d0, a), 0, <<>>))

\* The leading pairs whose field is already there: what HMSET of a full hash
\* still writes.
LOCAL Present(h, pairs) ==
  LET new == {i \in 1..Len(pairs) : pairs[i][1] \notin DOMAIN h}
  IN IF new = {} THEN Len(pairs) ELSE (CHOOSE i \in new : \A j \in new : i <= j) - 1

LOCAL SetPairs(d, h, pairs) ==
  [f \in DOMAIN h \cup {pairs[i][1] : i \in 1..Len(pairs)} |->
     LET at == {i \in 1..Len(pairs) : pairs[i][1] = f}
     IN IF at = {} THEN h[f]
        ELSE [v |-> pairs[CHOOSE i \in at : \A j \in at : j <= i][2], ts |-> FieldTs(d, f)]]

\* The length is only tested before the first pair: a hash one below its
\* limit takes all the pairs.
hmsetCommand(d0, a, pairs) ==
  hashTypeLookupWriteOrCreate(d0, a, LAMBDA d, ver :
    LET h == d.dict[a.key].val
        n == IF Cardinality(DOMAIN h) >= HashMax THEN Present(h, pairs) ELSE Len(pairs)
    IN Answer(IF n = 0 THEN d
              ELSE CommitHash(d, a, SetPairs(d, h, SubSeq(pairs, 1, n)), ver),
              IF n < Len(pairs) THEN "DATA_LEN_LIMITED" ELSE "OK",
              FoundVersion(d0, a), n, <<>>))

hincrbyCommand(d0, a, f, incr) ==
  hashTypeLookupWriteOrCreate(d0, a, LAMBDA d, ver :
    LET ts  == FieldTs(d, f)
        h   == hashTypeGet(d.dict[a.key].val, f, ts)
        d1  == SetHash(d, a.key, h)
        new == int32((IF f \in DOMAIN h THEN h[f].v ELSE 0) + incr)
    IN IF f \in DOMAIN h /\ ~IsInteger(h[f].v)
       THEN Answer(d1, "IS_NOT_INTEGER", FoundVersion(d0, a), 0, <<>>)
       ELSE IF f \notin DOMAIN h /\ Cardinality(DOMAIN h) + 1 > HashMax
       THEN Answer(d1, "DATA_LEN_LIMITED", FoundVersion(d0, a), 0, <<>>)
       ELSE Answer(CommitHash(d1, a, hashTypeSet(h, f, ts, new), ver), "OK",
                   FoundVersion(d0, a), new, <<>>))

hgetCommand(d0, a, f) ==
  Reading(d0, a, "hash", LAMBDA d, h0 :
    LET h  == hashTypeGet(h0, f, FieldTs(d, f))
        d1 == SetHash(d, a.key, h)
    IN IF f \in DOMAIN h THEN Values(d1, a, <<h[f].v>>) ELSE Reply(d1, a, "NOT_EXIST"))

\* Missing fields are NULL nodes of the reply, <<>> here.
hmgetCommand(d0, a, fields) ==
  Reading(d0, a, "hash", LAMBDA d, h0 :
    LET gone == {f \in DOMAIN h0 : f \in ToSet(fields) /\ FieldTs(d, f) > h0[f].ts}
        h    == [f \in DOMAIN h0 \ gone |-> h0[f]]
    IN Values(SetHash(d, a.key, h), a,
              [i \in 1..Len(fields) |-> IF fields[i] \in DOMAIN h
                                        THEN <<h[fields[i]].v>> ELSE <<>>]))

hdelCommand_touches(d0, a, f) ==
  Writing(d0, a, "hash", LAMBDA d, h :
    Answer(CommitOrDelete(d, a, Without(h, f), DOMAIN h = {f}),
           IF f \notin DOMAIN h THEN "NOT_EXIST" ELSE "OK", KeyVersion(d, a.key), 0, <<>>))

\* The field argument of HDEL and HEXISTS carries time stamp 0.
hdelCommand(d0, a, f) ==
  Writing(d0, a, "hash", LAMBDA d, h :
    IF f \notin DOMAIN h THEN Reply(d, a, "NOT_EXIST")
    ELSE Answer(CommitOrDelete(d, a, Without(h, f), DOMAIN h = {f}), "OK",
                KeyVersion(d, a.key), 0, <<>>))

hlenCommand(d0, a) ==
  Reading(d0, a, "hash", LAMBDA d, h : Number(d, a, Cardinality(DOMAIN h)))

genericHgetallCommand(d0, a) == Reading(d0, a, "hash", LAMBDA d, h : Values(d, a, h))

hexistsCommand(d0, a, f) ==
  Reading(d0, a, "hash", LAMBDA d, h :
    Reply(d, a, IF f \in DOMAIN h THEN "OK" ELSE "NOT_EXIST"))

\* session.filter_field, called first by hgetall and hkeys only: a look at
\* every field that the area filters.
filter_field(d0, a) ==
  LET F == FieldFilters(d0)
      d == IF F = <<>> THEN d0 ELSE expireIfNeeded(d0, a.key)
      h == d.dict[a.key].val
      gone == {f \in DOMAIN h : \E i \in 1..Len(F) : F[i].pat = f /\ F[i].ts > h[f].ts}
  IN IF ~Has(d, a.key) \/ d.dict[a.key].type # "hash" THEN d
     ELSE SetHash(d, a.key, [f \in DOMAIN h \ gone |-> h[f]])

=============================================================================
