---------------------------- MODULE RedisLists ----------------------------
(***************************************************************************)
(* The string and list commands of the redis-derived storage engine        *)
(* (storage/rdb/redis/t_string.c, t_list.c).  A string is an integer or a  *)
(* value that is not one; a list is a sequence.  The two encodings of a    *)
(* list (ziplist and linked list) give the same sequence.                  *)
(***************************************************************************)
EXTENDS RedisDb

CONSTANTS
  IntHalf,      \* counters are cut to int32_t: 2^31 in the code
  ListMax       \* server->list_max_size

LOCAL AtLeast0(n) == IF n < 0 THEN 0 ELSE n

LOCAL Smaller(m, n) == IF m < n THEN m ELSE n

\* (int32_t)value
int32(x) == ((x + IntHalf) % (2 * IntHalf)) - IntHalf

\* getLongLongFromObject succeeds on the decimal form of a number only.
IsInteger(v) == v \in -IntHalf..(IntHalf - 1)

-----------------------------------------------------------------------------
(* Strings. *)

setGenericCommand_expireFirst(d0, a, nx, val) ==
  LET d == EXPIRE_OR_NOT(expireIfNeeded(d0, a.key), a) IN
  IF Has(d, a.key) /\ d.dict[a.key].type # "string" THEN Reply(d, a, "WRONG_TYPE")
  ELSE IF VersionRefused(d, a) THEN Reply(d, a, "VERSION_ERROR")
  ELSE IF Has(d, a.key) /\ nx THEN Reply(d, a, "ALREADY_EXIST")
  ELSE Answer(dbSuperReplace(d, a, "string", val, NextVersion(d, a)),
              "OK", KeyVersion(d, a.key), 0, <<>>)

\* SET, SETNX, SETEX and SETNXEX: the two with an expire are used exactly
\* when a.exp is positive, and then set that expire.
setGenericCommand(d0, a, nx, val) ==
  LET d == expireIfNeeded(d0, a.key) IN
  IF Has(d, a.key) /\ d.dict[a.key].type # "string" THEN Reply(d, a, "WRONG_TYPE")
  ELSE IF VersionRefused(d, a) THEN Reply(d, a, "VERSION_ERROR")
  ELSE IF Has(d, a.key) /\ nx THEN Reply(d, a, "ALREADY_EXIST")
  ELSE Answer(EXPIRE_OR_NOT(dbSuperReplace(d, a, "string", val, NextVersion(d, a)), a),
              "OK", KeyVersion(d, a.key), 0, <<>>)

getGenericCommand(d0, a) == Reading(d0, a, "string", LAMBDA d, v : Values(d, a, <<v>>))

\* The old value is returned, also with a version error.
getsetCommand(d0, a, val) ==
  LET got == getGenericCommand(d0, a)
      d   == got.db
  IN IF got.code = "WRONG_TYPE" THEN got
     ELSE IF VersionRefused(d, a) THEN [got EXCEPT !.code = "VERSION_ERROR"]
     ELSE [got EXCEPT !.code = "OK",
             !.db = EXPIRE_OR_NOT(dbSuperReplace(d, a, "string", val,
                                                 NextVersion(d, a)), a)]

incrDecrCommand(d0, a, init_value, incr) ==
  LET d     == expireIfNeeded(d0, a.key)
      isNew == ~Has(d, a.key)
      old   == IF isNew THEN init_value ELSE d.dict[a.key].val
      new   == int32(old + incr)
  IN IF ~isNew /\ d.dict[a.key].type # "string" THEN Reply(d, a, "WRONG_TYPE")
     ELSE IF VersionRefused(d, a) THEN Reply(d, a, "VERSION_ERROR")
     ELSE IF ~isNew /\ ~IsInteger(old) THEN Reply(d, a, "IS_NOT_INTEGER")
     ELSE Answer(EXPIRE_OR_NOT(dbSuperReplace(d, a, "string", new,
                                              NextVersion(d, a)), a),
                 "OK", KeyVersion(d, a.key), new, <<>>)

-----------------------------------------------------------------------------
(* Lists. *)

listTypePush(l, vals, where) ==
  IF where = "tail" THEN l \o vals ELSE Reverse(vals) \o l

\* The index of the element that a 0-based, possibly negative, index names;
\* 0 when there is none.
listIndex(l, index) ==
  LET i == IF index < 0 THEN Len(l) + index + 1 ELSE index + 1
  IN IF i \in 1..Len(l) THEN i ELSE 0

MakeRoom_sameEnd(l, pop, where) ==
  IF where = "head" THEN SubSeq(l, pop + 1, Len(l)) ELSE SubSeq(l, 1, Len(l) - pop)

\* The oldest elements are popped at the end opposite to the push.
MakeRoom(l, pop, where) ==
  IF where = "tail" THEN SubSeq(l, pop + 1, Len(l)) ELSE SubSeq(l, 1, Len(l) - pop)

\* LPUSH and RPUSH.  With a max_count the list is first cut, from the end
\* opposite to the push, to make room; the room below list_max_size is then
\* computed from the length before the cut.
pushnGenericCommand(d0, a, vals, max_count, where) ==
  LET d     == expireIfNeeded(d0, a.key)
      isNew == ~Has(d, a.key)
      l     == IF isNew THEN <<>> ELSE d.dict[a.key].val
      n     == Len(vals)
      dlt   == IF max_count > 0 THEN AtLeast0(Len(l) + n - max_count) ELSE 0
      skip  == AtLeast0(dlt - Len(l))
      pop   == Smaller(dlt, Len(l))
      kept  == MakeRoom(l, pop, where)
      cant  == AtLeast0(Len(l) + n - skip - ListMax)
      i     == IF n - cant > skip THEN n - cant ELSE skip
      new   == listTypePush(kept, SubSeq(vals, skip + 1, n - cant), where)
      d1    == IF isNew THEN dbAdd(d, a, "list", new, NextVersion(d, a))
               ELSE [d EXCEPT !.dict[a.key].val = new]
  IN IF ~isNew /\ d.dict[a.key].type # "list" THEN Reply(d, a, "WRONG_TYPE")
     ELSE IF VersionRefused(d, a) THEN Reply(d, a, "VERSION_ERROR")
     ELSE Answer(IF i = 0 THEN d1
                 ELSE EXPIRE_OR_NOT(dbUpdateKey(d1, a.key, NextVersion(d, a)), a),
                 IF i < n THEN "DATA_LEN_LIMITED" ELSE "OK",
                 KeyVersion(d, a.key), i, <<Len(new)>>)

\* LPUSHX and RPUSHX: the first value is pushed once for every value given.
pushxnGenericCommand(d0, a, vals, where) ==
  Writing(d0, a, "list", LAMBDA d, l :
    LET n == Smaller(Len(vals), AtLeast0(ListMax - Len(l)))
        new == listTypePush(l, [i \in 1..n |-> vals[1]], where)
    IN Answer(Commit(d, a, new),
              IF n < Len(vals) THEN "DATA_LEN_LIMITED" ELSE "OK",
              KeyVersion(d, a.key), n, <<Len(new)>>))

\* LINSERT next to the first element equal to ref, with no length limit.
linsertCommand(d0, a, after, ref, val) ==
  Writing(d0, a, "list", LAMBDA d, l :
    LET at == {i \in 1..Len(l) : l[i] = ref}
        i  == CHOOSE j \in at : \A k \in at : j <= k
    IN IF at = {} THEN Reply(d, a, "CNEGO_ERROR")
       ELSE Answer(Commit(d, a, InsertAt(l, IF after THEN i + 1 ELSE i, val)),
                   "OK", KeyVersion(d, a.key), 1, <<Len(l) + 1>>))

llenCommand(d0, a) == Reading(d0, a, "list", LAMBDA d, l : Number(d, a, Len(l)))

lindexCommand(d0, a, index) ==
  Reading(d0, a, "list", LAMBDA d, l :
    IF listIndex(l, index) = 0 THEN Reply(d, a, "OUT_OF_RANGE")
    ELSE Values(d, a, <<l[listIndex(l, index)]>>))

lsetCommand_sameVersion(d0, a, index, val) ==
  Writing(d0, a, "list", LAMBDA d, l :
    IF listIndex(l, index) = 0 THEN Reply(d, a, "OUT_OF_RANGE")
    ELSE Answer([d EXCEPT !.dict[a.key].val[listIndex(l, index)] = val],
                "OK", KeyVersion(d, a.key), 0, <<>>))

\* The only write that leaves the expire alone whatever a.exp is.
lsetCommand(d0, a, index, val) ==
  Writing(d0, a, "list", LAMBDA d, l :
    IF listIndex(l, index) = 0 THEN Reply(d, a, "OUT_OF_RANGE")
    ELSE Answer(dbUpdateKey([d EXCEPT !.dict[a.key].val[listIndex(l, index)] = val],
                            a.key, NextVersion(d, a)),
                "OK", KeyVersion(d, a.key), 0, <<>>))

\* LPOP and RPOP of up to count elements.  The version handed back is one
\* more than the one found, whether or not the stored one was advanced.
popnGenericCommand(d0, a, count, where) ==
  Reading(d0, a, "list", LAMBDA d, l :
    LET n    == Smaller(count, Len(l))
        rest == IF where = "head" THEN SubSeq(l, n + 1, Len(l))
                ELSE SubSeq(l, 1, Len(l) - n)
        out  == IF where = "head" THEN SubSeq(l, 1, n)
                ELSE Reverse(SubSeq(l, Len(l) - n + 1, Len(l)))
    IN IF count <= 0 THEN Reply(d, a, "CZERO")
       ELSE IF VersionRefused(d, a) THEN Reply(d, a, "VERSION_ERROR")
       ELSE Answer(CommitOrDelete(d, a, rest, n > 0 /\ rest = <<>>), "OK",
                   (KeyVersion(d, a.key) + 1) % VersionMod, 0, out))

lrangeCommand(d0, a, start, end) ==
  Reading(d0, a, "list", LAMBDA d, l :
    LET r == IndexRange(start, end, Len(l))
    IN IF r[2] = 0 THEN Reply(d, a, "OUT_OF_RANGE")
       ELSE Values(d, a, SubSeq(l, r[1], r[2])))

\* An empty range empties the list, and so deletes the key.
ltrimCommand(d0, a, start, end) ==
  Writing(d0, a, "list", LAMBDA d, l :
    LET r == IndexRange(start, end, Len(l))
        new == SubSeq(l, r[1], r[2])
    IN Answer(CommitOrDelete(d, a, new, new = <<>>), "OK", KeyVersion(d, a.key), 0, <<>>))

\* The list without the elements at the indexes of del.
listTypeDelete(l, del) ==
  LET kept == SetToSortSeq(DOMAIN l \ del, LAMBDA i, j : i < j)
  IN [n \in 1..Len(kept) |-> l[kept[n]]]

\* A positive count removes from the head, a negative one from the tail, 0
\* removes every occurrence.
lremCommand(d0, a, count, val) ==
  Writing(d0, a, "list", LAMBDA d, l :
    LET occ == {i \in 1..Len(l) : l[i] = val}
        del == IF count = 0 THEN occ
               ELSE IF count > 0
               THEN {i \in occ : Cardinality({j \in occ : j < i}) < count}
               ELSE {i \in occ : Cardinality({j \in occ : j > i}) < -count}
        new == listTypeDelete(l, del)
    IN Answer(CommitOrDelete(d, a, new, new = <<>>), "OK", KeyVersion(d, a.key),
              Cardinality(del), <<>>))

=============================================================================
