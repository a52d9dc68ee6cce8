----------------------------- MODULE RedisSets -----------------------------
(***************************************************************************)
(* The set and sorted-set commands of the redis-derived storage engine     *)
(* (storage/rdb/redis/t_set.c, t_zset.c).  A set is a set; a sorted set    *)
(* maps a member to its score, and its skip list is the sequence of the    *)
(* members ordered by score and then by name.                              *)
(***************************************************************************)
EXTENDS RedisHash

CONSTANTS
  SetMax,       \* server->set_max_size
  ZsetMax,      \* server->zset_max_size
  NameOrder     \* the members as a sequence: compareStringObjects' order

-----------------------------------------------------------------------------
(* Sets. *)

\* The version is checked before the type.
saddCommand(d0, a, x) ==
  LET d == expireIfNeeded(d0, a.key)
      s == IF Has(d, a.key) THEN d.dict[a.key].val ELSE {}
  IN IF VersionRefused(d, a) THEN Reply(d, a, "VERSION_ERROR")
     ELSE IF Has(d, a.key) /\ d.dict[a.key].type # "set" THEN Reply(d, a, "WRONG_TYPE")
     ELSE IF x \notin s /\ Cardinality(s) + 1 > SetMax THEN Reply(d, a, "DATA_LEN_LIMITED")
     ELSE Answer(EXPIRE_OR_NOT(dbSuperReplace(d, a, "set", s \cup {x},
                                              NextVersion(d, a)), a),
                 IF x \in s THEN "ALREADY_EXIST" ELSE "OK", KeyVersion(d, a.key), 0, <<>>)

sremCommand_touches(d0, a, x) ==
  Writing(d0, a, "set", LAMBDA d, s :
    Answer(CommitOrDelete(d, a, s \ {x}, s = {x}), IF x \in s THEN "OK" ELSE "NOT_EXIST",
           KeyVersion(d, a.key), 1, <<>>))

\* The expire is refreshed also when there was nothing to remove.
sremCommand(d0, a, x) ==
  Writing(d0, a, "set", LAMBDA d, s :
    IF x \in s
    THEN Answer(CommitOrDelete(d, a, s \ {x}, s = {x}), "OK", KeyVersion(d, a.key), 1, <<>>)
    ELSE Answer(EXPIRE_OR_NOT(d, a), "NOT_EXIST", KeyVersion(d, a.key), 0, <<>>))

scardCommand(d0, a) == Reading(d0, a, "set", LAMBDA d, s : Number(d, a, Cardinality(s)))

\* x is the element that setTypeRandomElement picks.
spopCommand(d0, a, x) ==
  Writing(d0, a, "set", LAMBDA d, s :
    Answer(CommitOrDelete(d, a, s \ {x}, s = {x}), "OK",
           (KeyVersion(d, a.key) + 1) % VersionMod, 0, <<x>>))

\* SINTER of one key is SMEMBERS.
sinterGenericCommand(d0, a) == Reading(d0, a, "set", LAMBDA d, s : Values(d, a, s))

-----------------------------------------------------------------------------
(* Sorted sets. *)

LOCAL NameRank(x) == CHOOSE i \in 1..Len(NameOrder) : NameOrder[i] = x

zslSequence(z) ==
  SetToSortSeq(DOMAIN z, LAMBDA x, y :
    \/ z[x] < z[y]
    \/ z[x] = z[y] /\ NameRank(x) < NameRank(y))

ZsetFull_offByOne(z) == Cardinality(DOMAIN z) > ZsetMax

ZsetFull(z) == Cardinality(DOMAIN z) >= ZsetMax

\* A missing key is added under the version given in the call, which only a
\* completed call corrects.
zaddGenericCommand(d0, a, x, score, incr) ==
  LET d1    == expireIfNeeded(d0, a.key)
      isNew == ~Has(d1, a.key)
      d     == IF isNew THEN dbAdd(d1, a, "zset", <<>>, a.ver) ELSE d1
      z     == d.dict[a.key].val
      sum   == score + (IF incr /\ x \in DOMAIN z THEN z[x] ELSE 0)
  IN IF d.dict[a.key].type # "zset" THEN Reply(d, a, "WRONG_TYPE")
     ELSE IF VersionRefused(d, a) THEN Reply(d, a, "VERSION_ERROR")
     ELSE IF ZsetFull(z) /\ x \notin DOMAIN z
     THEN Answer(d, "DATA_LEN_LIMITED", KeyVersion(d1, a.key), 0, <<>>)
     ELSE Answer(EXPIRE_OR_NOT(dbUpdateKey([d EXCEPT !.dict[a.key].val = With(@, x, sum)],
                                           a.key, NextVersion(d1, a)), a),
                 IF ~incr /\ x \in DOMAIN z THEN "ALREADY_EXIST" ELSE "OK",
                 KeyVersion(d1, a.key), sum, <<>>)

zremCommand(d0, a, x) ==
  Writing(d0, a, "zset", LAMBDA d, z :
    IF x \notin DOMAIN z THEN Reply(d, a, "NOT_EXIST")
    ELSE Answer(CommitOrDelete(d, a, Without(z, x), DOMAIN z = {x}), "OK",
                KeyVersion(d, a.key), 0, <<>>))

\* A range that removes nothing leaves version and expire alone.
RemoveRange(d, a, z, gone) ==
  IF gone = {} THEN Reply(d, a, "RANGE_HAVE_NONE")
  ELSE Answer(CommitOrDelete(d, a, [x \in DOMAIN z \ gone |-> z[x]], gone = DOMAIN z),
              "OK", KeyVersion(d, a.key), Cardinality(gone), <<>>)

zremrangebyscoreCommand(d0, a, min, max) ==
  Writing(d0, a, "zset", LAMBDA d, z :
    RemoveRange(d, a, z, {x \in DOMAIN z : min <= z[x] /\ z[x] <= max}))

zremrangebyrankCommand(d0, a, start, end) ==
  Writing(d0, a, "zset", LAMBDA d, z :
    LET r == IndexRange(start, end, Cardinality(DOMAIN z))
    IN RemoveRange(d, a, z, ToSet(SubSeq(zslSequence(z), r[1], r[2]))))

zrangeGenericCommand(d0, a, start, end, reverse) ==
  Reading(d0, a, "zset", LAMBDA d, z :
    LET r == IndexRange(start, end, Cardinality(DOMAIN z))
        s == IF reverse THEN Reverse(zslSequence(z)) ELSE zslSequence(z)
    IN IF r[2] = 0 THEN Reply(d, a, "RANGE_HAVE_NONE")
       ELSE Values(d, a, SubSeq(s, r[1], r[2])))

\* The walk of genericZrangebyscoreCommand: from the first node with a score
\* of at least min - in reverse, from the last node with a score of at most
\* min - while the score is within max, at most limit nodes (all if -1).
LOCAL Walk(z, min, max, limit, reverse) ==
  LET s     == zslSequence(z)
      from  == IF reverse THEN {i \in 1..Len(s) : z[s[i]] <= min}
               ELSE {i \in 1..Len(s) : z[s[i]] >= min}
      taken == {i \in from : IF reverse THEN z[s[i]] >= max ELSE z[s[i]] <= max}
      way   == SetToSortSeq(taken, LAMBDA i, j : IF reverse THEN i > j ELSE i < j)
      n     == IF limit = -1 \/ limit > Len(way) THEN Len(way) ELSE limit
  IN [i \in 1..n |-> s[way[i]]]

genericZrangebyscoreCommand(d0, a, min, max, limit, reverse) ==
  Reading(d0, a, "zset", LAMBDA d, z :
    LET out == Walk(z, min, max, limit, reverse)
    IN IF out = <<>> THEN Reply(d, a, "RANGE_HAVE_NONE") ELSE Values(d, a, out))

\* genericZrangebyscoreCommand with justcount.
zcountCommand(d0, a, min, max) ==
  Reading(d0, a, "zset", LAMBDA d, z :
    LET n == Len(Walk(z, min, max, -1, FALSE))
    IN IF n = 0 THEN Reply(d, a, "RANGE_HAVE_NONE") ELSE Number(d, a, n))

zcardCommand(d0, a) ==
  Reading(d0, a, "zset", LAMBDA d, z : Number(d, a, Cardinality(DOMAIN z)))

zscoreCommand(d0, a, x) ==
  Reading(d0, a, "zset", LAMBDA d, z :
    IF x \in DOMAIN z THEN Number(d, a, z[x]) ELSE Reply(d, a, "NOT_EXIST"))

zrankGenericCommand(d0, a, x, reverse) ==
  Reading(d0, a, "zset", LAMBDA d, z :
    LET s    == zslSequence(z)
        rank == CHOOSE i \in 1..Len(s) : s[i] = x
    IN IF x \notin DOMAIN z THEN Reply(d, a, "NOT_EXIST")
       ELSE Number(d, a, IF reverse THEN Len(s) - rank ELSE rank - 1))

=============================================================================
