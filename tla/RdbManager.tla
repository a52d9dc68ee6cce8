---------------------------- MODULE RdbManager ----------------------------
(***************************************************************************)
(* The rdb storage engine as the data server drives it                     *)
(* (storage/rdb/rdb_manager.cpp): one database, the calls of rdb_manager   *)
(* on it, each atomic under the unit's lock, the cron thread's expire      *)
(* cycle and the clock.  last records the call of the latest step and its  *)
(* answer; it has no influence on what follows.                            *)
(***************************************************************************)
EXTENDS RedisSession

CONSTANTS
  Loads,         \* what may be asked of a database, see below
  Long,          \* a value longer than DATA_ENTRY_MAX_SIZE
  Pushes,        \* sequences of list elements
  Counts,        \* counts and indexes
  Scores,
  MaxFlushes     \* bound: lazy flushes

VARIABLES db, last, load

vars == <<db, last, load>>

(* A member of Loads. *)
Keys == load.keys
Groups == load.groups          \* the groups of calls that are issued
Modes == load.modes            \* [ver, care, time]: version, version_care and expire_time
Strings == load.strings        \* values of strings: integers, and model values that are none
Elements == load.elements      \* list elements, set members, fields
Increments == load.increments
MaxNow == load.until           \* bound: the clock stops here

-----------------------------------------------------------------------------
getAbsTime(t) == IF t <= db.now THEN t + db.now ELSE t

\* GET_VERSION_EXPIRE: the arguments that the session gets.
GET_VERSION_EXPIRE(k, mode) ==
  [key |-> k, ver |-> mode.ver, care |-> mode.care,
   exp |-> IF mode.time > 0 THEN getAbsTime(mode.time) ELSE mode.time]

Stamped == {GET_VERSION_EXPIRE(k, mode) : k \in Keys, mode \in Modes}

\* A call without version and expire.
Plain == {[key |-> k, ver |-> 0, care |-> FALSE, exp |-> -1] : k \in Keys}

redis_tair_code ==
  [OK |-> "SUCCESS", CZERO |-> "COUNT_ZERO", NOT_EXIST |-> "DATA_NOT_EXIST",
   VERSION_ERROR |-> "VERSION_ERROR", WRONG_TYPE |-> "TYPE_NOT_MATCH",
   OUT_OF_RANGE |-> "OUT_OF_RANGE", IS_NOT_INTEGER |-> "IS_NOT_INTEGER",
   ALREADY_EXIST |-> "ALREADY_EXIST", RANGE_HAVE_NONE |-> "RANGE_HAVE_NONE",
   DATA_LEN_LIMITED |-> "DATA_LEN_LIMITED", CNEGO_ERROR |-> "FAILED"]

\* The call op with arguments a and its own arguments arg ends with one of
\* the session's replies.
Done(op, a, arg, replies) ==
  \E r \in replies :
    /\ db' = r.db /\ UNCHANGED load
    /\ last' = [op |-> op, a |-> a, arg |-> arg, ver |-> r.ver, ret |-> r.ret,
                code |-> redis_tair_code[r.code]]

\* A call that ends before it reaches the database.
Refuse(op, a, code) ==
  /\ last' = [op |-> op, a |-> a, arg |-> <<>>, ver |-> 0, ret |-> 0, code |-> code]
  /\ UNCHANGED <<db, load>>

Idle == [op |-> "none", a |-> [key |-> "", ver |-> 0, care |-> FALSE, exp |-> -1],
         arg |-> <<>>, ver |-> 0, ret |-> 0, code |-> "SUCCESS"]

Init == /\ load \in Loads
        /\ db = [initDb EXCEPT !.tight = load.tight]
        /\ last = Idle

-----------------------------------------------------------------------------
(* Keys of any type, the whole area and the cron thread. *)

ttl == \E a \in Plain : Done("ttl", a, <<>>, session_ttl(db, a))

type == \E a \in Plain : Done("type", a, <<>>, session_type(db, a))

remove == \E a \in Plain : Done("remove", a, <<>>, session_del(db, a))

expire == \E a \in Plain, mode \in Modes :
            Done("expire", a, <<>>, session_expire(db, a, mode.time))

\* The same call: the time is a date when it lies after the present.
expireat == \E a \in Plain, t \in 1..MaxNow :
              Done("expire", a, <<>>, session_expire(db, a, t))

persist == \E a \in Plain : Done("persist", a, <<>>, session_persist(db, a))

exists == \E a \in Plain : Done("exists", a, <<>>, session_exists(db, a))

lazyclear ==
  /\ db.logiclock <= MaxFlushes
  /\ db' = lazyflushdb(db)
  /\ last' = [Idle EXCEPT !.op = "lazyclear"] /\ UNCHANGED load

addfilter == \E f \in Elements :
  /\ db' = session_addfilter(db, f)
  /\ last' = [Idle EXCEPT !.op = "addfilter"] /\ UNCHANGED load

removefilter == \E f \in Elements :
  /\ db' = session_removefilter(db, f)
  /\ last' = [Idle EXCEPT !.op = "removefilter"] /\ UNCHANGED load

StaleKeys(d) == {k \in DOMAIN d.dict : Stale(d, k)}

ExpiredKeys(d) == {k \in DOMAIN d.expires : Expired(d, k)}

\* dbDelete of each key in S.
DeleteAll(d, S) ==
  [d EXCEPT !.dict = [k \in DOMAIN @ \ S |-> @[k]],
            !.expires = [k \in DOMAIN @ \ S |-> @[k]]]

\* The random lookups hit any of the keys: the first loop, while there are
\* keys to remove, deletes any of the stale ones it hits, the second any of
\* the expired ones.
activeExpireCycleByDb(S, E) ==
  LET d == [DeleteAll(db, S) EXCEPT !.need = @ - Cardinality(S)] IN
  /\ S \subseteq StaleKeys(db)
  /\ Cardinality(S) <= db.need
  /\ S = {} => \/ db.need = 0
               \/ StaleKeys(db) # DOMAIN db.dict
               \/ DOMAIN db.dict = {}
  /\ E \subseteq ExpiredKeys(d)
  /\ E = {} => ExpiredKeys(d) # DOMAIN d.expires \/ DOMAIN d.expires = {}
  /\ db' = [DeleteAll(d, E) EXCEPT !.need = @ - Cardinality(E \cap StaleKeys(d))]
  /\ last' = [Idle EXCEPT !.op = "cron"] /\ UNCHANGED load

serverCronByDb == \E S \in SUBSET Keys, E \in SUBSET Keys : activeExpireCycleByDb(S, E)

Tick == /\ db.now < MaxNow
        /\ db' = [db EXCEPT !.now = @ + 1]
        /\ last' = [Idle EXCEPT !.op = "tick"] /\ UNCHANGED load

-----------------------------------------------------------------------------
(* Strings. *)

\* A value longer than DATA_ENTRY_MAX_SIZE is refused here.
put == \E a \in Stamped, v \in Strings :
         IF v = Long THEN Refuse("put", a, "DATA_LEN_LIMITED")
         ELSE Done("put", a, v, session_set(db, a, FALSE, v))

putnx == \E a \in Stamped, v \in Strings :
           IF v = Long THEN Refuse("putnx", a, "DATA_LEN_LIMITED")
           ELSE Done("putnx", a, v, session_set(db, a, TRUE, v))

incdecr == \E a \in Stamped, i \in Increments, n \in Increments :
             Done("incdecr", a, <<i, n>>, session_incdecr(db, a, i, n))

get == \E a \in Plain : Done("get", a, <<>>, session_get(db, a))

getset == \E a \in Stamped, v \in Strings \ {Long} :
            Done("getset", a, v, session_getset(db, a, v))

-----------------------------------------------------------------------------
(* Lists. *)

Ends == {"head", "tail"}

lrpush == \E a \in Stamped, vs \in Pushes, w \in Ends, x \in BOOLEAN, n \in Counts :
            /\ n >= 0
            /\ Done(IF x THEN "lrpushx" ELSE "lrpush", a, [vs |-> vs, w |-> w, n |-> n],
                    session_lrpush(db, a, vs, w, x, n))

lrpop == \E a \in Stamped, n \in Counts, w \in Ends :
           IF n = 0 THEN Refuse("lrpop", a, "SUCCESS")
           ELSE Done("lrpop", a, n, session_lrpop(db, a, n, w))

lindex == \E a \in Plain, i \in Counts : Done("lindex", a, i, session_lindex(db, a, i))

lrange == \E a \in Plain, s \in Counts, t \in Counts :
            Done("lrange", a, <<s, t>>, session_lrange(db, a, s, t))

lrem == \E a \in Stamped, n \in Counts, v \in Elements :
          Done("lrem", a, <<n, v>>, session_lrem(db, a, n, v))

llen == \E a \in Plain : Done("llen", a, <<>>, session_llen(db, a))

\* Bound: a list grows at most one past its limit.
linsert == \E a \in Stamped, after \in BOOLEAN, ref \in Elements, v \in Elements :
             /\ Has(db, a.key) /\ db.dict[a.key].type = "list"
                  => Len(db.dict[a.key].val) <= ListMax
             /\ Done("linsert", a, <<ref, v>>, session_linsert(db, a, after, ref, v))

lset == \E a \in Stamped, i \in Counts, v \in Elements :
          Done("lset", a, <<i, v>>, session_lset(db, a, i, v))

ltrim == \E a \in Stamped, s \in Counts, t \in Counts :
           Done("ltrim", a, <<s, t>>, session_ltrim(db, a, s, t))

-----------------------------------------------------------------------------
(* Hashes. *)

hgetall == \E a \in Plain : Done("hgetall", a, <<>>, session_hgetall(db, a))

hkeys == \E a \in Plain : Done("hkeys", a, <<>>, session_hkeys(db, a))

hvals == \E a \in Plain : Done("hvals", a, <<>>, session_hvals(db, a))

hincrby == \E a \in Stamped, f \in Elements, n \in Increments :
             Done("hincrby", a, <<f, n>>, session_hincrby(db, a, f, n))

FieldValues == Strings \ {Long}

hmset == \E a \in Stamped, f \in Elements, g \in Elements, v \in FieldValues :
           Done("hmset", a, <<f, g>>, session_hmset(db, a, <<<<f, v>>, <<g, v>>>>))

hset == \E a \in Stamped, f \in Elements, v \in FieldValues :
          Done("hset", a, <<f, v>>, session_hset(db, a, f, v))

hsetnx == \E a \in Stamped, f \in Elements, v \in FieldValues :
            Done("hsetnx", a, <<f, v>>, session_hsetnx(db, a, f, v))

hexists == \E a \in Plain, f \in Elements : Done("hexists", a, f, session_hexists(db, a, f))

hget == \E a \in Plain, f \in Elements : Done("hget", a, f, session_hget(db, a, f))

hmget == \E a \in Plain, f \in Elements, g \in Elements :
           Done("hmget", a, <<f, g>>, session_hmget(db, a, <<f, g>>))

hdel == \E a \in Stamped, f \in Elements : Done("hdel", a, f, session_hdel(db, a, f))

hlen == \E a \in Plain : Done("hlen", a, <<>>, session_hlen(db, a))

-----------------------------------------------------------------------------
(* Sets. *)

scard == \E a \in Plain : Done("scard", a, <<>>, session_scard(db, a))

smembers == \E a \in Plain : Done("smembers", a, <<>>, session_smembers(db, a))

sadd == \E a \in Stamped, x \in Elements : Done("sadd", a, x, session_sadd(db, a, x))

srem == \E a \in Stamped, x \in Elements : Done("srem", a, x, session_srem(db, a, x))

spop == \E a \in Stamped : Done("spop", a, <<>>, session_spop(db, a))

-----------------------------------------------------------------------------
(* Sorted sets. *)

zscore == \E a \in Plain, x \in Elements : Done("zscore", a, x, session_zscore(db, a, x))

zrange == \E a \in Plain, s \in Counts, t \in Counts :
            Done("zrange", a, <<s, t>>, session_zrange(db, a, s, t))

zrevrange == \E a \in Plain, s \in Counts, t \in Counts :
               Done("zrevrange", a, <<s, t>>, session_zrevrange(db, a, s, t))

genericZrangebyscore ==
  \E a \in Plain, s \in Scores, t \in Scores, n \in {-1, 1}, reverse \in BOOLEAN :
    Done("zrangebyscore", a, <<s, t>>, session_genericZrangebyscore(db, a, s, t, n, reverse))

zadd == \E a \in Stamped, x \in Elements, s \in Scores :
          Done("zadd", a, <<x, s>>, session_zadd(db, a, x, s))

zrank == \E a \in Plain, x \in Elements : Done("zrank", a, x, session_zrank(db, a, x))

zrevrank == \E a \in Plain, x \in Elements :
              Done("zrevrank", a, x, session_zrevrank(db, a, x))

zcount == \E a \in Plain, s \in Scores, t \in Scores :
            Done("zcount", a, <<s, t>>, session_zcount(db, a, s, t))

\* Bound: a score stays within twice the scores given.
zincrby == \E a \in Stamped, x \in Elements, s \in Scores :
             /\ Has(db, a.key) /\ db.dict[a.key].type = "zset"
                  => \A y \in DOMAIN db.dict[a.key].val : db.dict[a.key].val[y] \in Scores
             /\ Done("zincrby", a, <<x, s>>, session_zincrby(db, a, x, s))

zcard == \E a \in Plain : Done("zcard", a, <<>>, session_zcard(db, a))

zrem == \E a \in Stamped, x \in Elements : Done("zrem", a, x, session_zrem(db, a, x))

zremrangebyrank == \E a \in Stamped, s \in Counts, t \in Counts :
  Done("zremrangebyrank", a, <<s, t>>, session_zremrangebyrank(db, a, s, t))

zremrangebyscore == \E a \in Stamped, s \in Scores, t \in Scores :
  Done("zremrangebyscore", a, <<s, t>>, session_zremrangebyscore(db, a, s, t))

-----------------------------------------------------------------------------
KeyCalls == /\ "key" \in Groups
            /\ \/ ttl \/ type \/ remove \/ expire \/ expireat \/ persist \/ exists

AreaCalls == /\ "area" \in Groups
             /\ lazyclear \/ serverCronByDb \/ Tick

FilterCalls == "filter" \in Groups /\ (addfilter \/ removefilter)

StringCalls == "string" \in Groups /\ (putnx \/ incdecr \/ get \/ getset)

ListCalls == /\ "list" \in Groups
             /\ \/ lrpush \/ lrpop \/ lindex \/ lrange \/ lrem \/ llen
                \/ linsert \/ lset \/ ltrim

HashCalls == /\ "hash" \in Groups
             /\ \/ hgetall \/ hkeys \/ hvals \/ hincrby \/ hmset \/ hset
                \/ hsetnx \/ hexists \/ hget \/ hmget \/ hdel \/ hlen

SetCalls == "set" \in Groups /\ (scard \/ smembers \/ sadd \/ srem \/ spop)

ZsetCalls == /\ "zset" \in Groups
             /\ \/ zscore \/ zrange \/ zrevrange \/ genericZrangebyscore \/ zadd
                \/ zrank \/ zrevrank \/ zcount \/ zincrby \/ zcard \/ zrem
                \/ zremrangebyrank \/ zremrangebyscore

Next == \/ put \/ KeyCalls \/ AreaCalls \/ FilterCalls \/ StringCalls
        \/ ListCalls \/ HashCalls \/ SetCalls \/ ZsetCalls

Spec == Init /\ [][Next]_vars

-----------------------------------------------------------------------------
(* Properties. *)

Live(d, k) == Has(d, k) /\ ~Stale(d, k) /\ ~Expired(d, k)

\* Types: expires only names stored keys, versions fit their width, no key
\* is stored under a later clock, need_remove_key is never negative.
TypeOK ==
  /\ DOMAIN db.dict \subseteq Keys
  /\ DOMAIN db.expires \subseteq DOMAIN db.dict
  /\ \A k \in DOMAIN db.dict : /\ db.dict[k].ver \in 0..(VersionMod - 1)
                               /\ db.dict[k].clk \in 1..db.logiclock
                               /\ db.dict[k].type \in {"string", "list", "hash", "set", "zset"}
  /\ db.need \in 0..Cardinality(Keys)

\* Every flushed key still stored is counted in need_remove_key, whatever
\* lookups, deletes, evictions and expiries removed in between: the cron
\* thread stops looking for flushed keys at 0 (redis.c, activeExpireCycleByDb).
StaleKeysCounted == Cardinality(StaleKeys(db)) <= db.need

\* The part of a value that the area's filters leave: a filtered field may
\* be dropped from a hash by any look at it.
Unfiltered(d, e) ==
  IF e.type = "hash" THEN {<<f, e.val[f].v>> : f \in {g \in DOMAIN e.val : e.val[g].ts >= FieldTs(d, g)}}
  ELSE e.val

SameContent(d, e, k) ==
  /\ d.dict[k].type = e.dict[k].type
  /\ Unfiltered(e, d.dict[k]) = Unfiltered(e, e.dict[k])

ExpireOf(d, k) == IF k \in DOMAIN d.expires THEN d.expires[k] ELSE 0

Refusals == {"COUNT_ZERO", "DATA_NOT_EXIST", "VERSION_ERROR", "TYPE_NOT_MATCH", "FAILED",
             "OUT_OF_RANGE", "IS_NOT_INTEGER", "RANGE_HAVE_NONE", "DATA_LEN_LIMITED"}

\* A push or HMSET that list_max_size or hash_max_size cuts short.
CutShort(l) == l.code = "DATA_LEN_LIMITED" /\ l.op \in {"lrpush", "lrpushx", "hmset"}

Refused(l) == \/ l.code \in Refusals
              \/ l.code = "ALREADY_EXIST" /\ l.op \in {"putnx", "hsetnx"}

\* A call that answers with a refusal leaves every live key's value, version
\* and expire as they were - version errors and type errors above all, which
\* the client retries.  Exactly two kinds of call do not: a push or HMSET
\* cut short by a size limit, and SREM of a missing member, which refreshes
\* the expire.
RefusedChangesNothing ==
  Refused(last') /\ ~CutShort(last') =>
     \A k \in Keys : Live(db, k) =>
       \/ db.tight /\ ~Has(db', k)
       \/ /\ Has(db', k)
          /\ SameContent(db, db', k)
          /\ db'.dict[k].ver = db.dict[k].ver
          /\ \/ ExpireOf(db', k) = ExpireOf(db, k)
             \/ last'.op = "srem" /\ last'.code = "DATA_NOT_EXIST"

\* A capped push cut short; and one cut short before its first value.
CappedShort(l) == CutShort(l) /\ l.op = "lrpush" /\ l.arg.n > 0

PushedNothing(l) == CappedShort(l) /\ l.ret = 0

\* The version of a live key moves by one, in calls on that key that care
\* for the version only, and no such call changes a value without moving it,
\* so that a writer holding the old version is refused.  The exception is a
\* capped push at list_max_size: it drops elements, pushes none and keeps
\* the version (t_list.c, pushnGenericCommand).  A key that the call evicted
\* to make room for itself starts again.
VersionsAdvance ==
  \A k \in Keys : Live(db, k) /\ Live(db', k) /\ ~(db.tight /\ db'.dict[k].ver <= 1) =>
     LET moved == (db'.dict[k].ver - db.dict[k].ver) % VersionMod
         mine  == last'.a.key = k /\ last'.a.care
     IN /\ moved = 0 \/ (moved = 1 /\ mine)
        /\ SameContent(db, db', k) \/ moved = 1 \/ ~mine \/ PushedNothing(last')

\* What a client holding a version may rely on: a refused call changed nothing,
\* and one that changed something is seen in the version.
VersionsGuard == [][RefusedChangesNothing /\ VersionsAdvance]_vars

Size(d, k) ==
  IF ~Has(d, k) \/ d.dict[k].type = "string" THEN 1
  ELSE LET v == d.dict[k].val
       IN CASE d.dict[k].type = "list" -> Len(v)
            [] d.dict[k].type = "set"  -> Cardinality(v)
            [] OTHER -> Cardinality(DOMAIN v)

\* A collection that becomes empty is deleted with its key.  Exactly two
\* calls leave an empty one behind: a look at the last, filtered, field of a
\* hash, and a capped push at list_max_size.
EmptiedIsDeleted ==
  \A k \in Keys : Size(db', k) = 0 =>
     \/ Size(db, k) = 0
     \/ last'.op \in {"hget", "hmget", "hgetall", "hkeys"}
     \/ CappedShort(last')

Limit(d, k) ==
  [string |-> 1, list |-> ListMax, hash |-> HashMax, set |-> SetMax,
   zset |-> ZsetMax][IF Has(d, k) THEN d.dict[k].type ELSE "string"]

\* No call lets a collection grow past its configured maximum, but for the
\* three that do not test it for every element: LINSERT, HSETNX and HMSET.
WithinLimits ==
  \A k \in Keys : Size(db', k) > Limit(db', k) =>
     Size(db', k) <= Size(db, k) \/ last'.op \in {"linsert", "hsetnx", "hmset"}

\* The size of a collection stays between the two.
SizesRight == [][EmptiedIsDeleted /\ WithinLimits]_vars

LiveList(d, k) == IF Live(d, k) THEN d.dict[k].val ELSE <<>>

\* The newest n elements of a list that grows at end w; all of them if n = 0.
Newest(l, w, n) ==
  IF n = 0 \/ n >= Len(l) THEN l
  ELSE IF w = "tail" THEN SubSeq(l, Len(l) - n + 1, Len(l)) ELSE SubSeq(l, 1, n)

\* A push that answers success has appended exactly the given values to what
\* a reader could see before - nothing of a flushed or expired list comes
\* back - and kept exactly the newest max_count elements.
PushedExactly ==
  [][last'.op = "lrpush" /\ last'.code = "SUCCESS" =>
       LET k == last'.a.key
           p == last'.arg
       IN db'.dict[k].val = Newest(listTypePush(LiveList(db, k), p.vs, p.w), p.w, p.n)]_vars

\* A key that was flushed or has expired only comes back with a new life: a
\* version of at most 1 and no more elements than the call gave.  EXPIRE and
\* PERSIST alone, which do not look whether the key has expired, revive an
\* expired one; a flushed key is never revived.
DeadStaysDead ==
  [][\A k \in Keys : Has(db, k) /\ ~Live(db, k) /\ Live(db', k) =>
       \/ ~Stale(db, k) /\ last'.op \in {"expire", "persist"}
       \/ db'.dict[k].ver <= 1 /\ Size(db', k) <= 2]_vars

=============================================================================
