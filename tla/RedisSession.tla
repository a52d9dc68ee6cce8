--------------------------- MODULE RedisSession ---------------------------
(***************************************************************************)
(* The operations of redis_db_session (storage/rdb/redis_db_session.cpp):  *)
(* each holds its unit's lock from end to end, prepares the client with    *)
(* the key stamped with the present logic clock, runs one command through  *)
(* processCommand and hands its code, version and values back.  An         *)
(* operation is the set of its possible replies, since processCommand may  *)
(* first evict a key.  The read, write, hit and remove counters are left   *)
(* out.                                                                    *)
(***************************************************************************)
EXTENDS RedisSets

\* freeDBMemory: the keys with an expire are sampled first, the others only
\* when there is none; the sampled key and so the victim is any of them.
Victims(d) == IF DOMAIN d.expires # {} THEN DOMAIN d.expires ELSE DOMAIN d.dict

freeDBMemory(d, k) ==
  [dbDelete(d, k) EXCEPT !.need = IF Stale(d, k) THEN @ - 1 ELSE @]

\* The command runs after the memory check, which frees at most one key here.
processCommand(d, F(_)) ==
  {F(e) : e \in {d} \cup (IF d.tight THEN {freeDBMemory(d, k) : k \in Victims(d)}
                          ELSE {})}

-----------------------------------------------------------------------------
(* Keys of any type. *)

session_expire(d, a, seconds) ==
  processCommand(d, LAMBDA e : expireXGenericCommand(e, a, seconds))

session_persist(d, a) == processCommand(d, LAMBDA e : persistCommand(e, a))

session_exists(d, a) == processCommand(d, LAMBDA e : existsCommand(e, a))

session_del(d, a) == processCommand(d, LAMBDA e : delCommand(e, a))

session_ttl(d, a) == processCommand(d, LAMBDA e : ttlCommand(e, a))

session_type(d, a) == processCommand(d, LAMBDA e : typeCommand(e, a))

\* The filter's pattern is the field pattern where there is one, else the
\* value pattern; the key pattern is not used.
session_addfilter(d, field) == add_filter_node(d, "field", field)

session_removefilter(d, field) == remove_filter_node(d, "field", field)

-----------------------------------------------------------------------------
(* Strings. *)

\* en chooses between SET and SETNX; a positive expire between those and
\* SETEX and SETNXEX.
session_set(d, a, nx, val) ==
  processCommand(d, LAMBDA e : setGenericCommand(e, a, nx, val))

session_incdecr(d, a, init, add) ==
  processCommand(d, LAMBDA e : incrDecrCommand(e, a, init, add))

session_get(d, a) == processCommand(d, LAMBDA e : getGenericCommand(e, a))

session_getset(d, a, val) == processCommand(d, LAMBDA e : getsetCommand(e, a, val))

-----------------------------------------------------------------------------
(* Lists. *)

\* max_count stays in the client after the call; only pushes read it and
\* every push sets it.
session_lrpush(d, a, vals, where, existOnly, max_count) ==
  processCommand(d, LAMBDA e :
    IF existOnly THEN pushxnGenericCommand(e, a, vals, where)
    ELSE pushnGenericCommand(e, a, vals, max_count, where))

session_lrpop(d, a, count, where) ==
  processCommand(d, LAMBDA e : popnGenericCommand(e, a, count, where))

session_lindex(d, a, i) == processCommand(d, LAMBDA e : lindexCommand(e, a, i))

session_lrange(d, a, s, t) == processCommand(d, LAMBDA e : lrangeCommand(e, a, s, t))

session_lrem(d, a, count, val) ==
  processCommand(d, LAMBDA e : lremCommand(e, a, count, val))

session_llen(d, a) == processCommand(d, LAMBDA e : llenCommand(e, a))

session_linsert(d, a, after, ref, val) ==
  processCommand(d, LAMBDA e : linsertCommand(e, a, after, ref, val))

session_lset(d, a, i, val) == processCommand(d, LAMBDA e : lsetCommand(e, a, i, val))

session_ltrim(d, a, s, t) == processCommand(d, LAMBDA e : ltrimCommand(e, a, s, t))

-----------------------------------------------------------------------------
(* Hashes. *)

\* HGETALL and HKEYS look at the filtered fields first, with a command of
\* its own; HVALS does not.
session_hgetall(d, a) ==
  processCommand(d, LAMBDA e : genericHgetallCommand(filter_field(e, a), a))

session_hkeys(d, a) ==
  processCommand(d, LAMBDA e : genericHgetallCommand(filter_field(e, a), a))

session_hvals(d, a) == processCommand(d, LAMBDA e : genericHgetallCommand(e, a))

session_hget(d, a, f) == processCommand(d, LAMBDA e : hgetCommand(e, a, f))

session_hincrby(d, a, f, n) == processCommand(d, LAMBDA e : hincrbyCommand(e, a, f, n))

session_hmget(d, a, fs) == processCommand(d, LAMBDA e : hmgetCommand(e, a, fs))

session_hset(d, a, f, v) == processCommand(d, LAMBDA e : hsetCommand(e, a, f, v))

session_hmset(d, a, ps) == processCommand(d, LAMBDA e : hmsetCommand(e, a, ps))

session_hsetnx(d, a, f, v) == processCommand(d, LAMBDA e : hsetnxCommand(e, a, f, v))

session_hdel(d, a, f) == processCommand(d, LAMBDA e : hdelCommand(e, a, f))

session_hlen(d, a) == processCommand(d, LAMBDA e : hlenCommand(e, a))

session_hexists(d, a, f) == processCommand(d, LAMBDA e : hexistsCommand(e, a, f))

-----------------------------------------------------------------------------
(* Sets. *)

session_scard(d, a) == processCommand(d, LAMBDA e : scardCommand(e, a))

session_smembers(d, a) == processCommand(d, LAMBDA e : sinterGenericCommand(e, a))

session_sadd(d, a, x) == processCommand(d, LAMBDA e : saddCommand(e, a, x))

\* The popped element is any of the set.
session_spop(d, a) ==
  UNION {processCommand(d, LAMBDA e : spopCommand(e, a, x)) :
           x \in LET s == d.dict[a.key].val
                 IN IF Has(d, a.key) /\ d.dict[a.key].type = "set" THEN s ELSE {0}}

session_srem(d, a, x) == processCommand(d, LAMBDA e : sremCommand(e, a, x))

-----------------------------------------------------------------------------
(* Sorted sets.  Scores are handed back with the members they belong to and *)
(* are not listed in the replies.                                           *)

session_zscore(d, a, x) == processCommand(d, LAMBDA e : zscoreCommand(e, a, x))

session_zrevrange(d, a, s, t) ==
  processCommand(d, LAMBDA e : zrangeGenericCommand(e, a, s, t, TRUE))

session_zrange(d, a, s, t) ==
  processCommand(d, LAMBDA e : zrangeGenericCommand(e, a, s, t, FALSE))

session_genericZrangebyscore(d, a, s, t, limit, reverse) ==
  processCommand(d, LAMBDA e : genericZrangebyscoreCommand(e, a, s, t, limit, reverse))

session_zadd(d, a, x, score) ==
  processCommand(d, LAMBDA e : zaddGenericCommand(e, a, x, score, FALSE))

session_zrank(d, a, x) == processCommand(d, LAMBDA e : zrankGenericCommand(e, a, x, FALSE))

session_zrevrank(d, a, x) ==
  processCommand(d, LAMBDA e : zrankGenericCommand(e, a, x, TRUE))

session_zcount(d, a, s, t) == processCommand(d, LAMBDA e : zcountCommand(e, a, s, t))

session_zincrby(d, a, x, n) ==
  processCommand(d, LAMBDA e : zaddGenericCommand(e, a, x, n, TRUE))

session_zrem(d, a, x) == processCommand(d, LAMBDA e : zremCommand(e, a, x))

session_zremrangebyrank(d, a, s, t) ==
  processCommand(d, LAMBDA e : zremrangebyrankCommand(e, a, s, t))

session_zremrangebyscore(d, a, s, t) ==
  processCommand(d, LAMBDA e : zremrangebyscoreCommand(e, a, s, t))

session_zcard(d, a) == processCommand(d, LAMBDA e : zcardCommand(e, a))

=============================================================================
