---------------------------- MODULE RedisObjects ----------------------------
(***************************************************************************)
(* The value under a key of the redis-derived engine, in the structure     *)
(* that holds it: a set is an array of integers or a hash table (t_set.c), *)
(* a hash is packed or a hash table (t_hash.c), a list is packed or linked *)
(* (t_list.c), a sorted set is a hash table and a skip list (t_zset.c).    *)
(* The keyspace itself ("db", db.c) is a hash table that serverCron        *)
(* resizes and rehashes between calls.  obj is the structure, "none" when  *)
(* the key is absent; a command that leaves nothing deletes the key.  call *)
(* is the last call with its answer; n alternates from call to call.       *)
(***************************************************************************)
EXTENDS RedisDict, SkipList, IntSet, ZipMap, ZipList, AdList

CONSTANTS
  Kinds,                    \* those of the types that are explored
  Elements, IntOf,          \* members of sets; the integers that some of them are
  Fields, FieldValues, Stamps, LongValues,
  Items, Indexes, RemCounts,
  SortMembers, SortScores,
  Names,                    \* keys of the keyspace
  set_max_intset_entries,
  hash_max_zipmap_entries,
  list_max_ziplist_entries,
  MaxItems                  \* bound on the length of a list

VARIABLES kind, obj, call

objVars == <<kind, obj, call>>

None == [enc |-> "none"]

\* The call that was made and what it gave.
Called(op, args, res) == call' = [op |-> op, args |-> args, res |-> res, n |-> 1 - call.n]

LOCAL Absent == obj.enc = "none"

\* dbDelete of a key that nothing is left under.
LOCAL Settle(o, size) == IF size = 0 THEN None ELSE o

LOCAL Entry(x) == [k |-> x, ts |-> 0, v |-> 0]

RECURSIVE AddAll(_, _)
AddAll(d, entries) == IF entries = <<>> THEN d ELSE AddAll(dictAdd(d, Head(entries)).d, Tail(entries))

\* The resize that every deletion of a set, a hash or a sorted set tries.
Shrink(d) == IF htNeedsResize(d) THEN dictResize(d) ELSE d

-----------------------------------------------------------------------------
(* Sets. *)

IsInt(x) == x \in DOMAIN IntOf

NameOf(i) == CHOOSE x \in DOMAIN IntOf : IntOf[x] = i

setTypeCreate(x) ==
  IF IsInt(x) THEN [enc |-> "intset", is |-> intsetNew] ELSE [enc |-> "ht", d |-> dictCreate]

setTypeConvert(o) ==
  [enc |-> "ht",
   d |-> AddAll(dictExpand(dictCreate, intsetLen(o.is)),
                [i \in 1..intsetLen(o.is) |-> Entry(NameOf(o.is.contents[i]))])]

\* More integers than an array may hold, or a member that is none.
setTypeAdd(o, x) ==
  IF o.enc = "ht" THEN LET a == dictAdd(o.d, Entry(x)) IN [o |-> [o EXCEPT !.d = a.d], ok |-> a.ok]
  ELSE IF ~IsInt(x)
  THEN [o |-> [enc |-> "ht", d |-> dictAdd(setTypeConvert(o).d, Entry(x)).d], ok |-> TRUE]
  ELSE LET a   == intsetAdd(o.is, IntOf[x])
           new == [o EXCEPT !.is = a.is]
       IN [o |-> IF a.ok /\ intsetLen(a.is) > set_max_intset_entries THEN setTypeConvert(new) ELSE new,
           ok |-> a.ok]

setTypeRemove(o, x) ==
  IF o.enc = "ht"
  THEN LET r == dictGenericDelete(o.d, x)
       IN [o |-> [o EXCEPT !.d = IF r.ok THEN Shrink(r.d) ELSE r.d], ok |-> r.ok]
  ELSE IF ~IsInt(x) THEN [o |-> o, ok |-> FALSE]
  ELSE LET r == intsetRemove(o.is, IntOf[x]) IN [o |-> [o EXCEPT !.is = r.is], ok |-> r.ok]

setTypeSize(o) == IF o.enc = "ht" THEN dictSize(o.d) ELSE intsetLen(o.is)

\* setTypeNext until it ends.
setMembers(o) ==
  IF o.enc = "ht" THEN [i \in DOMAIN dictEntries(o.d) |-> dictEntries(o.d)[i].k]
  ELSE [i \in DOMAIN o.is.contents |-> NameOf(o.is.contents[i])]

setTypeRandomElement(o) ==
  IF o.enc = "ht" THEN {[o |-> [o EXCEPT !.d = r.d], x |-> r.e.k] : r \in dictGetRandomKey(o.d)}
  ELSE {[o |-> o, x |-> NameOf(i)] : i \in ToSet(o.is.contents)}

sadd(x) ==
  LET a == setTypeAdd(IF Absent THEN setTypeCreate(x) ELSE obj, x)
  IN obj' = a.o /\ Called("sadd", <<x>>, a.ok)

srem(x) ==
  LET r == setTypeRemove(obj, x)
  IN ~Absent /\ obj' = Settle(r.o, setTypeSize(r.o)) /\ Called("srem", <<x>>, r.ok)

spop ==
  /\ ~Absent
  /\ \E pick \in setTypeRandomElement(obj) :
       LET r == setTypeRemove(pick.o, pick.x)
       IN obj' = Settle(r.o, setTypeSize(r.o)) /\ Called("spop", <<>>, pick.x)

scard == ~Absent /\ UNCHANGED obj /\ Called("scard", <<>>, setTypeSize(obj))

smembers == ~Absent /\ UNCHANGED obj /\ Called("smembers", <<>>, setMembers(obj))

SetCall == /\ kind = "set"
           /\ \/ \E x \in Elements : sadd(x) \/ srem(x)
              \/ spop \/ scard \/ smembers

-----------------------------------------------------------------------------
(* Hashes. *)

createHashObject == [enc |-> "zipmap", zm |-> zipmapXNew]

convertToRealHash(zm) ==
  [enc |-> "ht",
   d |-> AddAll(dictCreate, [i \in DOMAIN zm.entries |->
                               [k |-> zm.entries[i].k, ts |-> zm.entries[i].ts, v |-> zm.entries[i].v]])]

\* A field or a value longer than hash_max_zipmap_value.
hashTypeTryConversion(o, f, v) ==
  IF o.enc = "zipmap" /\ {f, v} \cap LongValues # {} THEN convertToRealHash(o.zm) ELSE o

hashTypeSet(o, f, ts, v) ==
  IF o.enc = "ht"
  THEN LET r == dictReplace(o.d, [k |-> f, ts |-> ts, v |-> v])
       IN [o |-> [o EXCEPT !.d = r.d], update |-> ~r.ok]
  ELSE LET l == zipmapXLen(zipmapXSet(o.zm, f, ts, v))
       IN [o |-> IF l.len > hash_max_zipmap_entries THEN convertToRealHash(l.zm)
                 ELSE [o EXCEPT !.zm = l.zm],
           update |-> zipmapXLookupRaw(o.zm, f) # 0]

\* A field whose stamp is older than the one asked with is deleted.
hashTypeSimpleDel(d, f, e, ts) ==
  IF ts > e.ts THEN [d |-> Shrink(dictGenericDelete(d, f).d), gone |-> TRUE]
  ELSE [d |-> d, gone |-> FALSE]

hashTypeGet(o, f, ts) ==
  IF o.enc = "zipmap"
  THEN LET r == zipmapXGet(o.zm, f, ts)
       IN [o |-> [o EXCEPT !.zm = r.zm], res |-> IF r.found THEN <<r.v>> ELSE <<>>]
  ELSE LET r == dictFind(o.d, f)
       IN IF ~r.found THEN [o |-> [o EXCEPT !.d = r.d], res |-> <<>>]
          ELSE LET s == hashTypeSimpleDel(r.d, f, r.e, ts)
               IN [o |-> [o EXCEPT !.d = s.d], res |-> IF s.gone THEN <<>> ELSE <<r.e.v>>]

hashTypeExists(o, f, ts) ==
  IF o.enc = "zipmap"
  THEN LET r == zipmapXExists(o.zm, f, ts) IN [o |-> [o EXCEPT !.zm = r.zm], res |-> r.found]
  ELSE LET r == dictFind(o.d, f)
       IN IF ~r.found THEN [o |-> [o EXCEPT !.d = r.d], res |-> FALSE]
          ELSE LET s == hashTypeSimpleDel(r.d, f, r.e, ts)
               IN [o |-> [o EXCEPT !.d = s.d], res |-> ~s.gone]

hashTypeDelete(o, f) ==
  IF o.enc = "zipmap"
  THEN LET r == zipmapXDel(o.zm, f) IN [o |-> [o EXCEPT !.zm = r.zm], ok |-> r.deleted]
  ELSE LET r == dictGenericDelete(o.d, f)
       IN [o |-> [o EXCEPT !.d = IF r.ok THEN Shrink(r.d) ELSE r.d], ok |-> r.ok]

hashTypeLength(o) ==
  IF o.enc = "zipmap" THEN LET l == zipmapXLen(o.zm) IN [o |-> [o EXCEPT !.zm = l.zm], len |-> l.len]
  ELSE [o |-> o, len |-> dictSize(o.d)]

\* hashTypeNext until it ends.
hashPairs(o) ==
  LET es == IF o.enc = "zipmap" THEN o.zm.entries ELSE dictEntries(o.d)
  IN [i \in DOMAIN es |-> <<es[i].k, es[i].v>>]

hset(f, ts, v) ==
  LET r == hashTypeSet(hashTypeTryConversion(IF Absent THEN createHashObject ELSE obj, f, v), f, ts, v)
  IN obj' = hashTypeLength(r.o).o /\ Called("hset", <<f, ts, v>>, r.update)

hget(f, ts) ==
  LET r == hashTypeGet(obj, f, ts) IN ~Absent /\ obj' = r.o /\ Called("hget", <<f, ts>>, r.res)

hexists(f, ts) ==
  LET r == hashTypeExists(obj, f, ts) IN ~Absent /\ obj' = r.o /\ Called("hexists", <<f, ts>>, r.res)

hdel(f) ==
  LET r == hashTypeDelete(obj, f)
      l == hashTypeLength(r.o)
  IN /\ ~Absent
     /\ obj' = IF r.ok THEN Settle(l.o, l.len) ELSE r.o
     /\ Called("hdel", <<f>>, r.ok)

hlen == LET l == hashTypeLength(obj) IN ~Absent /\ obj' = l.o /\ Called("hlen", <<>>, l.len)

hgetall == ~Absent /\ UNCHANGED obj /\ Called("hgetall", <<>>, hashPairs(obj))

HashCall == /\ kind = "hash"
            /\ \/ \E f \in Fields, ts \in Stamps, v \in FieldValues : hset(f, ts, v)
               \/ \E f \in Fields, ts \in Stamps : hget(f, ts) \/ hexists(f, ts)
               \/ \E f \in Fields : hdel(f)
               \/ hlen \/ hgetall

-----------------------------------------------------------------------------
(* Lists. *)

createZiplistObject == [enc |-> "ziplist", zl |-> ziplistNew]

RECURSIVE LinkedFrom(_, _)
LinkedFrom(l, vs) == IF vs = <<>> THEN l ELSE LinkedFrom(listAddNodeTail(l, Head(vs)), Tail(vs))

listTypeConvert(o) ==
  [enc |-> "linked",
   l |-> LinkedFrom(listCreate, [i \in DOMAIN o.zl.entries |-> ziplistGet(o.zl, i)])]

listTypeTryConversion(o, v) == IF o.enc = "ziplist" /\ v \in LongValues THEN listTypeConvert(o) ELSE o

listTypeLength(o) == IF o.enc = "ziplist" THEN ziplistLen(o.zl) ELSE o.l.len

listTypePush(o0, v, atHead) ==
  LET o1 == listTypeTryConversion(o0, v)
      o  == IF o1.enc = "ziplist" /\ ziplistLen(o1.zl) >= list_max_ziplist_entries
            THEN listTypeConvert(o1) ELSE o1
  IN IF o.enc = "ziplist" THEN [o EXCEPT !.zl = ziplistPush(@, v, atHead)]
     ELSE [o EXCEPT !.l = IF atHead THEN listAddNodeHead(@, v) ELSE listAddNodeTail(@, v)]

\* The position of an index: an entry or a node, 0 if there is none.
listTypeIndex(o, index) ==
  IF o.enc = "ziplist" THEN ziplistIndex(o.zl, index) ELSE listIndex(o.l, index)

listTypeGet(o, p) == IF o.enc = "ziplist" THEN ziplistGet(o.zl, p) ELSE o.l.node[p].v

listTypeNext(o, p, back) ==
  IF o.enc = "ziplist" THEN IF back THEN ziplistPrev(o.zl, p) ELSE ziplistNext(o.zl, p)
  ELSE IF back THEN o.l.node[p].prev ELSE o.l.node[p].next

listTypeEqual(o, p, v) == IF o.enc = "ziplist" THEN ziplistCompare(o.zl, p, v) ELSE o.l.node[p].v = v

\* The list without p, and where its iterator goes on: in a packed list that
\* runs forward at p itself, which may now be the end mark.
listTypeDelete(o, p, back) ==
  IF o.enc = "ziplist"
  THEN LET zl == ziplistDelete(o.zl, p)
       IN [o |-> [o EXCEPT !.zl = zl], p |-> IF back THEN ziplistPrev(zl, p) ELSE p]
  ELSE [o |-> [o EXCEPT !.l = listDelNode(@, p)], p |-> listTypeNext(o, p, back)]

listTypeInsert(o, p, v, after) ==
  IF o.enc = "linked" THEN [o EXCEPT !.l = listInsertNode(@, p, v, after)]
  ELSE IF ~after THEN [o EXCEPT !.zl = ziplistInsert(@, p, v)]
  ELSE IF ziplistNext(o.zl, p) = 0 THEN [o EXCEPT !.zl = ziplistPush(@, v, FALSE)]
  ELSE [o EXCEPT !.zl = ziplistInsert(@, ziplistNext(o.zl, p), v)]

\* The first position from p on that has value v; 0 if none does.
RECURSIVE SeekFrom(_, _, _)
SeekFrom(o, p, v) ==
  IF p = 0 THEN 0 ELSE IF listTypeEqual(o, p, v) THEN p ELSE SeekFrom(o, listTypeNext(o, p, FALSE), v)

\* The loop of LREM: left more are to go, all of them if it starts at 0.
RECURSIVE RemoveFrom(_, _, _, _, _, _)
RemoveFrom(o, p, v, left, back, removed) ==
  IF p = 0 THEN [o |-> o, removed |-> removed]
  ELSE IF ~listTypeEqual(o, p, v) THEN RemoveFrom(o, listTypeNext(o, p, back), v, left, back, removed)
  ELSE LET r == listTypeDelete(o, p, back)
       IN IF removed + 1 = left THEN [o |-> r.o, removed |-> left]
          ELSE RemoveFrom(r.o, r.p, v, left, back, removed + 1)

\* ltrim nodes off the head of a linked list, then rtrim off its tail.
RECURSIVE DropNodes(_, _, _)
DropNodes(l, ltrim, rtrim) ==
  IF ltrim > 0 THEN DropNodes(listDelNode(l, l.head), ltrim - 1, rtrim)
  ELSE IF rtrim > 0 THEN DropNodes(listDelNode(l, l.tail), 0, rtrim - 1) ELSE l

\* start and end of a range counted from 0; the range is empty if r[1] > r[2].
RangeOf(start, end, n) ==
  LET s0 == IF start < 0 THEN n + start ELSE start
      s  == IF s0 < 0 THEN 0 ELSE s0
      e  == IF end < 0 THEN n + end ELSE end
  IN IF s > e \/ s >= n THEN <<1, 0>> ELSE <<s, IF e >= n THEN n - 1 ELSE e>>

push(v, atHead) ==
  /\ ~Absent => listTypeLength(obj) < MaxItems
  /\ obj' = listTypePush(IF Absent THEN createZiplistObject ELSE obj, v, atHead)
  /\ Called("push", <<v, atHead>>, listTypeLength(obj'))

pop(atHead) ==
  /\ ~Absent
  /\ LET p == listTypeIndex(obj, IF atHead THEN 0 ELSE -1)
         r == listTypeDelete(obj, p, FALSE)
     IN /\ obj' = Settle(r.o, listTypeLength(r.o))
        /\ Called("pop", <<atHead>>, listTypeGet(obj, p))

linsert(ref, v, after) ==
  LET o   == listTypeTryConversion(obj, v)
      p   == SeekFrom(o, listTypeIndex(o, 0), ref)
      new == listTypeInsert(o, p, v, after)
  IN /\ ~Absent /\ listTypeLength(obj) < MaxItems
     /\ obj' = IF p = 0 THEN o
               ELSE IF new.enc = "ziplist" /\ ziplistLen(new.zl) > list_max_ziplist_entries
               THEN listTypeConvert(new) ELSE new
     /\ Called("linsert", <<ref, v, after>>, p # 0)

llen == ~Absent /\ UNCHANGED obj /\ Called("llen", <<>>, listTypeLength(obj))

lindex(index) ==
  LET p == listTypeIndex(obj, index)
  IN /\ ~Absent /\ UNCHANGED obj
     /\ Called("lindex", <<index>>, IF p = 0 THEN <<>> ELSE <<listTypeGet(obj, p)>>)

lset(index, v) ==
  LET o == listTypeTryConversion(obj, v)
      p == listTypeIndex(o, index)
  IN /\ ~Absent
     /\ obj' = IF p = 0 THEN o
               ELSE IF o.enc = "linked" THEN [o EXCEPT !.l.node[p].v = v]
               ELSE [o EXCEPT !.zl = ziplistInsert(ziplistDelete(@, p), p, v)]
     /\ Called("lset", <<index, v>>, p # 0)

lrange(start, end) ==
  LET r == RangeOf(start, end, listTypeLength(obj))
      n == r[2] - r[1] + 1
      p == listTypeIndex(obj, r[1])
  IN /\ ~Absent /\ UNCHANGED obj
     /\ Called("lrange", <<start, end>>,
               IF n = 0 THEN <<>>
               ELSE IF obj.enc = "linked" THEN ValuesFrom(obj.l, p, n)
               ELSE [i \in 1..n |-> ziplistGet(obj.zl, p + i - 1)])

ltrim(start, end) ==
  LET n     == listTypeLength(obj)
      r     == RangeOf(start, end, n)
      left  == IF r[1] > r[2] THEN n ELSE r[1]
      right == IF r[1] > r[2] THEN 0 ELSE n - r[2] - 1
      new   == IF obj.enc = "linked" THEN [obj EXCEPT !.l = DropNodes(@, left, right)]
               ELSE [obj EXCEPT !.zl = ziplistDeleteRange(ziplistDeleteRange(@, 0, left), -right, right)]
  IN ~Absent /\ obj' = Settle(new, listTypeLength(new)) /\ Called("ltrim", <<start, end>>, TRUE)

lrem(count, v) ==
  LET back == count < 0
      r    == RemoveFrom(obj, listTypeIndex(obj, IF back THEN -1 ELSE 0), v,
                         IF back THEN -count ELSE count, back, 0)
  IN /\ ~Absent
     /\ obj' = Settle(r.o, listTypeLength(r.o))
     /\ Called("lrem", <<count, v>>, r.removed)

ListCall == /\ kind = "list"
            /\ \/ \E v \in Items, atHead \in BOOLEAN : push(v, atHead)
               \/ \E atHead \in BOOLEAN : pop(atHead)
               \/ \E ref, v \in Items, after \in BOOLEAN : linsert(ref, v, after)
               \/ llen
               \/ \E i \in Indexes : lindex(i) \/ \E v \in Items : lset(i, v)
               \/ \E i, j \in Indexes : lrange(i, j) \/ ltrim(i, j)
               \/ \E i \in RemCounts, v \in Items : lrem(i, v)

-----------------------------------------------------------------------------
(* Sorted sets. *)

createZsetObject == [enc |-> "zset", d |-> dictCreate, z |-> zslCreate]

\* level is the one that zslRandomLevel draws if a node is inserted.
zadd(m, s, level) ==
  LET o == IF Absent THEN createZsetObject ELSE obj
      a == dictAdd(o.d, [k |-> m, ts |-> 0, v |-> s])
      f == dictFind(a.d, m)
  IN /\ obj' = IF a.ok THEN [o EXCEPT !.d = f.d, !.z = zslInsert(@, s, m, level)]
               ELSE IF f.e.v = s THEN [o EXCEPT !.d = f.d]
               ELSE [o EXCEPT !.d = Overwrite(f.d, [f.e EXCEPT !.v = s]),
                              !.z = zslInsert(zslDelete(@, f.e.v, m), s, m, level)]
     /\ Called("zadd", <<m, s>>, a.ok)

zrem(m) ==
  LET f == dictFind(obj.d, m)
      d == Shrink(dictGenericDelete(f.d, m).d)
  IN /\ ~Absent
     /\ obj' = IF f.found THEN Settle([obj EXCEPT !.d = d, !.z = zslDelete(@, f.e.v, m)], dictSize(d))
               ELSE [obj EXCEPT !.d = f.d]
     /\ Called("zrem", <<m>>, f.found)

\* The members that left the skip list leave the hash table in the same order.
RECURSIVE DeleteAll(_, _)
DeleteAll(d, ms) == IF ms = <<>> THEN d ELSE DeleteAll(dictGenericDelete(d, Head(ms)).d, Tail(ms))

LOCAL Dropped(z) ==
  LET gone == SelectSeq(Ordered(obj.z), LAMBDA m : m \notin Members(z))
      d    == Shrink(DeleteAll(obj.d, gone))
  IN obj' = Settle([obj EXCEPT !.d = d, !.z = z], dictSize(d))

zremrangebyscore(min, max) ==
  LET z == zslDeleteRangeByScore(obj.z, min, max)
  IN ~Absent /\ Dropped(z) /\ Called("zremrangebyscore", <<min, max>>, obj.z.length - z.length)

zremrangebyrank(start, end) ==
  LET r == RangeOf(start, end, obj.z.length)
      z == IF r[1] > r[2] THEN obj.z ELSE zslDeleteRangeByRank(obj.z, r[1] + 1, r[2] + 1)
  IN ~Absent /\ Dropped(z) /\ Called("zremrangebyrank", <<start, end>>, obj.z.length - z.length)

zrange(start, end, reverse) ==
  LET r == RangeOf(start, end, obj.z.length)
      n == r[2] - r[1] + 1
  IN /\ ~Absent /\ UNCHANGED obj
     /\ Called("zrange", <<start, end, reverse>>,
          IF reverse
          THEN Backward(obj.z, IF r[1] = 0 THEN obj.z.tail
                               ELSE zslGetElementByRank(obj.z, obj.z.length - r[1]), n)
          ELSE Forward(obj.z, IF r[1] = 0 THEN zslFirst(obj.z)
                              ELSE zslGetElementByRank(obj.z, r[1] + 1), n))

zrangebyscore(min, max, reverse) ==
  /\ ~Absent /\ UNCHANGED obj
  /\ Called("zrangebyscore", <<min, max, reverse>>,
            IF reverse THEN WalkDown(obj.z, zslLastWithScore(obj.z, max), min)
            ELSE WalkUp(obj.z, zslFirstWithScore(obj.z, min), max))

zrank(m) ==
  LET f == dictFind(obj.d, m)
  IN /\ ~Absent /\ obj' = [obj EXCEPT !.d = f.d]
     /\ Called("zrank", <<m>>, IF f.found THEN zslGetRank(obj.z, f.e.v, m) ELSE 0)

zscore(m) ==
  LET f == dictFind(obj.d, m)
  IN /\ ~Absent /\ obj' = [obj EXCEPT !.d = f.d]
     /\ Called("zscore", <<m>>, IF f.found THEN <<f.e.v>> ELSE <<>>)

zcard == ~Absent /\ UNCHANGED obj /\ Called("zcard", <<>>, obj.z.length)

ZsetCall == /\ kind = "zset"
            /\ \/ \E m \in SortMembers, s \in SortScores, l \in 1..ZSKIPLIST_MAXLEVEL : zadd(m, s, l)
               \/ \E m \in SortMembers : zrem(m) \/ zrank(m) \/ zscore(m)
               \/ \E i, j \in SortScores : zremrangebyscore(i, j)
               \/ \E i, j \in Indexes : zremrangebyrank(i, j)
               \/ \E i, j \in Indexes, rev \in BOOLEAN : zrange(i, j, rev)
               \/ \E i, j \in SortScores, rev \in BOOLEAN : zrangebyscore(i, j, rev)
               \/ zcard

-----------------------------------------------------------------------------
(* The keyspace, of which only the names matter here. *)

dbAdd(k) ==
  LET a == dictAdd(IF Absent THEN dictCreate ELSE obj.d, Entry(k))
  IN obj' = [enc |-> "ht", d |-> a.d] /\ Called("sadd", <<k>>, a.ok)

dbDelete(k) ==
  LET r == dictGenericDelete(obj.d, k)
  IN ~Absent /\ obj' = [obj EXCEPT !.d = r.d] /\ Called("srem", <<k>>, r.ok)

lookupKey(k) ==
  LET f == dictFind(obj.d, k)
  IN ~Absent /\ obj' = [obj EXCEPT !.d = f.d] /\ Called("sismember", <<k>>, f.found)

dbCall == kind = "db" /\ \E k \in Names : dbAdd(k) \/ dbDelete(k) \/ lookupKey(k)

tryResizeHashTableByDb == obj.d # Shrink(obj.d) /\ obj' = [obj EXCEPT !.d = Shrink(@)]

incrementallyRehashByDb ==
  dictIsRehashing(obj.d) /\ obj' = [obj EXCEPT !.d = dictRehashMilliseconds(@)]

\* serverCron: no call, so call is unchanged.
Cron == kind = "db" /\ ~Absent /\ (tryResizeHashTableByDb \/ incrementallyRehashByDb) /\ UNCHANGED call

-----------------------------------------------------------------------------

ObjectsInit == /\ kind \in Kinds
               /\ obj = None
               /\ call = [op |-> "none", args |-> <<>>, res |-> <<>>, n |-> 0]

ObjectsNext == UNCHANGED kind /\ (SetCall \/ HashCall \/ ListCall \/ ZsetCall \/ dbCall \/ Cron)

ObjectsSpec == ObjectsInit /\ [][ObjectsNext]_objVars

\* The collection that obj stands for.
Contents ==
  CASE kind \in {"set", "db"} -> IF Absent THEN {} ELSE ToSet(setMembers(obj))
    [] kind = "hash" ->
         IF Absent THEN <<>>
         ELSE LET es == ToSet(IF obj.enc = "zipmap" THEN obj.zm.entries ELSE dictEntries(obj.d))
              IN [f \in {e.k : e \in es} |-> LET e == CHOOSE x \in es : x.k = f
                                             IN [v |-> e.v, ts |-> e.ts]]
    [] kind = "list" ->
         IF Absent THEN <<>>
         ELSE IF obj.enc = "ziplist" THEN [i \in DOMAIN obj.zl.entries |-> obj.zl.entries[i].v]
         ELSE ValuesFrom(obj.l, obj.l.head, obj.l.len)
    [] kind = "zset" -> IF Absent THEN <<>> ELSE obj.z.score

Abstract == INSTANCE Collections WITH value <- Contents

\* Whatever structure holds a value, and whatever conversions, resizes and
\* rehashes it has been through, each call answers and changes what the same
\* call on the plain set, map or sequence would: the module Collections.
Implements == Abstract!Spec

\* The bookkeeping inside the structures that later calls rely on.
ObjectSound ==
  CASE obj.enc = "none" -> TRUE
    [] obj.enc = "intset" -> IntSetSound(obj.is)
    [] obj.enc = "zipmap" -> ZipMapSound(obj.zm)
    [] obj.enc = "ziplist" -> ZipListSound(obj.zl)
    [] obj.enc = "linked" -> AdListSound(obj.l)
    [] obj.enc = "ht" -> DictSound(obj.d)
    [] obj.enc = "zset" ->
         /\ DictSound(obj.d) /\ SkipListSound(obj.z)
         /\ {<<e.k, e.v>> : e \in ToSet(dictEntries(obj.d))}
              = {<<m, obj.z.score[m]>> : m \in Members(obj.z)}

=============================================================================
